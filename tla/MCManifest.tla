----------------------------- MODULE MCManifest -----------------------------
(***************************************************************************)
(* Bounded instances of Manifest: two module manifests with contents that  *)
(* fail every check of manifest.rs, selected in both orders, twice, beside *)
(* an absolute path or not at all; and three module manifests, so that a   *)
(* third name can stand between two others.                                *)
(***************************************************************************)
EXTENDS Manifest

CONSTANTS p1, p2, p3, abs,  \* module manifest paths
          in, out           \* a plain input path, and one with ".." in it

A     == <<65>>                      \* "A"
A0    == <<65, 48>>                  \* "A0"
AB    == <<65, 58, 58, 66>>          \* "A::B"
Bee   == <<65, 66>>                  \* "AB": begins with "A", owned by nobody else
Bad   == <<58>>                      \* ":"
bundle == <<98>>
x == <<120>>
y == <<121>>
z == <<122>>

MCPaths == {p1, p2, p3}
MCAbsolute == {abs}
MCInputs == {in}
MCExplicit == {in}
MCGenerator == "this build"

Letters == {A, AB, Bee}
LettersAndDigits == {A, A0, AB}

Mod(name, namespace, imports, inputs) ==
    [version |-> 2, name |-> name, namespace |-> namespace, imports |-> imports,
     policies |-> inputs, schemas |-> <<>>, labels |-> <<>>]

SoundFiles == {Mod(x, A, <<>>, <<in>>), Mod(x, A, <<Bee>>, <<>>),
               Mod(y, Bee, <<>>, <<>>), Mod(y, AB, <<>>, <<in>>)}
UnsoundFiles == {[Mod(x, A, <<>>, <<>>) EXCEPT !.version = 1],
                 Mod(<<>>, Bee, <<>>, <<>>), Mod(y, Bad, <<>>, <<>>),
                 Mod(y, <<>>, <<>>, <<>>),
                 Mod(y, Bee, <<A, A>>, <<>>), Mod(y, Bee, <<Bee>>, <<>>),
                 Mod(y, Bee, <<>>, <<out>>)}
MCModuleFiles == SoundFiles \cup UnsoundFiles

Sel(path, role) == [manifest |-> path, role |-> role]
Root(selections) == [version |-> 2, name |-> bundle, modules |-> selections]

MCRoots == {Root(<<>>), Root(<<Sel(p1, "ordinary")>>),
            Root(<<Sel(p1, "ordinary"), Sel(p2, "global")>>),
            Root(<<Sel(p2, "global"), Sel(p1, "ordinary")>>),
            Root(<<Sel(p1, "ordinary"), Sel(p1, "global")>>),
            Root(<<Sel(p1, "ordinary"), Sel(abs, "ordinary"), Sel(p2, "ordinary")>>),
            [Root(<<Sel(p1, "ordinary")>>) EXCEPT !.version = 3],
            [Root(<<Sel(p1, "ordinary")>>) EXCEPT !.name = <<32>>]}

(* Three modules: "AB" begins with "A" as "A::B" does, but only the latter *)
(* is inside it; imports cross the set.                                    *)
SetFiles == {Mod(x, A, <<AB>>, <<>>), Mod(y, Bee, <<>>, <<>>), Mod(y, AB, <<>>, <<>>),
             Mod(z, AB, <<Bee>>, <<>>), Mod(z, Bee, <<>>, <<in>>)}
SetRoots == {Root(<<Sel(p1, "ordinary"), Sel(p2, "ordinary")>>),
             Root(<<Sel(p2, "ordinary"), Sel(p3, "ordinary"), Sel(p1, "ordinary")>>)}

PairContents == MCModuleFiles \cup {Absent, Garbled}
Pairs == [root : MCRoots \cup {Absent, Garbled},
          files : {[path \in MCPaths |-> IF path = p1 THEN one ELSE IF path = p2 THEN two ELSE Absent] :
                      one \in PairContents, two \in PairContents}]
MCDisks == Pairs \cup [root : SetRoots, files : [MCPaths -> SetFiles]]
MCSaves == [path \in MCPaths |-> IF path = p3 THEN {} ELSE PairContents]

(* The instance with a digit: the three modules sort as A, A0, A::B.       *)
DigitFiles == {Mod(x, A, <<>>, <<>>), Mod(y, A0, <<>>, <<>>), Mod(z, AB, <<>>, <<>>)}
DigitDisks == [root : SetRoots, files : [MCPaths -> DigitFiles]]
NoSaves == [path \in MCPaths |-> {}]
=============================================================================
