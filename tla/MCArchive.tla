------------------------------ MODULE MCArchive ------------------------------
(***************************************************************************)
(* Bounded instance of Archive: two keys, two contents (with and without a *)
(* schema), and edited manifests that keep the digests but not the layout, *)
(* the head, the bundle id or the artifact list.                           *)
(***************************************************************************)
EXTENDS Archive

CONSTANTS s1, k1, k2, h1, h2, pol1, pol2, sch, lab

C1 == [policies |-> pol1, schema |-> NoSchema, labels |-> lab]
C2 == [policies |-> pol2, schema |-> sch, labels |-> lab]
C3 == [policies |-> pol2, schema |-> NoSchema, labels |-> lab]
MCContents == {C1, C2}
MCDigest(blob) == blob
MCBundleId(head, artifacts) == <<head, artifacts>>
(* h1 lists the policies of pol1, h2 those of pol2.                        *)
MCDeployable(head, content) ==
    /\ content.labels = lab
    /\ content.schema \in {NoSchema, sch}
    /\ content.policies = (IF head = h1 THEN pol1 ELSE pol2)

Written(head, content) == ManifestFor(head, content)
MCEditedManifests ==
    {[Written(h1, C1) EXCEPT !.form = "indented"],   \* the same JSON, other bytes
     Written(h2, C1),                                \* another head over C1's digests
     Written(h2, C3),                                \* C2 without its schema
     [Written(h1, C1) EXCEPT !.head = h2],           \* a bundle id left from before
     Written(h1, C1)}
MCEditedBlobs == {pol1, pol2}

(* Each entry costs one, pol2 one more; the labels never compress.         *)
MCUncompressed(archive) ==
    Len(archive.entries)
        + Cardinality({i \in 1..Len(archive.entries) : archive.entries[i].bytes = pol2})
MCCompressed(archive) == IF archive.trailing THEN 2 ELSE 1
=============================================================================
