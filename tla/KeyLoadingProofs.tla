--------------------------- MODULE KeyLoadingProofs ---------------------------
(***************************************************************************)
(* Proofs about KeyLoading, for any number of inodes, any contents and any *)
(* number of edits by the owner of the key file.                           *)
(***************************************************************************)
EXTENDS KeyLoading, SequenceTheorems, TLAPS

(***************************************************************************)
(* Trim takes off one line ending: it yields the one sequence that         *)
(* IsPasswordOf accepts.                                                   *)
(***************************************************************************)
LEMMA ShorterProperties ==
    ASSUME NEW bytes \in Seq(Nat), bytes # <<>>
    PROVE  /\ Shorter(bytes) \in Seq(Nat)
           /\ Len(Shorter(bytes)) = Len(bytes) - 1
           /\ \A i \in 1..(Len(bytes) - 1) : Shorter(bytes)[i] = bytes[i]
<1> DEFINE n == Len(bytes) - 1
<1>1. n \in Nat /\ \A i \in 1..n : bytes[i] \in Nat
  BY EmptySeq
<1>2. /\ SubSeq(bytes, 1, n) \in Seq(Nat)
      /\ Len(SubSeq(bytes, 1, n)) = IF 1 <= n THEN n - 1 + 1 ELSE 0
      /\ \A i \in 1..(n - 1 + 1) : SubSeq(bytes, 1, n)[i] = bytes[1 + i - 1]
  BY <1>1, SubSeqProperties
<1>3. Shorter(bytes) = SubSeq(bytes, 1, n)
  BY DEF Shorter
<1> HIDE DEF n
<1>4. n - 1 + 1 = n /\ \A i \in 1..n : 1 + i - 1 = i
  BY <1>1
<1>5. Len(Shorter(bytes)) = n /\ \A i \in 1..n : Shorter(bytes)[i] = bytes[i]
  BY <1>1, <1>2, <1>3, <1>4
<1> QED
  BY <1>2, <1>3, <1>5 DEF n

LEMMA ShorterOfAppended ==
    ASSUME NEW secret \in Seq(Nat), NEW byte \in Nat
    PROVE  /\ secret \o <<byte>> \in Seq(Nat)
           /\ EndsWith(secret \o <<byte>>, byte)
           /\ \A other : EndsWith(secret \o <<byte>>, other) => other = byte
           /\ Shorter(secret \o <<byte>>) = secret
<1> DEFINE bytes == secret \o <<byte>>
<1>1. bytes \in Seq(Nat) /\ Len(bytes) = Len(secret) + 1 /\ bytes[Len(secret) + 1] = byte
      /\ \A i \in 1..Len(secret) : bytes[i] = secret[i]
  BY ConcatProperties
<1> HIDE DEF bytes
<1>2. bytes # <<>>
  BY <1>1
<1>3. Shorter(bytes) = secret
  <2>1. Len(bytes) - 1 = Len(secret)
    BY <1>1
  <2>2. Shorter(bytes) \in Seq(Nat) /\ Len(Shorter(bytes)) = Len(secret)
        /\ \A i \in 1..Len(secret) : Shorter(bytes)[i] = bytes[i]
    BY <1>1, <1>2, <2>1, ShorterProperties
  <2> QED
    BY <1>1, <2>2, SeqEqual
<1>4. EndsWith(bytes, byte) /\ \A other : EndsWith(bytes, other) => other = byte
  BY <1>1, <1>2 DEF EndsWith
<1> QED
  BY <1>1, <1>3, <1>4 DEF bytes

LEMMA AppendedToShorter ==
    ASSUME NEW bytes \in Seq(Nat), NEW byte \in Nat, EndsWith(bytes, byte)
    PROVE  bytes = Shorter(bytes) \o <<byte>>
<1> DEFINE again == Shorter(bytes) \o <<byte>>
<1>1. bytes # <<>> /\ bytes[Len(bytes)] = byte
  BY DEF EndsWith
<1>2. again \in Seq(Nat) /\ Len(again) = Len(bytes)
      /\ \A i \in 1..Len(bytes) : again[i] = bytes[i]
  BY <1>1, ShorterProperties, ConcatProperties
<1> QED
  BY <1>2, SeqEqual

LEMMA Joined ==
    ASSUME NEW s \in Seq(Nat), NEW t \in Seq(Nat)
    PROVE  /\ s \o t \in Seq(Nat) /\ Len(s \o t) = Len(s) + Len(t)
           /\ \A j \in 1..Len(s) : (s \o t)[j] = s[j]
           /\ \A j \in 1..Len(t) : (s \o t)[Len(s) + j] = t[j]
  OBVIOUS

LEMMA TwoAppended ==
    ASSUME NEW secret \in Seq(Nat)
    PROVE  secret \o <<CR, LF>> = (secret \o <<CR>>) \o <<LF>>
<1> DEFINE cr == <<CR>>
           lf == <<LF>>
           both == <<CR, LF>>
           left == secret \o both
           first == secret \o cr
           right == first \o lf
           n == Len(secret)
<1>1. /\ cr \in Seq(Nat) /\ lf \in Seq(Nat) /\ both \in Seq(Nat)
      /\ Len(cr) = 1 /\ Len(lf) = 1 /\ Len(both) = 2
      /\ cr[1] = CR /\ lf[1] = LF /\ both[1] = CR /\ both[2] = LF
  BY DEF CR, LF
<1>2. n \in Nat /\ 1 \in 1..1 /\ 1 \in 1..2 /\ 2 \in 1..2
  OBVIOUS
<1> HIDE DEF cr, lf, both
<1>3. /\ left \in Seq(Nat) /\ Len(left) = n + Len(both)
      /\ \A i \in 1..n : left[i] = secret[i]
      /\ \A i \in 1..Len(both) : left[n + i] = both[i]
  BY <1>1, Joined
<1>4. /\ first \in Seq(Nat) /\ Len(first) = n + Len(cr)
      /\ \A i \in 1..n : first[i] = secret[i]
      /\ \A i \in 1..Len(cr) : first[n + i] = cr[i]
  BY <1>1, Joined
<1> HIDE DEF left, first
<1>5. /\ right \in Seq(Nat) /\ Len(right) = Len(first) + Len(lf)
      /\ \A i \in 1..Len(first) : right[i] = first[i]
      /\ \A i \in 1..Len(lf) : right[Len(first) + i] = lf[i]
  BY <1>1, <1>4, Joined
<1> HIDE DEF right, n
<1>6. /\ Len(left) = n + 2 /\ left[n + 1] = CR /\ left[n + 2] = LF
      /\ Len(right) = n + 2 /\ right[n + 1] = CR /\ right[n + 2] = LF
      /\ \A i \in 1..n : left[i] = right[i]
  BY <1>1, <1>2, <1>3, <1>4, <1>5
<1>7. \A i \in 1..Len(left) : left[i] = right[i]
  BY <1>2, <1>6
<1>8. left = right
  BY <1>3, <1>5, <1>6, <1>7, SeqEqual
<1> QED
  BY <1>8 DEF left, right, first, cr, lf, both

LEMMA TrimExact ==
    ASSUME NEW bytes \in Seq(Nat), NEW secret \in Seq(Nat)
    PROVE  IsPasswordOf(secret, bytes) <=> secret = Trim(bytes)
<1>0. LF \in Nat /\ CR \in Nat /\ LF # CR
  BY DEF LF, CR
<1>1. ASSUME ~EndsWith(bytes, LF) PROVE IsPasswordOf(secret, bytes) <=> secret = Trim(bytes)
  <2>1. bytes # secret \o <<LF>>
    BY <1>0, <1>1, ShorterOfAppended
  <2>2. bytes # secret \o <<CR, LF>>
    <3>1. EndsWith((secret \o <<CR>>) \o <<LF>>, LF)
      BY <1>0, ShorterOfAppended
    <3> QED
      BY <1>1, <3>1, TwoAppended
  <2> QED
    BY <1>1, <2>1, <2>2 DEF IsPasswordOf, Trim
<1>2. ASSUME EndsWith(bytes, LF) PROVE IsPasswordOf(secret, bytes) <=> secret = Trim(bytes)
  <2>1. bytes = Shorter(bytes) \o <<LF>> /\ Shorter(bytes) \in Seq(Nat)
    BY <1>0, <1>2, AppendedToShorter, ShorterProperties DEF EndsWith
  <2>2. bytes = secret => EndsWith(secret, LF)
    BY <1>2
  <2>3. bytes = secret \o <<LF>> <=> secret = Shorter(bytes)
    BY <1>0, <2>1, ShorterOfAppended
  <2>4. secret \o <<CR, LF>> = (secret \o <<CR>>) \o <<LF>> /\ secret \o <<CR>> \in Seq(Nat)
    BY <1>0, TwoAppended, ShorterOfAppended
  <2>5. bytes = secret \o <<CR, LF>> <=> Shorter(bytes) = secret \o <<CR>>
    BY <1>0, <2>1, <2>4, ShorterOfAppended
  <2>6. Shorter(bytes) = secret \o <<CR>> <=>
            EndsWith(Shorter(bytes), CR) /\ secret = Shorter(Shorter(bytes))
    <3>1. ASSUME Shorter(bytes) = secret \o <<CR>>
          PROVE  EndsWith(Shorter(bytes), CR) /\ secret = Shorter(Shorter(bytes))
      <4>1. EndsWith(secret \o <<CR>>, CR) /\ Shorter(secret \o <<CR>>) = secret
        BY <1>0, ShorterOfAppended
      <4> QED
        BY <3>1, <4>1
    <3>2. EndsWith(Shorter(bytes), CR) => Shorter(bytes) = Shorter(Shorter(bytes)) \o <<CR>>
      BY <1>0, <2>1, AppendedToShorter
    <3> QED
      BY <3>1, <3>2
  <2>7. IsPasswordOf(secret, bytes) <=>
          \/ EndsWith(Shorter(bytes), CR) /\ secret = Shorter(Shorter(bytes))
          \/ secret = Shorter(bytes) /\ ~EndsWith(secret, CR)
    BY <1>2, <2>2, <2>3, <2>5, <2>6 DEF IsPasswordOf
  <2>8. Trim(bytes) = IF EndsWith(Shorter(bytes), CR) THEN Shorter(Shorter(bytes)) ELSE Shorter(bytes)
    BY <1>2 DEF Trim
  <2> QED
    BY <2>7, <2>8
<1> QED
  BY <1>1, <1>2

LEMMA TrimType ==
    ASSUME NEW bytes \in Seq(Nat)
    PROVE  Trim(bytes) \in Seq(Nat)
<1>1. ASSUME EndsWith(bytes, LF), EndsWith(Shorter(bytes), CR) PROVE Trim(bytes) \in Seq(Nat)
  BY <1>1, ShorterProperties DEF Trim, EndsWith
<1>2. ASSUME EndsWith(bytes, LF), ~EndsWith(Shorter(bytes), CR) PROVE Trim(bytes) \in Seq(Nat)
  BY <1>2, ShorterProperties DEF Trim, EndsWith
<1> QED
  BY <1>1, <1>2 DEF Trim

(***************************************************************************)
(* The invariant.                                                          *)
(***************************************************************************)
Types ==
    /\ path \in Inodes \cup {NoInode}
    /\ inodes \in [Inodes -> Files]
    /\ option \in Options /\ variable \in Environments
    /\ pc \in {"password", "open", "opening", "metadata", "read", "prompt", "done"}
    /\ prompted \in BOOLEAN /\ wasPrivate \in BOOLEAN /\ edits \in Nat
    /\ handle \in Inodes \cup {NoInode}
    /\ document \in Documents \cup {NoDocument}
    /\ outcome \in {"none", "loaded", "io", "key"}
    /\ pc = "done" <=> outcome # "none"

NothingConfigured == option = NoOption /\ variable = NoVariable

(* Where the password comes from. *)
Settled ==
    /\ password # NoPassword => Unlocks(password)
    /\ password # NoPassword /\ ~prompted => Configurable /\ ~NothingConfigured
    /\ password = NoPassword /\ pc \notin {"password", "done"} => NothingConfigured
    /\ prompted => NothingConfigured /\ password # NoPassword
    /\ pc = "password" => ~prompted /\ password = NoPassword
    /\ pc = "prompt" => ~prompted /\ NothingConfigured

(* What is known of the open file. *)
Judged ==
    /\ pc = "opening" => handle \in Inodes
    /\ pc = "metadata" => handle \in Inodes /\ (inodes[handle].private => wasPrivate)
    /\ pc = "read" \/ Loaded => handle \in Inodes /\ wasPrivate /\ inodes[handle].kind = "regular"

Opened ==
    Loaded =>
        \/ document.label = "plain" /\ ~prompted
        \/ document.label = "encrypted" /\ document.password = password /\ password # NoPassword

Inv == Types /\ Settled /\ Judged /\ Opened

LEMMA InvInit == Init => Inv
<1> SUFFICES ASSUME Init PROVE Inv
  OBVIOUS
<1>1. Types
  BY DisksAssumption DEF Init, Types
<1> QED
  BY <1>1 DEF Init, Inv, Settled, Judged, Opened, Loaded

LEMMA ConfigureKeeps == Inv /\ Configure => Inv'
<1> SUFFICES ASSUME Inv, Configure PROVE Inv'
  OBVIOUS
<1>1. UNCHANGED <<path, inodes, edits, option, variable, prompted, handle, document, wasPrivate>>
      /\ pc = "password" /\ password = NoPassword /\ ~prompted /\ outcome = "none" /\ option # Piped
  BY DEF Configure, storage, given, Inv, Settled, Types
<1>2. pc' = "done" => UNCHANGED password /\ outcome' \in {"io", "key"}
  BY <1>1 DEF Configure, FromOption, FromVariable, End, Continue
<1>3. pc' # "done" =>
        /\ pc' = "open" /\ outcome' = "none"
        /\ \/ option \notin NoBytes /\ password' = Trim(option) /\ Configurable
           \/ option = NoOption /\ variable \notin {NoVariable, NotUnicode} /\ password' = variable
           \/ NothingConfigured /\ password' = NoPassword
  BY <1>1 DEF Configure, FromOption, FromVariable, End, Continue, Configurable, NothingConfigured, NoBytes
<1>4. pc' = "open" \/ pc' = "done"
  BY <1>2, <1>3
<1>5. Types'
  BY <1>1, <1>2, <1>3 DEF Inv, Types
<1>6. ASSUME option \notin NoBytes, password' = Trim(option) PROVE Unlocks(password)'
  <2>1. option \in Seq(Nat) /\ Trim(option) \in Seq(Nat)
    BY <1>6, BytesAssumption, TrimType DEF Inv, Types
  <2>2. PICK secret : secret = Trim(option)
    OBVIOUS
  <2>3. IsPasswordOf(secret, option)
    BY <2>1, <2>2, TrimExact
  <2> QED
    BY <1>1, <1>6, <2>2, <2>3 DEF Unlocks
<1>7. Settled'
  <2>1. password' # NoPassword => Unlocks(password)'
    <3>1. ASSUME option = NoOption, variable \notin {NoVariable, NotUnicode}, password' = variable
          PROVE  Unlocks(password)'
      BY <1>1, <3>1 DEF Unlocks, NoBytes
    <3> QED
      BY <1>1, <1>2, <1>3, <1>6, <3>1
  <2>2. Configurable' = Configurable /\ NothingConfigured' = NothingConfigured
    BY <1>1 DEF Configurable, NothingConfigured
  <2>3. password' # NoPassword => Configurable /\ ~NothingConfigured
    BY <1>1, <1>2, <1>3 DEF Configurable, NothingConfigured, NoBytes
  <2>4. pc' = "open" /\ password' = NoPassword => NothingConfigured
    BY <1>3, SecretsAssumption, TrimAssumption DEF Inv, Types
  <2> HIDE DEF Configurable, NothingConfigured
  <2> QED
    BY <1>1, <1>4, <2>1, <2>2, <2>3, <2>4 DEF Settled
<1>8. Judged' /\ Opened'
  BY <1>1, <1>2, <1>3 DEF Judged, Opened, Loaded
<1> QED
  BY <1>5, <1>7, <1>8 DEF Inv

LEMMA OpenKeeps == Inv /\ Open => Inv'
<1> SUFFICES ASSUME Inv, Open PROVE Inv'
  OBVIOUS
<1>1. /\ UNCHANGED <<path, inodes, edits, option, variable, password, prompted, document>>
      /\ pc = "open" /\ outcome = "none"
      /\ \/ pc' = "done" /\ outcome' = "io" /\ UNCHANGED <<handle, wasPrivate>>
         \/ /\ pc' \in {"metadata", "opening"} /\ outcome' = "none"
            /\ path \in Inodes /\ handle' = path /\ wasPrivate' = inodes[path].private
  BY DEF Open, End, Continue, storage, given, Inv, Types
<1>2. path \in Inodes => inodes[path].private \in BOOLEAN
  BY DEF Inv, Types, Files
<1>3. Types'
  BY <1>1, <1>2 DEF Inv, Types
<1>4. Settled'
  BY <1>1 DEF Settled, Inv, Unlocks, Configurable, NothingConfigured
<1>5. Judged' /\ Opened'
  BY <1>1 DEF Judged, Opened, Loaded
<1> QED
  BY <1>3, <1>4, <1>5 DEF Inv

LEMMA WriterKeeps == Inv /\ WriterComes => Inv'
<1> SUFFICES ASSUME Inv, WriterComes PROVE Inv'
  OBVIOUS
<1>1. /\ UNCHANGED <<path, inodes, edits, option, variable, password, prompted, handle, document>>
      /\ pc = "opening" /\ outcome = "none" /\ pc' = "metadata" /\ outcome' = "none"
      /\ handle \in Inodes /\ wasPrivate' = inodes[handle].private
  BY DEF WriterComes, Continue, storage, given, Inv, Types, Judged
<1>2. inodes[handle].private \in BOOLEAN
  BY <1>1 DEF Inv, Types, Files
<1>3. Types'
  BY <1>1, <1>2 DEF Inv, Types
<1>4. Settled'
  BY <1>1 DEF Settled, Inv, Unlocks, Configurable, NothingConfigured
<1>5. Judged' /\ Opened'
  BY <1>1 DEF Judged, Opened, Loaded
<1> QED
  BY <1>3, <1>4, <1>5 DEF Inv

LEMMA SupplyKeeps ==
    ASSUME Inv, NEW bytes \in Options, Supply(bytes) PROVE Inv'
<1>1. /\ UNCHANGED <<path, inodes, edits, variable, pc, password, prompted, handle, document,
                     outcome, wasPrivate>>
      /\ pc = "password" /\ password = NoPassword /\ ~prompted /\ option' = bytes
  BY DEF Supply, storage, Inv, Settled
<1>2. Types' /\ Judged' /\ Opened'
  BY <1>1 DEF Inv, Types, Judged, Opened, Loaded
<1>3. Settled'
  BY <1>1 DEF Settled
<1> QED
  BY <1>2, <1>3 DEF Inv

LEMMA MetadataKeeps == Inv /\ Metadata => Inv'
<1> SUFFICES ASSUME Inv, Metadata PROVE Inv'
  OBVIOUS
<1>1. /\ UNCHANGED <<path, inodes, edits, option, variable, password, prompted, handle, document, wasPrivate>>
      /\ pc = "metadata" /\ outcome = "none"
      /\ \/ pc' = "done" /\ outcome' = "key"
         \/ /\ pc' = "read" /\ outcome' = "none"
            /\ inodes[handle].kind = "regular" /\ inodes[handle].private
  BY DEF Metadata, Inspected, End, Continue, storage, given, Inv, Types
<1>2. Types'
  BY <1>1 DEF Inv, Types
<1>3. Settled'
  BY <1>1 DEF Settled, Inv, Unlocks, Configurable, NothingConfigured
<1>4. Judged' /\ Opened'
  BY <1>1 DEF Judged, Opened, Loaded, Inv
<1> QED
  BY <1>2, <1>3, <1>4 DEF Inv

(* What a read ends in, by the document that was read. *)
LEMMA ReadEnds ==
    ASSUME Inv, Read
    PROVE  /\ UNCHANGED <<path, inodes, edits, option, variable, password, prompted, handle, wasPrivate>>
           /\ pc = "read" /\ outcome = "none"
           /\ document' = inodes[handle].document
           /\ \/ pc' = "done" /\ outcome' \in {"io", "key"}
              \/ /\ pc' = "done" /\ outcome' = "loaded" /\ document'.label = "plain" /\ ~prompted
              \/ /\ pc' = "done" /\ outcome' = "loaded" /\ document'.label = "encrypted"
                 /\ document'.password = password /\ password # NoPassword
              \/ /\ pc' = "prompt" /\ outcome' = "none" /\ ~prompted /\ password = NoPassword
                 /\ document'.label = "encrypted"
<1>1. PICK d : d = inodes[handle].document
  OBVIOUS
<1>2. /\ UNCHANGED <<path, inodes, edits, option, variable, password, prompted, handle, wasPrivate>>
      /\ pc = "read" /\ outcome = "none" /\ document' = d /\ (prompted => password # NoPassword)
      /\ \/ End("io") \/ End("key") \/ Parse(d)
  BY <1>1 DEF Read, storage, given, Inv, Types, Settled
<1>3. Parse(d) =>
        \/ End("key")
        \/ d.label = "plain" /\ ~prompted /\ End("loaded")
        \/ d.label = "encrypted" /\ d.password = password /\ password # NoPassword /\ End("loaded")
        \/ d.label = "encrypted" /\ ~prompted /\ password = NoPassword /\ Continue("prompt")
  BY <1>2 DEF Parse, Decoder, Decoded, RefusePassword
<1> QED
  BY <1>1, <1>2, <1>3 DEF End, Continue

LEMMA ReadKeeps == Inv /\ Read => Inv'
<1> SUFFICES ASSUME Inv, Read PROVE Inv'
  OBVIOUS
<1>1. handle \in Inodes /\ inodes[handle].document \in Documents
  BY ReadEnds DEF Inv, Judged, Types, Files
<1>2. Types'
  BY <1>1, ReadEnds DEF Inv, Types
<1>3. Settled'
  BY ReadEnds DEF Settled, Inv, Unlocks, Configurable, NothingConfigured
<1>4. Judged' /\ Opened'
  BY ReadEnds DEF Judged, Opened, Loaded, Inv
<1> QED
  BY <1>2, <1>3, <1>4 DEF Inv

LEMMA PromptKeeps ==
    ASSUME Inv, NoAnswer \/ \E typed \in Typed : Answer(typed)
    PROVE  Inv'
<1>1. CASE NoAnswer
  BY <1>1 DEF NoAnswer, End, storage, given, Inv, Types, Settled, Judged, Opened, Loaded, Unlocks,
              Configurable, NothingConfigured
<1>2. ASSUME NEW typed \in Typed, Answer(typed) PROVE Inv'
  <2>1. /\ UNCHANGED <<path, inodes, edits, option, variable, handle, document, wasPrivate, outcome>>
        /\ pc = "prompt" /\ pc' = "open" /\ password' = typed /\ prompted' = TRUE
        /\ NothingConfigured /\ typed # NoPassword
    BY <1>2, SecretsAssumption DEF Answer, Continue, storage, given, Inv, Settled
  <2>2. Types'
    BY <2>1 DEF Inv, Types
  <2>3. Settled'
    BY <2>1 DEF Settled, Unlocks, NothingConfigured, NoBytes
  <2>4. Judged' /\ Opened'
    BY <2>1 DEF Judged, Opened, Loaded, Inv, Types
  <2> QED
    BY <2>2, <2>3, <2>4 DEF Inv
<1> QED
  BY <1>1, <1>2

(* The owner changes no kind of an inode, and makes none private unnoticed.*)
LEMMA EditKeeps ==
    ASSUME Inv, Edit,
           path' \in Inodes \cup {NoInode}, inodes' \in [Inodes -> Files], wasPrivate' \in BOOLEAN,
           wasPrivate => wasPrivate',
           \A inode \in Inodes :
               /\ inodes'[inode].kind = inodes[inode].kind
               /\ inode = handle /\ inodes'[inode].private => inodes[inode].private \/ wasPrivate'
    PROVE  Inv'
<1>1. UNCHANGED <<option, variable, pc, password, prompted, handle, document, outcome>>
      /\ edits' \in Nat /\ pc # "done" /\ outcome = "none"
  BY DEF Edit, given, Inv, Types
<1>2. Types'
  BY <1>1 DEF Inv, Types
<1>3. Settled'
  BY <1>1 DEF Settled, Inv, Unlocks, Configurable, NothingConfigured
<1>4. Judged' /\ Opened'
  BY <1>1 DEF Judged, Opened, Loaded, Inv
<1> QED
  BY <1>2, <1>3, <1>4 DEF Inv

LEMMA OwnerKeeps ==
    ASSUME Inv,
           \/ \E inode \in Inodes \cup {NoInode} : Move(inode)
           \/ \E inode \in Inodes : ChangeMode(inode) \/ \E d \in Documents : Rewrite(inode, d)
    PROVE  Inv'
<1> USE DEF Inv, Types
<1>1. ASSUME NEW inode \in Inodes \cup {NoInode}, Move(inode) PROVE Inv'
  BY <1>1, EditKeeps DEF Move
<1>2. ASSUME NEW inode \in Inodes, ChangeMode(inode) PROVE Inv'
  <2>1. /\ inodes' \in [Inodes -> Files]
        /\ \A i \in Inodes : inodes'[i].kind = inodes[i].kind
        /\ \A i \in Inodes : i # inode => inodes'[i] = inodes[i]
    BY <1>2 DEF ChangeMode, Files
  <2> QED
    BY <1>2, <2>1, EditKeeps DEF ChangeMode
<1>3. ASSUME NEW inode \in Inodes, NEW d \in Documents, Rewrite(inode, d) PROVE Inv'
  <2>1. /\ inodes' \in [Inodes -> Files]
        /\ \A i \in Inodes : inodes'[i].kind = inodes[i].kind /\ inodes'[i].private = inodes[i].private
    BY <1>3 DEF Rewrite, Files
  <2> QED
    BY <1>3, <2>1, EditKeeps DEF Rewrite
<1> QED
  BY <1>1, <1>2, <1>3

LEMMA InvStep == Inv /\ [Next]_vars => Inv'
<1> SUFFICES ASSUME Inv, [Next]_vars PROVE Inv'
  OBVIOUS
<1>1. CASE Load
  BY <1>1, ConfigureKeeps, OpenKeeps, MetadataKeeps, ReadKeeps DEF Load
<1>2. CASE NoAnswer \/ \E typed \in Typed : Answer(typed)
  BY <1>2, PromptKeeps
<1>3. CASE \/ \E inode \in Inodes \cup {NoInode} : Move(inode)
           \/ \E inode \in Inodes : ChangeMode(inode) \/ \E d \in Documents : Rewrite(inode, d)
  BY <1>3, OwnerKeeps
<1>4. CASE WriterComes \/ \E bytes \in Options \ {NoOption, Piped} : Supply(bytes)
  BY <1>4, WriterKeeps, SupplyKeeps
<1>5. CASE UNCHANGED vars
  BY <1>5 DEF vars, Inv, Types, Settled, Judged, Opened, Loaded, Unlocks, Configurable, NothingConfigured
<1> QED
  BY <1>1, <1>2, <1>3, <1>4, <1>5 DEF Next

(* The invariant holds through every load and every edit.                  *)
THEOREM Invariance == Spec => []Inv
  BY InvInit, InvStep, PTL DEF Spec

(* Type correctness; an answered prompt is never followed by another.      *)
THEOREM TypeCorrect == Spec => []TypeOK
<1>1. Inv => TypeOK
  BY DEF Inv, Types, TypeOK
<1> QED
  BY <1>1, Invariance, PTL

(* No key is loaded from a file that was open to others all the while.     *)
THEOREM KeyWasPrivateHolds == Spec => []KeyWasPrivate
<1>1. Inv => KeyWasPrivate
  BY DEF Inv, Judged, KeyWasPrivate
<1> QED
  BY <1>1, Invariance, PTL

(* After a prompt only a key under the typed password is loaded.           *)
THEOREM NoDowngradeHolds == Spec => []NoDowngrade
<1>1. Inv => NoDowngrade
  BY DEF Inv, Opened, NoDowngrade
<1> QED
  BY <1>1, Invariance, PTL

(* An encrypted key is opened by the first source of passwords only, and   *)
(* by its bytes without one line ending, for passwords of any length.      *)
THEOREM FirstSourceHolds == Spec => []FirstSource
<1>1. Inv => FirstSource
  BY DEF Inv, Opened, Settled, FirstSource
<1> QED
  BY <1>1, Invariance, PTL

(***************************************************************************)
(* The load of a file that nobody touches.                                 *)
(***************************************************************************)
Sole == password # NoPassword => \A secret \in Seq(Nat) : Unlocks(secret) <=> secret = password

Expected == Configurable /\ path # NoInode /\ Loadable(inodes[path])

Undisturbed ==
    edits = 0 =>
        /\ pc \notin {"password", "done"} => Configurable
        /\ pc \in {"opening", "metadata", "read"} => path = handle
        /\ pc = "read" =>
             inodes[path].kind = "regular" /\ inodes[path].private
             /\ inodes[path].document.size <= MaxKeyBytes
        /\ pc = "prompt" \/ prompted => path \in Inodes /\ inodes[path].document.label = "encrypted"
        /\ pc = "done" => (Loaded <=> Expected)

ExactInv == Inv /\ Sole /\ Undisturbed

LEMMA ConfigureExactly == ExactInv /\ Configure => ExactInv'
<1> SUFFICES ASSUME ExactInv, Configure PROVE ExactInv'
  OBVIOUS
<1>1. Inv /\ Inv'
  BY ConfigureKeeps DEF ExactInv
<1>2. UNCHANGED <<path, inodes, edits, option, variable, prompted>>
      /\ pc = "password" /\ password = NoPassword /\ ~prompted /\ option # Piped
  BY <1>1 DEF Configure, storage, given, Inv, Settled
<1>3. \/ pc' = "done" /\ outcome' # "loaded" /\ password' = NoPassword /\ ~Configurable
      \/ /\ pc' = "open" /\ Configurable
         /\ \/ option \notin NoBytes /\ password' = Trim(option)
            \/ option = NoOption /\ variable \notin {NoVariable, NotUnicode} /\ password' = variable
            \/ password' = NoPassword
  <2>1. (option \notin NoBytes => Len(option) \in Nat)
    BY <1>1, LimitsAssumption, BytesAssumption DEF Inv, Types
  <2> QED
    BY <1>2, <2>1, LimitsAssumption
       DEF Configure, FromOption, FromVariable, End, Continue, Configurable, NoBytes
<1>4. Configurable' = Configurable /\ Expected' = Expected
  BY <1>2 DEF Configurable, Expected, Loadable, Unlocks
<1>5. Sole'
  <2> SUFFICES ASSUME password' # NoPassword, NEW secret \in Seq(Nat)
               PROVE  Unlocks(secret)' <=> secret = password'
    BY DEF Sole
  <2>1. CASE option \notin NoBytes /\ password' = Trim(option)
    <3>1. option \in Seq(Nat)
      BY <1>1, <2>1, BytesAssumption DEF Inv, Types
    <3>2. IsPasswordOf(secret, option) <=> secret = Trim(option)
      BY <3>1, TrimExact
    <3> QED
      BY <1>2, <2>1, <3>2 DEF Unlocks
  <2>2. CASE option = NoOption /\ variable \notin {NoVariable, NotUnicode} /\ password' = variable
    BY <1>2, <2>2 DEF Unlocks, NoBytes
  <2> QED
    BY <1>3, <2>1, <2>2
<1>6. Undisturbed'
  BY <1>2, <1>3, <1>4 DEF Undisturbed, Loaded, Expected
<1> QED
  BY <1>1, <1>5, <1>6 DEF ExactInv

LEMMA UnchangedSole ==
    ASSUME Sole, UNCHANGED <<option, variable, password, prompted>>
    PROVE  Sole'
<1>1. ASSUME NEW secret PROVE Unlocks(secret)' = Unlocks(secret)
  BY DEF Unlocks
<1> QED
  BY <1>1 DEF Sole

LEMMA UnchangedExpected ==
    ASSUME UNCHANGED <<path, inodes, option, variable, password, prompted>>
    PROVE  Expected' = Expected /\ Configurable' = Configurable
BY DEF Expected, Configurable, Loadable, Unlocks

LEMMA OpenExactly == ExactInv /\ Open => ExactInv'
<1> SUFFICES ASSUME ExactInv, Open PROVE ExactInv'
  OBVIOUS
<1>1. Inv /\ Inv'
  BY OpenKeeps DEF ExactInv
<1>2. /\ UNCHANGED <<path, inodes, edits, option, variable, password, prompted>>
      /\ pc = "open"
      /\ \/ pc' = "done" /\ outcome' = "io" /\ path = NoInode
         \/ pc' \in {"metadata", "opening"} /\ handle' = path /\ path \in Inodes
  BY <1>1 DEF Open, End, Continue, storage, given, Inv, Types
<1>3. Sole' /\ Expected' = Expected /\ Configurable' = Configurable
  BY <1>2, UnchangedSole, UnchangedExpected DEF ExactInv
<1>4. Undisturbed'
  BY <1>2, <1>3 DEF ExactInv, Undisturbed, Loaded, Expected
<1> QED
  BY <1>1, <1>3, <1>4 DEF ExactInv

LEMMA WriterExactly == ExactInv /\ WriterComes => ExactInv'
<1> SUFFICES ASSUME ExactInv, WriterComes PROVE ExactInv'
  OBVIOUS
<1>1. Inv'
  BY WriterKeeps DEF ExactInv
<1>2. /\ UNCHANGED <<path, inodes, edits, option, variable, password, prompted, handle>>
      /\ pc = "opening" /\ pc' = "metadata"
  BY DEF WriterComes, Continue, storage, given
<1>3. Sole' /\ Expected' = Expected /\ Configurable' = Configurable
  BY <1>2, UnchangedSole, UnchangedExpected DEF ExactInv
<1>4. Undisturbed'
  BY <1>2, <1>3 DEF ExactInv, Undisturbed, Loaded
<1> QED
  BY <1>1, <1>3, <1>4 DEF ExactInv

LEMMA SupplyExactly ==
    ASSUME ExactInv, NEW bytes \in Options, Supply(bytes) PROVE ExactInv'
<1>1. Inv'
  BY SupplyKeeps DEF ExactInv
<1>2. UNCHANGED <<path, inodes, edits, pc, prompted>> /\ pc = "password" /\ ~prompted
      /\ password' = NoPassword
  BY DEF Supply, storage, ExactInv, Inv, Settled
<1>3. Sole' /\ Undisturbed'
  BY <1>2 DEF Sole, Undisturbed
<1> QED
  BY <1>1, <1>3 DEF ExactInv

LEMMA MetadataExactly == ExactInv /\ Metadata => ExactInv'
<1> SUFFICES ASSUME ExactInv, Metadata PROVE ExactInv'
  OBVIOUS
<1>1. Inv /\ Inv'
  BY MetadataKeeps DEF ExactInv
<1> DEFINE sound(file) == file.kind = "regular" /\ file.private /\ file.document.size <= MaxKeyBytes
<1>2. /\ UNCHANGED <<path, inodes, edits, option, variable, password, prompted, handle>>
      /\ pc = "metadata"
      /\ \/ pc' = "done" /\ outcome' = "key" /\ ~sound(inodes[handle])
         \/ pc' = "read" /\ sound(inodes[handle])
  <2>1. inodes[handle].kind # "regular" \/ ~inodes[handle].private \/ inodes[handle].document.size > MaxKeyBytes
          => ~sound(inodes[handle])
    BY <1>1, SizesAssumption, LimitsAssumption DEF Metadata, Inv, Types, Judged, Files
  <2> QED
    BY <2>1 DEF Metadata, Inspected, End, Continue, storage, given
<1>3. Sole' /\ Expected' = Expected /\ Configurable' = Configurable
  BY <1>2, UnchangedSole, UnchangedExpected DEF ExactInv
<1>4. path = handle /\ ~sound(inodes[handle]) => ~Expected
  BY DEF Expected, Loadable
<1>5. Undisturbed'
  BY <1>2, <1>3, <1>4 DEF ExactInv, Undisturbed, Loaded
<1> QED
  BY <1>1, <1>3, <1>5 DEF ExactInv

LEMMA ReadExactly == ExactInv /\ Read => ExactInv'
<1> SUFFICES ASSUME ExactInv, Read PROVE ExactInv'
  OBVIOUS
<1>1. Inv /\ Inv'
  BY ReadKeeps DEF ExactInv
<1>2. UNCHANGED <<path, inodes, edits, option, variable, password, prompted>> /\ pc = "read"
  BY DEF Read, storage, given
<1>3. Sole' /\ Expected' = Expected /\ Configurable' = Configurable
  BY <1>2, UnchangedSole, UnchangedExpected DEF ExactInv
<1>4. PICK d \in Documents : d = inodes[handle].document
  BY <1>1, <1>2 DEF Inv, Judged, Types, Files
<1>5. ASSUME edits = 0
      PROVE  /\ Configurable /\ path = handle /\ path # NoInode
             /\ inodes[path].kind = "regular" /\ inodes[path].private
             /\ d.size <= MaxKeyBytes /\ d = inodes[path].document
             /\ prompted => d.label = "encrypted"
  BY <1>1, <1>2, <1>4, <1>5, SecretsAssumption DEF ExactInv, Undisturbed, Inv, Judged
<1>6. ASSUME edits = 0
      PROVE  Expected <=> /\ d.key # NotEd25519
                          /\ \/ d.label = "plain"
                             \/ d.label = "encrypted" /\ password # NoPassword /\ d.password = password
  <2>1. password # NoPassword => (Unlocks(d.password) <=> d.password = password)
    BY BytesAssumption DEF ExactInv, Sole
  <2>2. password = NoPassword => ~Unlocks(d.password)
    BY <1>1, <1>2 DEF Inv, Settled, NothingConfigured, Unlocks, NoBytes
  <2> QED
    BY <1>5, <1>6, <2>1, <2>2 DEF Expected, Loadable
<1>7. ASSUME edits = 0
      PROVE  \/ pc' = "done" /\ (outcome' = "loaded" <=> Expected)
             \/ pc' = "prompt" /\ d.label = "encrypted"
  <2>1. \/ d.label = "binary" /\ End("io")
        \/ d.size > MaxKeyBytes /\ End("key")
        \/ Parse(d)
    BY <1>4 DEF Read
  <2>2. ~(d.size > MaxKeyBytes)
    BY <1>5, <1>7, SizesAssumption, LimitsAssumption
  <2>3. prompted => password # NoPassword
    BY <1>1 DEF Inv, Settled
  <2>4. CASE d.label = "binary" /\ End("io")
    BY <1>6, <1>7, <2>4 DEF End
  <2>5. CASE Parse(d)
    <3>1. CASE d.label = "plain"
      BY <1>5, <1>6, <1>7, <2>5, <3>1 DEF Parse, Decoder, Decoded, End
    <3>2. CASE d.label = "encrypted" /\ Decoder = "plain"
      BY <1>7, <2>3, <2>5, <3>2 DEF Parse, Decoder, Continue
    <3>3. CASE d.label = "encrypted" /\ Decoder # "plain"
      <4>1. password # NoPassword
        BY <2>3, <3>3 DEF Decoder
      <4> QED
        BY <1>6, <1>7, <2>5, <3>3, <4>1 DEF Parse, Decoded, RefusePassword, End
    <3>4. CASE d.label \in {"other", "garbled"}
      BY <1>6, <1>7, <2>5, <3>4 DEF Parse, End
    <3> QED
      BY <2>5, <3>1, <3>2, <3>3, <3>4 DEF Parse
  <2> QED
    BY <2>1, <2>2, <2>4, <2>5
<1>8. Undisturbed'
  <2> SUFFICES ASSUME edits' = 0
               PROVE  /\ pc' \notin {"password", "done"} => Configurable'
                      /\ pc' \in {"opening", "metadata", "read"} => path' = handle'
                      /\ pc' = "read" =>
                           inodes'[path'].kind = "regular" /\ inodes'[path'].private
                           /\ inodes'[path'].document.size <= MaxKeyBytes
                      /\ pc' = "prompt" \/ prompted' =>
                           path' \in Inodes /\ inodes'[path'].document.label = "encrypted"
                      /\ pc' = "done" => (outcome' = "loaded" <=> Expected')
    BY DEF Undisturbed, Loaded
  <2>1. path \in Inodes
    BY <1>1, <1>2, <1>5 DEF Inv, Types
  <2> QED
    BY <1>2, <1>3, <1>5, <1>7, <2>1
<1> QED
  BY <1>1, <1>3, <1>8 DEF ExactInv

LEMMA PromptExactly ==
    ASSUME ExactInv, NoAnswer \/ \E typed \in Typed : Answer(typed)
    PROVE  ExactInv'
<1>1. Inv /\ Inv'
  BY PromptKeeps DEF ExactInv
<1>2. /\ UNCHANGED <<path, inodes, edits, option, variable>>
      /\ pc = "prompt" /\ ~prompted /\ NothingConfigured
  BY <1>1 DEF NoAnswer, Answer, storage, given, Inv, Settled
<1>3. Configurable' = Configurable
  BY <1>2 DEF Configurable
<1>4. CASE NoAnswer
  <2>1. UNCHANGED <<password, prompted>> /\ pc' = "done" /\ outcome' = "key"
    BY <1>4 DEF NoAnswer, End
  <2>2. Sole' /\ Expected' = Expected
    BY <1>2, <2>1, UnchangedSole, UnchangedExpected DEF ExactInv
  <2>3. edits = 0 => ~Expected
    BY <1>2 DEF ExactInv, Undisturbed, Expected, Loadable, NothingConfigured, Unlocks, NoBytes
  <2>4. Undisturbed'
    BY <1>2, <2>1, <2>2, <2>3 DEF ExactInv, Undisturbed, Loaded
  <2> QED
    BY <1>1, <2>2, <2>4 DEF ExactInv
<1>5. ASSUME NEW typed \in Typed, Answer(typed) PROVE ExactInv'
  <2>1. password' = typed /\ prompted' = TRUE /\ pc' = "open"
    BY <1>5 DEF Answer, Continue
  <2>2. Sole'
    BY <1>2, <2>1 DEF Sole, Unlocks, NothingConfigured, NoBytes
  <2>3. Undisturbed'
    BY <1>2, <1>3, <2>1 DEF ExactInv, Undisturbed
  <2> QED
    BY <1>1, <2>2, <2>3 DEF ExactInv
<1> QED
  BY <1>4, <1>5

LEMMA OwnerExactly ==
    ASSUME ExactInv,
           \/ \E inode \in Inodes \cup {NoInode} : Move(inode)
           \/ \E inode \in Inodes : ChangeMode(inode) \/ \E d \in Documents : Rewrite(inode, d)
    PROVE  ExactInv'
<1>1. Inv /\ Inv'
  BY OwnerKeeps DEF ExactInv
<1>2. Edit
  BY DEF Move, ChangeMode, Rewrite
<1>3. UNCHANGED <<option, variable, password, prompted>> /\ edits' # 0
  BY <1>1, <1>2 DEF Edit, given, Inv, Types
<1>4. Sole'
  BY <1>3, UnchangedSole DEF ExactInv
<1> QED
  BY <1>1, <1>3, <1>4 DEF ExactInv, Undisturbed

LEMMA ExactStep == ExactInv /\ [Next]_vars => ExactInv'
<1> SUFFICES ASSUME ExactInv, [Next]_vars PROVE ExactInv'
  OBVIOUS
<1>1. CASE Load
  BY <1>1, ConfigureExactly, OpenExactly, MetadataExactly, ReadExactly DEF Load
<1>2. CASE NoAnswer \/ \E typed \in Typed : Answer(typed)
  BY <1>2, PromptExactly
<1>3. CASE \/ \E inode \in Inodes \cup {NoInode} : Move(inode)
           \/ \E inode \in Inodes : ChangeMode(inode) \/ \E d \in Documents : Rewrite(inode, d)
  BY <1>3, OwnerExactly
<1>4. CASE WriterComes \/ \E bytes \in Options \ {NoOption, Piped} : Supply(bytes)
  BY <1>4, WriterExactly, SupplyExactly
<1>5. CASE UNCHANGED vars
  <2>1. Sole' /\ Expected' = Expected /\ Configurable' = Configurable /\ Inv'
    BY <1>5, UnchangedSole, UnchangedExpected, InvStep DEF vars, ExactInv
  <2> QED
    BY <1>5, <2>1 DEF vars, ExactInv, Undisturbed, Loaded
<1> QED
  BY <1>1, <1>2, <1>3, <1>4, <1>5 DEF Next

(* A load of a file that nobody touches ends in its key exactly when file, *)
(* configuration and answer allow it.                                      *)
THEOREM LoadExactHolds == Spec => []LoadExact
<1>1. Init => ExactInv
  BY InvInit DEF Init, ExactInv, Sole, Undisturbed, Loaded
<1>2. ExactInv => LoadExact
  BY DEF ExactInv, Undisturbed, Expected, LoadExact
<1> QED
  BY <1>1, <1>2, ExactStep, PTL DEF Spec
=============================================================================
