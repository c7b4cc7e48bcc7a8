---------------------------- MODULE ArchiveProofs ----------------------------
(***************************************************************************)
(* Proofs about Archive, for any keys, contents, edited manifests and any  *)
(* number of signatures and alterations.                                   *)
(***************************************************************************)
EXTENDS Archive, SequenceTheorems, TLAPS

Manifests == {ManifestFor(h, c) : h \in Heads, c \in Contents} \cup EditedManifests

(* What can be found in an archive: bytes the crate wrote, bytes somebody  *)
(* put there, and signatures that some key has made.                       *)
Entries ==
    [name : {"manifest.json"}, regular : BOOLEAN, bytes : Manifests \cup {Garbage}]
    \cup [name : {"signature.json"}, regular : BOOLEAN, bytes : KnownSignatures]
    \cup [name : {"policies.cedar", "schema.json", "labels.json"}, regular : BOOLEAN,
          bytes : AnyBlob]

Archives == [trailing : BOOLEAN, entries : Seq(Entries)]
Shelved == shelf \in [Slots -> {NoArchive} \cup Archives]

Logged ==
    log \subseteq [key : Keys, manifest : Manifests, content : AnyContent]

(* The latest validated bundle carries the id of what it holds.            *)
Identified ==
    validated # NoBundle =>
        /\ validated.head \in AnyHead
        /\ validated.content \in AnyContent
        /\ validated.bundleId = BundleId(validated.head, ArtifactsOf(validated.content))

Inv == Shelved /\ Logged /\ SignedIsSound /\ Identified

(* An archive as build and resign leave it, under a key or under none.     *)
Emitted(archive, key) ==
    \E m \in Manifests, c \in AnyContent :
        /\ archive = Encode(m, IF key = NoSignature THEN NoSignature ELSE Sign(key, m), c)
        /\ m.artifacts = ArtifactsOf(c)
        /\ m.bundleId = BundleId(m.head, m.artifacts)
        /\ Deployable(m.head, c)

Marks == made \in [Slots -> Keys \cup {NoSignature, NoArchive}]

(* What counts as untouched output of the crate is such an archive.        *)
MadeIsEmitted == \A s \in Slots : made[s] # NoArchive => Emitted(shelf[s], made[s])

OutputInv == Inv /\ Marks /\ MadeIsEmitted

(***************************************************************************)
(* Contents and their artifact lists.                                      *)
(***************************************************************************)
LEMMA ContentsTyped == Contents \subseteq AnyContent
  BY ContentsAssumption DEF AnyContent, AnyBlob

LEMMA ManifestForTyped ==
  ASSUME NEW h, NEW c
  PROVE  /\ ManifestFor(h, c).head = h
         /\ ManifestFor(h, c).artifacts = ArtifactsOf(c)
         /\ ManifestFor(h, c).bundleId = BundleId(h, ArtifactsOf(c))
  BY DEF ManifestFor

LEMMA HeadTyped == \A m \in Manifests : m.head \in AnyHead
  BY ManifestForTyped DEF Manifests, AnyHead

(* The artifact list determines the content.                               *)
LEMMA ArtifactsInjective ==
  ASSUME NEW c \in AnyContent, NEW d \in AnyContent, ArtifactsOf(c) = ArtifactsOf(d)
  PROVE  c = d
<1> DEFINE R(name, bytes) == [path |-> name, digest |-> Digest(bytes)]
<1>1. c.schema = NoSchema <=> d.schema = NoSchema
  BY DEF ArtifactsOf
<1>2. \A x, y \in AnyBlob : R("policies.cedar", x) = R("policies.cedar", y) => x = y
  BY DigestInjective
<1>3. \A x, y \in AnyBlob : R("schema.json", x) = R("schema.json", y) => x = y
  BY DigestInjective
<1>4. \A x, y \in AnyBlob : R("labels.json", x) = R("labels.json", y) => x = y
  BY DigestInjective
<1>5. c.policies \in AnyBlob /\ d.policies \in AnyBlob /\ c.labels \in AnyBlob /\ d.labels \in AnyBlob
      /\ c.schema \in AnyBlob \cup {NoSchema} /\ d.schema \in AnyBlob \cup {NoSchema}
  BY DEF AnyContent
<1>6. CASE c.schema = NoSchema
  <2>1. /\ R("policies.cedar", c.policies) = R("policies.cedar", d.policies)
        /\ R("labels.json", c.labels) = R("labels.json", d.labels)
    BY <1>1, <1>6 DEF ArtifactsOf
  <2> HIDE DEF R
  <2>2. c.policies = d.policies /\ c.labels = d.labels
    BY <2>1, <1>2, <1>4, <1>5
  <2> QED
    BY <1>1, <1>6, <2>2 DEF AnyContent
<1>7. CASE c.schema # NoSchema
  <2>1. /\ R("policies.cedar", c.policies) = R("policies.cedar", d.policies)
        /\ R("schema.json", c.schema) = R("schema.json", d.schema)
        /\ R("labels.json", c.labels) = R("labels.json", d.labels)
    BY <1>1, <1>7 DEF ArtifactsOf
  <2> HIDE DEF R
  <2>2. c.policies = d.policies /\ c.schema = d.schema /\ c.labels = d.labels
    BY <2>1, <1>1, <1>2, <1>3, <1>4, <1>5, <1>7
  <2> QED
    BY <2>2 DEF AnyContent
<1> QED
  BY <1>6, <1>7

(***************************************************************************)
(* What decode_archive finds in an archive of typed entries.               *)
(***************************************************************************)
LEMMA EntryAt ==
  ASSUME NEW archive, archive.entries \in Seq(Entries), NEW name, NEW none,
         \E i \in 1..Len(archive.entries) : archive.entries[i].name = name
  PROVE  \E e \in Entries : e.name = name /\ BytesOf(archive, name, none) = e.bytes
<1> DEFINE i == CHOOSE k \in 1..Len(archive.entries) : archive.entries[k].name = name
<1>1. i \in 1..Len(archive.entries) /\ archive.entries[i].name = name
  OBVIOUS
<1>2. archive.entries[i] \in Entries
  BY <1>1
<1>3. BytesOf(archive, name, none) = archive.entries[i].bytes
  BY DEF BytesOf
<1> QED
  BY <1>1, <1>2, <1>3

LEMMA OrderHasNames ==
  ASSUME NEW archive, archive.entries \in Seq(Entries), Names(archive) \in Orders,
         NEW name \in {"manifest.json", "policies.cedar", "labels.json"}
  PROVE  \E i \in 1..Len(archive.entries) : archive.entries[i].name = name
<1>1. \E i \in 1..Len(Names(archive)) : Names(archive)[i] = name
  BY DEF Orders
<1>2. Len(Names(archive)) = Len(archive.entries)
  BY DEF Names
<1> QED
  BY <1>1, <1>2 DEF Names

LEMMA Decoded ==
  ASSUME NEW archive, archive.entries \in Seq(Entries), Decodable(archive)
  PROVE  /\ ManifestOf(archive) \in Manifests \cup {Garbage}
         /\ SignatureOf(archive) \in KnownSignatures \cup {NoSignature}
         /\ ContentOf(archive) \in AnyContent
<1>1. Names(archive) \in Orders
  BY DEF Decodable
<1>2. ManifestOf(archive) \in Manifests \cup {Garbage}
  BY <1>1, OrderHasNames, EntryAt DEF ManifestOf, Entries
<1>3. BytesOf(archive, "policies.cedar", Garbage) \in AnyBlob
  BY <1>1, OrderHasNames, EntryAt DEF Entries
<1>4. BytesOf(archive, "labels.json", Garbage) \in AnyBlob
  BY <1>1, OrderHasNames, EntryAt DEF Entries
<1>5. BytesOf(archive, "schema.json", NoSchema) \in AnyBlob \cup {NoSchema}
  <2>1. CASE \E i \in 1..Len(archive.entries) : archive.entries[i].name = "schema.json"
    BY <2>1, EntryAt DEF Entries
  <2>2. CASE ~\E i \in 1..Len(archive.entries) : archive.entries[i].name = "schema.json"
    BY <2>2 DEF BytesOf
  <2> QED
    BY <2>1, <2>2
<1>6. SignatureOf(archive) \in KnownSignatures \cup {NoSignature}
  <2>1. CASE \E i \in 1..Len(archive.entries) : archive.entries[i].name = "signature.json"
    BY <2>1, EntryAt DEF Entries, SignatureOf
  <2>2. CASE ~\E i \in 1..Len(archive.entries) : archive.entries[i].name = "signature.json"
    BY <2>2 DEF BytesOf, SignatureOf
  <2> QED
    BY <2>1, <2>2
<1> QED
  BY <1>2, <1>3, <1>4, <1>5, <1>6 DEF ContentOf, AnyContent

(***************************************************************************)
(* The archives that the operations make and that alterations leave.       *)
(***************************************************************************)
LEMMA EntriesGrow == log \subseteq log' => Entries \subseteq Entries'
<1> SUFFICES ASSUME log \subseteq log' PROVE Entries \subseteq Entries'
  OBVIOUS
<1>1. KnownSignatures \subseteq KnownSignatures'
  BY DEF KnownSignatures
<1> QED
  BY <1>1 DEF Entries

LEMMA ShelvedStep ==
  ASSUME Shelved, log \subseteq log', NEW slot \in Slots, NEW archive \in Archives',
         shelf' = [shelf EXCEPT ![slot] = archive]
  PROVE  Shelved'
<1>1. Entries \subseteq Entries'
  BY EntriesGrow
<1>2. Seq(Entries) \subseteq Seq(Entries')
  BY <1>1, SeqMonotonic
<1>3. Archives \subseteq Archives'
  BY <1>2 DEF Archives
<1> QED
  BY <1>3 DEF Shelved

LEMMA Unshelved == Shelved /\ shelf' = shelf /\ log' = log => Shelved'
  BY DEF Shelved, Archives, Entries, KnownSignatures

LEMMA EncodeTyped ==
  ASSUME NEW E, NEW m, NEW signature, NEW c,
         Entry("manifest.json", m) \in E,
         signature # NoSignature => Entry("signature.json", signature) \in E,
         Entry("policies.cedar", c.policies) \in E,
         c.schema # NoSchema => Entry("schema.json", c.schema) \in E,
         Entry("labels.json", c.labels) \in E
  PROVE  Encode(m, signature, c) \in [trailing : BOOLEAN, entries : Seq(E)]
<1>1. /\ <<Entry("manifest.json", m)>> \in Seq(E)
      /\ <<Entry("policies.cedar", c.policies)>> \in Seq(E)
      /\ <<Entry("labels.json", c.labels)>> \in Seq(E)
  OBVIOUS
<1>2. /\ Optional("signature.json", signature, NoSignature) \in Seq(E)
      /\ Optional("schema.json", c.schema, NoSchema) \in Seq(E)
  BY EmptySeq DEF Optional
<1>3. /\ <<Entry("manifest.json", m)>> \o Optional("signature.json", signature, NoSignature) \in Seq(E)
  BY <1>1, <1>2, ConcatProperties
<1>4. (<<Entry("manifest.json", m)>> \o Optional("signature.json", signature, NoSignature))
        \o <<Entry("policies.cedar", c.policies)>> \in Seq(E)
  BY <1>1, <1>3, ConcatProperties
<1>5. ((<<Entry("manifest.json", m)>> \o Optional("signature.json", signature, NoSignature))
        \o <<Entry("policies.cedar", c.policies)>>) \o Optional("schema.json", c.schema, NoSchema)
        \in Seq(E)
  BY <1>2, <1>4, ConcatProperties
<1>6. (((<<Entry("manifest.json", m)>> \o Optional("signature.json", signature, NoSignature))
        \o <<Entry("policies.cedar", c.policies)>>) \o Optional("schema.json", c.schema, NoSchema))
        \o <<Entry("labels.json", c.labels)>> \in Seq(E)
  BY <1>1, <1>5, ConcatProperties
<1> QED
  BY <1>6 DEF Encode

LEMMA SignedTyped ==
  ASSUME NEW key \in Keys, NEW m \in Manifests \cup {Garbage}, NEW c \in AnyContent,
         Signed(key, m, c) \in log'
  PROVE  Encode(m, Sign(key, m), c) \in Archives'
<1>1. Sign(key, m) \in KnownSignatures'
  <2>1. PICK l \in log' : l = Signed(key, m, c)
    OBVIOUS
  <2>2. Sign(key, m) \in [wellFormed : BOOLEAN, keyId : Keys, by : {l.key}, over : {l.manifest}]
    BY <2>1 DEF Sign, Signed
  <2> QED
    BY <2>2 DEF KnownSignatures
<1>2. /\ Entry("manifest.json", m) \in Entries'
      /\ Entry("signature.json", Sign(key, m)) \in Entries'
      /\ Entry("policies.cedar", c.policies) \in Entries'
      /\ c.schema # NoSchema => Entry("schema.json", c.schema) \in Entries'
      /\ Entry("labels.json", c.labels) \in Entries'
  BY <1>1 DEF Entries, Entry, AnyContent
<1> QED
  BY <1>2, EncodeTyped DEF Archives

LEMMA UnsignedTyped ==
  ASSUME NEW m \in Manifests, NEW c \in AnyContent
  PROVE  Encode(m, NoSignature, c) \in Archives
<1>1. /\ Entry("manifest.json", m) \in Entries
      /\ Entry("policies.cedar", c.policies) \in Entries
      /\ c.schema # NoSchema => Entry("schema.json", c.schema) \in Entries
      /\ Entry("labels.json", c.labels) \in Entries
  BY DEF Entries, Entry, AnyContent
<1> QED
  BY <1>1, EncodeTyped DEF Archives

LEMMA AlteredTyped ==
  ASSUME NEW archive \in Archives, NEW i \in 1..Len(archive.entries), NEW entry \in Entries
  PROVE  /\ Replaced(archive, i, entry) \in Archives
         /\ WithoutEntry(archive, i) \in Archives
         /\ WithEntry(archive, i, entry) \in Archives
<1> DEFINE s == archive.entries
<1>1. s \in Seq(Entries) /\ archive.trailing \in BOOLEAN /\ Len(s) \in Nat
  BY DEF Archives
<1>2. \A k \in 1..Len(s) : s[k] \in Entries
  BY <1>1
<1>3. /\ SubSeq(s, 1, i - 1) \in Seq(Entries)
      /\ SubSeq(s, i + 1, Len(s)) \in Seq(Entries)
      /\ SubSeq(s, i, Len(s)) \in Seq(Entries)
  <2>1. \A k \in 1..(i - 1) : s[k] \in Entries
    BY <1>1, <1>2
  <2>2. \A k \in (i + 1)..Len(s) : s[k] \in Entries
    BY <1>1, <1>2
  <2>3. \A k \in i..Len(s) : s[k] \in Entries
    BY <1>1, <1>2
  <2>4. 1 \in Int /\ i - 1 \in Int /\ i + 1 \in Int /\ i \in Int /\ Len(s) \in Int
    BY <1>1
  <2> HIDE DEF s
  <2> QED
    BY <2>1, <2>2, <2>3, <2>4, SubSeqProperties
<1>4. [s EXCEPT ![i] = entry] \in Seq(Entries)
  BY <1>1
<1>5. <<entry>> \in Seq(Entries)
  OBVIOUS
<1>6. /\ SubSeq(s, 1, i - 1) \o SubSeq(s, i + 1, Len(s)) \in Seq(Entries)
      /\ (SubSeq(s, 1, i - 1) \o <<entry>>) \o SubSeq(s, i, Len(s)) \in Seq(Entries)
  BY <1>3, <1>5, ConcatProperties
<1> QED
  BY <1>4, <1>6 DEF Archives, Replaced, WithoutEntry, WithEntry

(***************************************************************************)
(* Inv holds in every state.                                               *)
(***************************************************************************)
LEMMA InvInit == Init => Inv
  BY DEF Init, Inv, Shelved, Logged, SignedIsSound, Identified

LEMMA BuildKeeps ==
  ASSUME Inv, NEW slot \in Slots, NEW head \in Heads, NEW content \in Contents,
         Build(slot, head, content)
  PROVE  Inv'
<1>1. content \in AnyContent /\ ManifestFor(head, content) \in Manifests
  BY ContentsTyped DEF Manifests
<1>2. Encode(ManifestFor(head, content), NoSignature, content) \in Archives'
  <2>1. Archives' = Archives
    BY DEF Build, Archives, Entries, KnownSignatures
  <2> QED
    BY <1>1, <2>1, UnsignedTyped
<1>3. Shelved'
  BY <1>2, ShelvedStep DEF Build, Inv
<1> QED
  BY <1>3 DEF Build, Inv, Logged, SignedIsSound, Identified

LEMMA BuildSignedKeeps ==
  ASSUME Inv, NEW slot \in Slots, NEW head \in Heads, NEW content \in Contents, NEW key \in Keys,
         BuildSigned(slot, head, content, key)
  PROVE  Inv'
<1> DEFINE m == ManifestFor(head, content)
<1>1. content \in AnyContent /\ m \in Manifests
  BY ContentsTyped DEF Manifests
<1>2. log' = log \cup {Signed(key, m, content)} /\ Deployable(head, content)
  BY DEF BuildSigned
<1>3. Encode(m, Sign(key, m), content) \in Archives'
  BY <1>1, <1>2, SignedTyped
<1>4. Shelved'
  BY <1>2, <1>3, ShelvedStep DEF BuildSigned, Inv
<1>5. Logged'
  BY <1>1, <1>2 DEF Inv, Logged, Signed
<1>6. SignedIsSound'
  <2>1. m.artifacts = ArtifactsOf(content) /\ m.head = head
    BY ManifestForTyped
  <2> HIDE DEF m
  <2> QED
    BY <1>2, <2>1 DEF Inv, SignedIsSound, Signed
<1>7. Identified'
  BY DEF BuildSigned, Inv, Identified
<1> QED
  BY <1>4, <1>5, <1>6, <1>7 DEF Inv

LEMMA ResignKeeps ==
  ASSUME Inv, NEW from \in Slots, NEW to \in Slots, NEW key \in Keys, Resign(from, to, key)
  PROVE  Inv'
<1> DEFINE m == ManifestOf(shelf[from])
           c == ContentOf(shelf[from])
<1>1. shelf[from] \in Archives /\ Resignable(shelf[from])
  BY DEF Resign, Inv, Shelved
<1>2. m \in Manifests \cup {Garbage} /\ c \in AnyContent
  BY <1>1, Decoded DEF Archives, Resignable
<1>3. m # Garbage /\ m.artifacts = ArtifactsOf(c) /\ Deployable(m.head, c)
  BY <1>1 DEF Resignable, ContentAccepted
<1>4. log' = log \cup {Signed(key, m, c)}
  BY DEF Resign
<1>5. shelf' = [shelf EXCEPT ![to] = Encode(m, Sign(key, m), c)]
  BY DEF Resign
<1>6. validated' = validated
  BY DEF Resign
<1> HIDE DEF m, c
<1>7. Shelved'
  <2>1. Encode(m, Sign(key, m), c) \in Archives'
    BY <1>2, <1>4, SignedTyped
  <2> QED
    BY <1>4, <1>5, <2>1, ShelvedStep DEF Inv
<1>8. Logged'
  BY <1>2, <1>3, <1>4 DEF Inv, Logged, Signed
<1>9. SignedIsSound'
  BY <1>3, <1>4 DEF Inv, SignedIsSound, Signed
<1>10. Identified'
  BY <1>6 DEF Inv, Identified
<1> QED
  BY <1>7, <1>8, <1>9, <1>10 DEF Inv

(* What a consumer accepts is typed, and carries its own id.               *)
LEMMA ValidatedBundle ==
  ASSUME Inv, NEW slot \in Slots, NEW policy, Validate(slot, policy)
  PROVE  /\ validated'.content \in AnyContent
         /\ validated'.head \in AnyHead
         /\ validated'.bundleId = BundleId(validated'.head, ArtifactsOf(validated'.content))
<1> DEFINE m == ManifestOf(shelf[slot])
           c == ContentOf(shelf[slot])
<1>1. shelf[slot] \in Archives /\ Accepts(shelf[slot], policy)
  BY DEF Validate, Inv, Shelved
<1>2. m \in Manifests \cup {Garbage} /\ c \in AnyContent
  BY <1>1, Decoded DEF Archives, Accepts
<1>3. m # Garbage /\ m.artifacts = ArtifactsOf(c) /\ m.bundleId = BundleId(m.head, m.artifacts)
  BY <1>1 DEF Accepts, ContentAccepted
<1>4. validated'.content = c /\ validated'.head = m.head /\ validated'.bundleId = m.bundleId
  BY DEF Validate
<1> HIDE DEF m, c
<1> QED
  BY <1>2, <1>3, <1>4, HeadTyped

LEMMA ValidateKeeps ==
  ASSUME Inv, NEW slot \in Slots, NEW policy, Validate(slot, policy)
  PROVE  Inv'
<1>1. Shelved'
  BY Unshelved DEF Validate, Inv
<1>2. Identified'
  BY ValidatedBundle DEF Identified
<1> QED
  BY <1>1, <1>2 DEF Validate, Inv, Logged, SignedIsSound

LEMMA RotateKeeps ==
  ASSUME Inv, NEW keys \in SUBSET Keys, Rotate(keys)
  PROVE  Inv'
  BY Unshelved DEF Rotate, Inv, Logged, SignedIsSound, Identified

LEMMA AlterKeeps ==
  ASSUME Inv, NEW slot \in Slots, NEW archive \in Archives, Alter(slot, archive)
  PROVE  Inv'
<1>1. Archives' = Archives
  BY DEF Alter, Archives, Entries, KnownSignatures
<1>2. Shelved'
  BY <1>1, ShelvedStep DEF Alter, Inv
<1> QED
  BY <1>2 DEF Alter, Inv, Logged, SignedIsSound, Identified

LEMMA AlterEntryKeeps ==
  ASSUME Inv, NEW slot \in Slots, shelf[slot] # NoArchive,
         NEW i \in 1..Len(shelf[slot].entries), AlterEntry(slot, i)
  PROVE  Inv'
<1> DEFINE archive == shelf[slot]
           entry == archive.entries[i]
<1>1. archive \in Archives /\ archive.entries \in Seq(Entries)
  BY DEF Inv, Shelved, Archives
<1>2. entry \in Entries
  BY <1>1
<1>3. ASSUME NEW bytes \in BytesFor(entry.name) PROVE [entry EXCEPT !.bytes = bytes] \in Entries
  BY <1>2, <1>3 DEF BytesFor, Entries, Manifests, AnyBlob
<1>4. [entry EXCEPT !.regular = FALSE] \in Entries
  BY <1>2 DEF Entries
<1>5. ASSUME NEW signature \in KnownSignatures PROVE Entry("signature.json", signature) \in Entries
  BY <1>5 DEF Entries, Entry
<1>6. CASE \E bytes \in BytesFor(entry.name) :
             Alter(slot, Replaced(archive, i, [entry EXCEPT !.bytes = bytes]))
  BY <1>1, <1>3, <1>6, AlteredTyped, AlterKeeps
<1>7. CASE Alter(slot, Replaced(archive, i, [entry EXCEPT !.regular = FALSE]))
  BY <1>1, <1>4, <1>7, AlteredTyped, AlterKeeps
<1>8. CASE Alter(slot, WithoutEntry(archive, i))
  BY <1>1, <1>2, <1>8, AlteredTyped, AlterKeeps
<1>9. CASE Alter(slot, WithEntry(archive, i, entry))
  BY <1>1, <1>2, <1>9, AlteredTyped, AlterKeeps
<1>10. CASE \E signature \in KnownSignatures :
              Alter(slot, WithEntry(archive, i, Entry("signature.json", signature)))
  BY <1>1, <1>5, <1>10, AlteredTyped, AlterKeeps
<1> QED
  BY <1>6, <1>7, <1>8, <1>9, <1>10 DEF AlterEntry

LEMMA AppendBytesKeeps ==
  ASSUME Inv, NEW slot \in Slots, shelf[slot] # NoArchive, AppendBytes(slot)
  PROVE  Inv'
<1>1. [shelf[slot] EXCEPT !.trailing = TRUE] \in Archives
  BY DEF Inv, Shelved, Archives
<1> QED
  BY <1>1, AlterKeeps DEF AppendBytes

LEMMA InvStep == Inv /\ [Next]_vars => Inv'
<1> SUFFICES ASSUME Inv, [Next]_vars PROVE Inv'
  OBVIOUS
<1>1. ASSUME NEW slot \in Slots, NEW head \in Heads, NEW content \in Contents,
             Build(slot, head, content) \/ \E key \in Keys : BuildSigned(slot, head, content, key)
      PROVE  Inv'
  BY <1>1, BuildKeeps, BuildSignedKeeps
<1>2. ASSUME NEW from \in Slots, NEW to \in Slots, NEW key \in Keys, Resign(from, to, key)
      PROVE  Inv'
  BY <1>2, ResignKeeps
<1>3. ASSUME NEW slot \in Slots, NEW policy \in SignaturePolicies, Validate(slot, policy)
      PROVE  Inv'
  BY <1>3, ValidateKeeps
<1>4. ASSUME NEW keys \in SUBSET Keys, Rotate(keys) PROVE Inv'
  BY <1>4, RotateKeeps
<1>5. ASSUME NEW slot \in Slots, shelf[slot] # NoArchive,
             \/ \E i \in 1..Len(shelf[slot].entries) : AlterEntry(slot, i)
             \/ AppendBytes(slot)
      PROVE  Inv'
  BY <1>5, AlterEntryKeeps, AppendBytesKeeps
<1>6. CASE UNCHANGED vars
  BY <1>6, Unshelved DEF vars, Inv, Logged, SignedIsSound, Identified
<1> QED
  BY <1>1, <1>2, <1>3, <1>4, <1>5, <1>6 DEF Next

(* The inductive invariant holds however archives are made, altered and    *)
(* handed on.                                                              *)
THEOREM Invariance == Spec => []Inv
  BY InvInit, InvStep, PTL DEF Spec

(* A key stands only under content that passed every check.                *)
THEOREM SignedIsSoundHolds == Spec => []SignedIsSound
<1>1. Inv => SignedIsSound
  BY DEF Inv
<1> QED
  BY <1>1, Invariance, PTL

(***************************************************************************)
(* What a consumer accepts.                                                *)
(***************************************************************************)
AuthenticStep ==
    \A slot \in Slots, policy \in SignaturePolicies : Validate(slot, policy) =>
        /\ policy = "required" => validated'.signers # {}
        /\ \A key \in validated'.signers : key \in trust /\ Vouched(key, validated')

LEMMA AcceptedIsAuthentic ==
  ASSUME Inv, NEW slot \in Slots, NEW policy \in SignaturePolicies, Validate(slot, policy)
  PROVE  /\ policy = "required" => validated'.signers # {}
         /\ \A key \in validated'.signers : key \in trust /\ Vouched(key, validated')
<1> DEFINE m == ManifestOf(shelf[slot])
           c == ContentOf(shelf[slot])
           sig == SignatureOf(shelf[slot])
<1>1. shelf[slot] \in Archives /\ Accepts(shelf[slot], policy)
  BY DEF Validate, Inv, Shelved
<1>2. sig \in KnownSignatures \cup {NoSignature} /\ c \in AnyContent
  BY <1>1, Decoded DEF Archives, Accepts
<1>3. m.artifacts = ArtifactsOf(c)
  BY <1>1 DEF Accepts, ContentAccepted
<1>4. /\ validated'.content = c /\ validated'.head = m.head /\ validated'.bundleId = m.bundleId
      /\ validated'.signers = IF sig = NoSignature THEN {} ELSE {sig.keyId}
  BY DEF Validate
<1>5. IF sig = NoSignature THEN policy = "allow-unsigned"
      ELSE sig.keyId \in trust /\ sig.by = sig.keyId /\ sig.over = m
  BY <1>1 DEF Accepts, SignatureAccepted
<1> HIDE DEF m, c, sig
<1>6. policy = "required" => validated'.signers # {}
  BY <1>4, <1>5
<1>7. ASSUME sig # NoSignature PROVE sig.keyId \in trust /\ Vouched(sig.keyId, validated')
  <2>1. PICK l \in log : sig.by = l.key /\ sig.over = l.manifest
    BY <1>2, <1>7 DEF KnownSignatures
  <2>2. l.key = sig.keyId /\ l.manifest = m
    BY <1>5, <1>7, <2>1
  <2>3. l.content \in AnyContent /\ l.manifest.artifacts = ArtifactsOf(l.content)
    BY DEF Inv, Logged, SignedIsSound
  <2>4. l.content = c
    BY <1>2, <1>3, <2>2, <2>3, ArtifactsInjective
  <2> QED
    BY <1>4, <1>5, <1>7, <2>2, <2>4 DEF Vouched
<1> QED
  BY <1>4, <1>6, <1>7

(* Whoever alters archives, and however the trust store is rotated: what a *)
(* consumer accepts as signed was signed, as a whole, by a key it trusts   *)
(* at that moment; `required` accepts nothing unsigned.                    *)
THEOREM AuthenticHolds == Spec => Authentic
<1>1. Inv /\ [Next]_vars => [AuthenticStep]_vars
  BY AcceptedIsAuthentic DEF AuthenticStep
<1>2. Spec => [][AuthenticStep]_vars
  BY <1>1, Invariance, PTL DEF Spec
<1> QED
  BY <1>2 DEF Authentic, AuthenticStep

SameIdSameBundle ==
    validated # NoBundle /\ validated' # NoBundle /\ validated'.bundleId = validated.bundleId =>
        validated'.head = validated.head /\ validated'.content = validated.content

(* Two bundles a consumer accepts under one id are the same bundle.        *)
THEOREM BundleIdIdentifiesHolds == Spec => BundleIdIdentifies
<1>1. Inv /\ Inv' => SameIdSameBundle
  BY BundleIdInjective, ArtifactsInjective DEF Inv, Identified, SameIdSameBundle
<1>2. Spec => [][SameIdSameBundle]_vars
  BY <1>1, Invariance, PTL DEF Spec
<1> QED
  BY <1>2 DEF BundleIdIdentifies, SameIdSameBundle

(***************************************************************************)
(* What the crate emits.                                                   *)
(***************************************************************************)
LEMMA Extended ==
  ASSUME NEW T, NEW s \in Seq(T), NEW x \in T, NEW t \in Seq(T),
         Len(t) = Len(s) + 1, t[Len(t)] = x, \A i \in 1..Len(s) : t[i] = s[i]
  PROVE  s \o <<x>> = t
<1>1. Append(s, x) = s \o <<x>>
  BY AppendIsConcat
<1>2. /\ Append(s, x) \in Seq(T) /\ Len(Append(s, x)) = Len(t) /\ Len(s) \in Nat
      /\ \A i \in 1..Len(s) : Append(s, x)[i] = t[i]
      /\ Append(s, x)[Len(s) + 1] = t[Len(s) + 1]
  BY AppendProperties
<1>3. \A i \in 1..Len(t) : Append(s, x)[i] = t[i]
  BY <1>2
<1> QED
  BY <1>1, <1>2, <1>3, SeqEqual

(* Files one after another, with an empty sequence where one is missing.  *)
LEMMA TwoFiles ==
  ASSUME NEW a, NEW b
  PROVE  <<a>> \o <<b>> = <<a, b>>
<1> DEFINE T == {a, b}
<1>1. <<a>> \in Seq(T) /\ <<a, b>> \in Seq(T) /\ b \in T
  OBVIOUS
<1>2. Len(<<a, b>>) = Len(<<a>>) + 1 /\ <<a, b>>[Len(<<a, b>>)] = b
  OBVIOUS
<1>3. \A i \in 1..Len(<<a>>) : <<a, b>>[i] = <<a>>[i]
  OBVIOUS
<1> HIDE DEF T
<1> QED
  BY <1>1, <1>2, <1>3, Extended

LEMMA ThreeFiles ==
  ASSUME NEW a, NEW b, NEW c
  PROVE  <<a, b>> \o <<c>> = <<a, b, c>>
<1> DEFINE T == {a, b, c}
<1>1. <<a, b>> \in Seq(T) /\ <<a, b, c>> \in Seq(T) /\ c \in T
  OBVIOUS
<1>2. Len(<<a, b, c>>) = Len(<<a, b>>) + 1 /\ <<a, b, c>>[Len(<<a, b, c>>)] = c
  OBVIOUS
<1>3. \A i \in 1..Len(<<a, b>>) : <<a, b, c>>[i] = <<a, b>>[i]
  OBVIOUS
<1> HIDE DEF T
<1> QED
  BY <1>1, <1>2, <1>3, Extended

LEMMA FourFiles ==
  ASSUME NEW a, NEW b, NEW c, NEW d
  PROVE  <<a, b, c>> \o <<d>> = <<a, b, c, d>>
<1> DEFINE T == {a, b, c, d}
<1>1. <<a, b, c>> \in Seq(T) /\ <<a, b, c, d>> \in Seq(T) /\ d \in T
  OBVIOUS
<1>2. Len(<<a, b, c, d>>) = Len(<<a, b, c>>) + 1 /\ <<a, b, c, d>>[Len(<<a, b, c, d>>)] = d
  OBVIOUS
<1>3. \A i \in 1..Len(<<a, b, c>>) : <<a, b, c, d>>[i] = <<a, b, c>>[i]
  OBVIOUS
<1> HIDE DEF T
<1> QED
  BY <1>1, <1>2, <1>3, Extended

LEMMA FiveFiles ==
  ASSUME NEW a, NEW b, NEW c, NEW d, NEW e
  PROVE  <<a, b, c, d>> \o <<e>> = <<a, b, c, d, e>>
<1> DEFINE T == {a, b, c, d, e}
<1>1. <<a, b, c, d>> \in Seq(T) /\ <<a, b, c, d, e>> \in Seq(T) /\ e \in T
  OBVIOUS
<1>2. Len(<<a, b, c, d, e>>) = Len(<<a, b, c, d>>) + 1 /\ <<a, b, c, d, e>>[Len(<<a, b, c, d, e>>)] = e
  OBVIOUS
<1>3. \A i \in 1..Len(<<a, b, c, d>>) : <<a, b, c, d, e>>[i] = <<a, b, c, d>>[i]
  OBVIOUS
<1> HIDE DEF T
<1> QED
  BY <1>1, <1>2, <1>3, Extended

LEMMA NeitherConcatenated ==
  ASSUME NEW a, NEW b, NEW c
  PROVE  (((<<a>> \o <<>>) \o <<b>>) \o <<>>) \o <<c>> = <<a, b, c>>
<1>1. <<a>> \o <<b>> = <<a, b>>
  BY TwoFiles, Zenon
<1>2. <<a, b>> \o <<c>> = <<a, b, c>>
  BY ThreeFiles, Zenon
<1>3. <<a>> \o <<>> = <<a>>
  <2>1. <<a>> \in Seq({a})
    OBVIOUS
  <2> QED
    BY <2>1, ConcatEmptySeq
<1>4. <<a, b>> \o <<>> = <<a, b>>
  <2>1. <<a, b>> \in Seq({a, b})
    OBVIOUS
  <2> QED
    BY <2>1, ConcatEmptySeq
<1> QED
  BY <1>1, <1>2, <1>3, <1>4, Zenon

LEMMA SchemaConcatenated ==
  ASSUME NEW a, NEW b, NEW c, NEW d
  PROVE  (((<<a>> \o <<>>) \o <<b>>) \o <<c>>) \o <<d>> = <<a, b, c, d>>
<1>1. <<a>> \o <<b>> = <<a, b>>
  BY TwoFiles, Zenon
<1>2. <<a, b>> \o <<c>> = <<a, b, c>>
  BY ThreeFiles, Zenon
<1>3. <<a, b, c>> \o <<d>> = <<a, b, c, d>>
  BY FourFiles, Zenon
<1>4. <<a>> \o <<>> = <<a>>
  <2>1. <<a>> \in Seq({a})
    OBVIOUS
  <2> QED
    BY <2>1, ConcatEmptySeq
<1> QED
  BY <1>1, <1>2, <1>3, <1>4, Zenon

LEMMA SignatureConcatenated ==
  ASSUME NEW a, NEW b, NEW c, NEW d
  PROVE  (((<<a>> \o <<b>>) \o <<c>>) \o <<>>) \o <<d>> = <<a, b, c, d>>
<1>1. <<a>> \o <<b>> = <<a, b>>
  BY TwoFiles, Zenon
<1>2. <<a, b>> \o <<c>> = <<a, b, c>>
  BY ThreeFiles, Zenon
<1>3. <<a, b, c>> \o <<d>> = <<a, b, c, d>>
  BY FourFiles, Zenon
<1>4. <<a, b, c>> \o <<>> = <<a, b, c>>
  <2>1. <<a, b, c>> \in Seq({a, b, c})
    OBVIOUS
  <2> QED
    BY <2>1, ConcatEmptySeq
<1> QED
  BY <1>1, <1>2, <1>3, <1>4, Zenon

LEMMA BothConcatenated ==
  ASSUME NEW a, NEW b, NEW c, NEW d, NEW e
  PROVE  (((<<a>> \o <<b>>) \o <<c>>) \o <<d>>) \o <<e>> = <<a, b, c, d, e>>
<1>1. <<a>> \o <<b>> = <<a, b>>
  BY TwoFiles, Zenon
<1>2. <<a, b>> \o <<c>> = <<a, b, c>>
  BY ThreeFiles, Zenon
<1>3. <<a, b, c>> \o <<d>> = <<a, b, c, d>>
  BY FourFiles, Zenon
<1>4. <<a, b, c, d>> \o <<e>> = <<a, b, c, d, e>>
  BY FiveFiles, Zenon
<1> QED
  BY <1>1, <1>2, <1>3, <1>4, Zenon

(* decode_archive finds in an encoded archive what encode_archive put in.  *)
LEMMA DecodeEncode ==
  ASSUME NEW m, NEW signature, NEW c \in AnyContent,
         NEW archive, archive = Encode(m, signature, c)
  PROVE  /\ ManifestOf(archive) = m
         /\ SignatureOf(archive) = signature
         /\ ContentOf(archive) = c
         /\ Names(archive) \in Orders
         /\ ~archive.trailing
         /\ \A i \in 1..Len(archive.entries) : archive.entries[i].regular
<1> DEFINE M == Entry("manifest.json", m)
           S == Entry("signature.json", signature)
           P == Entry("policies.cedar", c.policies)
           A == Entry("schema.json", c.schema)
           L == Entry("labels.json", c.labels)
<1>1. ~archive.trailing /\ c = [policies |-> c.policies, schema |-> c.schema, labels |-> c.labels]
  BY DEF Encode, AnyContent
<1>2. /\ M.name = "manifest.json" /\ M.bytes = m /\ M.regular
      /\ S.name = "signature.json" /\ S.bytes = signature /\ S.regular
      /\ P.name = "policies.cedar" /\ P.bytes = c.policies /\ P.regular
      /\ A.name = "schema.json" /\ A.bytes = c.schema /\ A.regular
      /\ L.name = "labels.json" /\ L.bytes = c.labels /\ L.regular
  BY DEF Entry
<1>3. archive.entries = (((<<M>> \o Optional("signature.json", signature, NoSignature)) \o <<P>>)
                            \o Optional("schema.json", c.schema, NoSchema)) \o <<L>>
  BY DEF Encode
<1>4. /\ Optional("signature.json", signature, NoSignature) = IF signature = NoSignature THEN <<>> ELSE <<S>>
      /\ Optional("schema.json", c.schema, NoSchema) = IF c.schema = NoSchema THEN <<>> ELSE <<A>>
  BY DEF Optional
<1> HIDE DEF M, S, P, A, L
<1>5. CASE signature = NoSignature /\ c.schema = NoSchema
  <2>1. /\ Optional("signature.json", signature, NoSignature) = <<>>
        /\ Optional("schema.json", c.schema, NoSchema) = <<>>
    BY <1>5, <1>4
  <2>2. archive.entries = <<M, P, L>>
    <3>1. (((<<M>> \o <<>>) \o <<P>>) \o <<>>) \o <<L>> = <<M, P, L>>
      BY NeitherConcatenated, Zenon
    <3> QED
      BY <2>1, <1>3, <3>1, Zenon
  <2>3. Names(archive) = <<"manifest.json", "policies.cedar", "labels.json">>
    BY <2>2, <1>2 DEF Names
  <2>4. BytesOf(archive, "manifest.json", Garbage) = m
    BY <2>2, <1>2 DEF BytesOf
  <2>5. BytesOf(archive, "signature.json", NoSignature) = signature
    BY <1>5, <2>2, <1>2 DEF BytesOf
  <2>6. BytesOf(archive, "policies.cedar", Garbage) = c.policies
    BY <2>2, <1>2 DEF BytesOf
  <2>7. BytesOf(archive, "schema.json", NoSchema) = c.schema
    BY <1>5, <2>2, <1>2 DEF BytesOf
  <2>8. BytesOf(archive, "labels.json", Garbage) = c.labels
    BY <2>2, <1>2 DEF BytesOf
  <2>9. \A i \in 1..Len(archive.entries) : archive.entries[i].regular
    BY <2>2, <1>2
  <2> QED
    BY <1>1, <2>3, <2>4, <2>5, <2>6, <2>7, <2>8, <2>9
       DEF ManifestOf, SignatureOf, ContentOf, Orders
<1>6. CASE signature = NoSignature /\ c.schema # NoSchema
  <2>1. /\ Optional("signature.json", signature, NoSignature) = <<>>
        /\ Optional("schema.json", c.schema, NoSchema) = <<A>>
    BY <1>6, <1>4
  <2>2. archive.entries = <<M, P, A, L>>
    <3>1. (((<<M>> \o <<>>) \o <<P>>) \o <<A>>) \o <<L>> = <<M, P, A, L>>
      BY SchemaConcatenated, Zenon
    <3> QED
      BY <2>1, <1>3, <3>1, Zenon
  <2>3. Names(archive) = <<"manifest.json", "policies.cedar", "schema.json", "labels.json">>
    BY <2>2, <1>2 DEF Names
  <2>4. BytesOf(archive, "manifest.json", Garbage) = m
    BY <2>2, <1>2 DEF BytesOf
  <2>5. BytesOf(archive, "signature.json", NoSignature) = signature
    BY <1>6, <2>2, <1>2 DEF BytesOf
  <2>6. BytesOf(archive, "policies.cedar", Garbage) = c.policies
    BY <2>2, <1>2 DEF BytesOf
  <2>7. BytesOf(archive, "schema.json", NoSchema) = c.schema
    <3>1. \A i \in 1..Len(archive.entries) : archive.entries[i].name = "schema.json" <=> i = 3
      BY <2>2, <1>2
    <3>2. 3 \in 1..Len(archive.entries) /\ archive.entries[3].bytes = c.schema
      BY <2>2, <1>2
    <3> QED
      BY <3>1, <3>2 DEF BytesOf
  <2>8. BytesOf(archive, "labels.json", Garbage) = c.labels
    BY <2>2, <1>2 DEF BytesOf
  <2>9. \A i \in 1..Len(archive.entries) : archive.entries[i].regular
    BY <2>2, <1>2
  <2> QED
    BY <1>1, <2>3, <2>4, <2>5, <2>6, <2>7, <2>8, <2>9
       DEF ManifestOf, SignatureOf, ContentOf, Orders
<1>7. CASE signature # NoSignature /\ c.schema = NoSchema
  <2>1. /\ Optional("signature.json", signature, NoSignature) = <<S>>
        /\ Optional("schema.json", c.schema, NoSchema) = <<>>
    BY <1>7, <1>4
  <2>2. archive.entries = <<M, S, P, L>>
    <3>1. (((<<M>> \o <<S>>) \o <<P>>) \o <<>>) \o <<L>> = <<M, S, P, L>>
      BY SignatureConcatenated, Zenon
    <3> QED
      BY <2>1, <1>3, <3>1, Zenon
  <2>3. Names(archive) = <<"manifest.json", "signature.json", "policies.cedar", "labels.json">>
    BY <2>2, <1>2 DEF Names
  <2>4. BytesOf(archive, "manifest.json", Garbage) = m
    BY <2>2, <1>2 DEF BytesOf
  <2>5. BytesOf(archive, "signature.json", NoSignature) = signature
    BY <1>7, <2>2, <1>2 DEF BytesOf
  <2>6. BytesOf(archive, "policies.cedar", Garbage) = c.policies
    BY <2>2, <1>2 DEF BytesOf
  <2>7. BytesOf(archive, "schema.json", NoSchema) = c.schema
    BY <1>7, <2>2, <1>2 DEF BytesOf
  <2>8. BytesOf(archive, "labels.json", Garbage) = c.labels
    BY <2>2, <1>2 DEF BytesOf
  <2>9. \A i \in 1..Len(archive.entries) : archive.entries[i].regular
    BY <2>2, <1>2
  <2> QED
    BY <1>1, <2>3, <2>4, <2>5, <2>6, <2>7, <2>8, <2>9
       DEF ManifestOf, SignatureOf, ContentOf, Orders
<1>8. CASE signature # NoSignature /\ c.schema # NoSchema
  <2>1. /\ Optional("signature.json", signature, NoSignature) = <<S>>
        /\ Optional("schema.json", c.schema, NoSchema) = <<A>>
    BY <1>8, <1>4
  <2>2. archive.entries = <<M, S, P, A, L>>
    <3>1. (((<<M>> \o <<S>>) \o <<P>>) \o <<A>>) \o <<L>> = <<M, S, P, A, L>>
      BY BothConcatenated, Zenon
    <3> QED
      BY <2>1, <1>3, <3>1, Zenon
  <2>3. Names(archive) = <<"manifest.json", "signature.json", "policies.cedar", "schema.json", "labels.json">>
    BY <2>2, <1>2 DEF Names
  <2>4. BytesOf(archive, "manifest.json", Garbage) = m
    BY <2>2, <1>2 DEF BytesOf
  <2>5. BytesOf(archive, "signature.json", NoSignature) = signature
    BY <1>8, <2>2, <1>2 DEF BytesOf
  <2>6. BytesOf(archive, "policies.cedar", Garbage) = c.policies
    BY <2>2, <1>2 DEF BytesOf
  <2>7. BytesOf(archive, "schema.json", NoSchema) = c.schema
    BY <1>8, <2>2, <1>2 DEF BytesOf
  <2>8. BytesOf(archive, "labels.json", Garbage) = c.labels
    BY <2>2, <1>2 DEF BytesOf
  <2>9. \A i \in 1..Len(archive.entries) : archive.entries[i].regular
    BY <2>2, <1>2
  <2> QED
    BY <1>1, <2>3, <2>4, <2>5, <2>6, <2>7, <2>8, <2>9
       DEF ManifestOf, SignatureOf, ContentOf, Orders
<1> QED
  BY <1>5, <1>6, <1>7, <1>8

(* A consumer of untouched output within the limits finds nothing wrong.   *)
LEMMA EmittedAccepted ==
  ASSUME NEW archive, NEW key \in Keys \cup {NoSignature}, Emitted(archive, key),
         WithinLimits(archive)
  PROVE  /\ key = NoSignature => Accepts(archive, "allow-unsigned")
         /\ key \in trust /\ key \in Keys => Accepts(archive, "required")
<1>1. PICK m \in Manifests, c \in AnyContent :
        /\ archive = Encode(m, IF key = NoSignature THEN NoSignature ELSE Sign(key, m), c)
        /\ m.artifacts = ArtifactsOf(c)
        /\ m.bundleId = BundleId(m.head, m.artifacts)
        /\ Deployable(m.head, c)
  BY DEF Emitted
<1>2. m # Garbage /\ \A k \in Keys : Sign(k, m) # NoSignature
  BY MarkersAssumption DEF Manifests
<1> DEFINE signature == IF key = NoSignature THEN NoSignature ELSE Sign(key, m)
<1>3. /\ ManifestOf(archive) = m
      /\ SignatureOf(archive) = signature
      /\ ContentOf(archive) = c
      /\ Names(archive) \in Orders
      /\ ~archive.trailing
      /\ \A i \in 1..Len(archive.entries) : archive.entries[i].regular
  BY <1>1, DecodeEncode
<1>4. Decodable(archive) /\ ContentAccepted(archive)
  BY <1>1, <1>2, <1>3 DEF Decodable, ContentAccepted, WithinLimits
<1>5. ASSUME key = NoSignature PROVE SignatureAccepted(archive, "allow-unsigned")
  BY <1>3, <1>5 DEF SignatureAccepted
<1>6. ASSUME key \in trust, key \in Keys PROVE SignatureAccepted(archive, "required")
  <2>1. key # NoSignature
    BY <1>6, MarkersAssumption
  <2>2. SignatureOf(archive) = Sign(key, m) /\ Sign(key, m) # NoSignature
    BY <1>2, <1>3, <1>6, <2>1
  <2> QED
    BY <1>3, <1>6, <2>2 DEF SignatureAccepted, Sign
<1> QED
  BY <1>4, <1>5, <1>6 DEF Accepts

(* A slot filled by the crate with a sound archive; the others are kept.   *)
LEMMA MadeStep ==
  ASSUME Inv, Marks, MadeIsEmitted, NEW slot \in Slots, NEW archive, NEW mark \in Keys \cup {NoSignature, NoArchive},
         mark # NoArchive => Emitted(archive, mark),
         shelf' = [shelf EXCEPT ![slot] = archive],
         made' = [made EXCEPT ![slot] = mark]
  PROVE  Marks' /\ MadeIsEmitted'
<1>1. Marks'
  BY DEF Marks
<1>2. ASSUME NEW s \in Slots, made'[s] # NoArchive PROVE Emitted(shelf'[s], made'[s])
  <2>1. CASE s = slot
    <3>1. shelf'[s] = archive /\ made'[s] = mark
      BY <2>1 DEF Marks, Inv, Shelved
    <3> QED
      BY <1>2, <3>1
  <2>2. CASE s # slot
    <3>1. shelf'[s] = shelf[s] /\ made'[s] = made[s]
      BY <2>2 DEF Marks, Inv, Shelved
    <3> QED
      BY <1>2, <3>1 DEF MadeIsEmitted
  <2> QED
    BY <2>1, <2>2
<1>3. MadeIsEmitted'
  BY <1>2 DEF MadeIsEmitted, Emitted, Manifests
<1> QED
  BY <1>1, <1>3

LEMMA MadeUnchanged ==
  ASSUME Marks, MadeIsEmitted, shelf' = shelf, made' = made PROVE Marks' /\ MadeIsEmitted'
  BY DEF Marks, MadeIsEmitted, Emitted, Manifests

LEMMA BuildEmits ==
  ASSUME OutputInv, NEW slot \in Slots, NEW head \in Heads, NEW content \in Contents
  PROVE  /\ Build(slot, head, content) => Marks' /\ MadeIsEmitted'
         /\ \A key \in Keys : BuildSigned(slot, head, content, key) => Marks' /\ MadeIsEmitted'
<1> DEFINE m == ManifestFor(head, content)
<1>1. m \in Manifests /\ content \in AnyContent
  BY ContentsTyped DEF Manifests
<1>2. m.head = head /\ m.artifacts = ArtifactsOf(content) /\ m.bundleId = BundleId(head, ArtifactsOf(content))
  BY ManifestForTyped
<1>3. ASSUME Build(slot, head, content) PROVE Marks' /\ MadeIsEmitted'
  <2>1. Emitted(Encode(m, NoSignature, content), NoSignature)
    BY <1>1, <1>2, <1>3 DEF Build, Emitted
  <2> HIDE DEF m
  <2> QED
    BY <1>3, <2>1, MadeStep DEF Build, OutputInv, m
<1>4. ASSUME NEW key \in Keys, BuildSigned(slot, head, content, key) PROVE Marks' /\ MadeIsEmitted'
  <2>1. Deployable(head, content) /\ key # NoSignature
    BY <1>4, MarkersAssumption DEF BuildSigned
  <2>2. /\ shelf' = [shelf EXCEPT ![slot] = Encode(m, Sign(key, m), content)]
        /\ made' = [made EXCEPT ![slot] = key]
    BY <1>4 DEF BuildSigned
  <2> HIDE DEF m
  <2>3. Emitted(Encode(m, Sign(key, m), content), key)
    BY <1>1, <1>2, <2>1 DEF Emitted
  <2> QED
    BY <2>2, <2>3, MadeStep DEF OutputInv
<1> QED
  BY <1>3, <1>4

LEMMA ResignEmits ==
  ASSUME OutputInv, NEW from \in Slots, NEW to \in Slots, NEW key \in Keys, Resign(from, to, key)
  PROVE  Marks' /\ MadeIsEmitted'
<1> DEFINE m == ManifestOf(shelf[from])
           c == ContentOf(shelf[from])
<1>1. shelf[from] \in Archives /\ Resignable(shelf[from])
  BY DEF Resign, OutputInv, Inv, Shelved
<1>2. m \in Manifests \cup {Garbage} /\ c \in AnyContent
  BY <1>1, Decoded DEF Archives, Resignable
<1>3. /\ m # Garbage /\ m.artifacts = ArtifactsOf(c) /\ Deployable(m.head, c)
      /\ m.bundleId = BundleId(m.head, m.artifacts)
  BY <1>1 DEF Resignable, ContentAccepted
<1>4. /\ shelf' = [shelf EXCEPT ![to] = Encode(m, Sign(key, m), c)]
      /\ made' = [made EXCEPT ![to] = key]
  BY DEF Resign
<1> HIDE DEF m, c
<1>5. Emitted(Encode(m, Sign(key, m), c), key)
  BY <1>2, <1>3, MarkersAssumption DEF Emitted
<1> QED
  BY <1>4, <1>5, MadeStep DEF OutputInv

LEMMA AlterUnmarks ==
  ASSUME OutputInv, NEW slot \in Slots, NEW archive, Alter(slot, archive)
  PROVE  Marks' /\ MadeIsEmitted'
  BY MadeStep DEF Alter, OutputInv

LEMMA OutputStep == OutputInv /\ [Next]_vars => OutputInv'
<1> SUFFICES ASSUME OutputInv, [Next]_vars PROVE Marks' /\ MadeIsEmitted'
  BY InvStep DEF OutputInv
<1>1. ASSUME NEW slot \in Slots, NEW head \in Heads, NEW content \in Contents,
             Build(slot, head, content) \/ \E key \in Keys : BuildSigned(slot, head, content, key)
      PROVE  Marks' /\ MadeIsEmitted'
  BY <1>1, BuildEmits
<1>2. ASSUME NEW from \in Slots, NEW to \in Slots, NEW key \in Keys, Resign(from, to, key)
      PROVE  Marks' /\ MadeIsEmitted'
  BY <1>2, ResignEmits
<1>3. ASSUME NEW slot \in Slots, NEW policy \in SignaturePolicies, Validate(slot, policy)
      PROVE  Marks' /\ MadeIsEmitted'
  BY <1>3, MadeUnchanged DEF Validate, OutputInv
<1>4. ASSUME NEW keys \in SUBSET Keys, Rotate(keys) PROVE Marks' /\ MadeIsEmitted'
  BY <1>4, MadeUnchanged DEF Rotate, OutputInv
<1>5. ASSUME NEW slot \in Slots, shelf[slot] # NoArchive,
             \/ \E i \in 1..Len(shelf[slot].entries) : AlterEntry(slot, i)
             \/ AppendBytes(slot)
      PROVE  Marks' /\ MadeIsEmitted'
  BY <1>5, AlterUnmarks DEF AlterEntry, AppendBytes
<1>6. CASE UNCHANGED vars
  BY <1>6, MadeUnchanged DEF vars, OutputInv
<1> QED
  BY <1>1, <1>2, <1>3, <1>4, <1>5, <1>6 DEF Next

(* What build and resign emit, in whatever layout the re-signed manifest   *)
(* was, a consumer that trusts the key accepts under `required`, and an    *)
(* unsigned build under `allow-unsigned`, if it is within the limits.      *)
THEOREM OutputAcceptedHolds == Spec => []OutputAccepted
<1>1. Init => OutputInv
  BY InvInit DEF Init, OutputInv, Marks, MadeIsEmitted
<1>2. OutputInv => OutputAccepted
  <2> SUFFICES ASSUME OutputInv, NEW s \in Slots, WithinLimits(shelf[s])
      PROVE  /\ made[s] \in Keys \cap trust => Accepts(shelf[s], "required")
             /\ made[s] = NoSignature => Accepts(shelf[s], "allow-unsigned")
    BY DEF OutputAccepted
  <2>1. CASE made[s] = NoArchive
    BY <2>1, MarkersAssumption
  <2>2. CASE made[s] # NoArchive
    <3>1. made[s] \in Keys \cup {NoSignature} /\ Emitted(shelf[s], made[s])
      BY <2>2 DEF OutputInv, Marks, MadeIsEmitted
    <3> QED
      BY <3>1, EmittedAccepted
  <2> QED
    BY <2>1, <2>2
<1> QED
  BY <1>1, <1>2, OutputStep, PTL DEF Spec
=============================================================================
