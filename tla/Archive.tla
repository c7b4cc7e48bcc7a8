------------------------------- MODULE Archive -------------------------------
(***************************************************************************)
(* Archives in circulation: archive.rs builds, re-signs and validates      *)
(* them, signing.rs signs and verifies.  Between those calls an archive is *)
(* a file that may lose, gain or exchange entries.  The signature covers   *)
(* the bytes of manifest.json alone; the artifacts are bound to it by the  *)
(* digests the manifest lists.                                             *)
(***************************************************************************)
EXTENDS Integers, Sequences, FiniteSets

CONSTANTS
    Slots,            \* places an archive can be kept
    Keys,             \* signing keys; a key id is the digest of the key: the key itself
    Heads,            \* manifests without bundle_id and artifacts
    Contents,         \* [policies, schema, labels] of blobs, schema may be NoSchema
    NoSchema,
    Digest(_),        \* size and SHA-256 of a blob
    BundleId(_, _),   \* compute_bundle_id: SHA-256 of head and artifacts, canonical
    Deployable(_, _), \* ContentValid of Validation.tla: head and content pass every check
    Compressed(_), Uncompressed(_),         \* sizes of an archive's encoding
    MaxCompressed, MaxUncompressed,         \* ArchiveLimits
    EditedManifests,  \* manifest bytes other than those the crate wrote
    EditedBlobs,      \* artifact bytes that may replace others
    Garbage,          \* bytes that do not decode to a manifest
    NoSignature, NoArchive, NoBundle,
    MaxSignatures,    \* bound: signatures made
    MaxAlterations    \* bound: alterations of archives in circulation

SignaturePolicies == {"allow-unsigned", "required"}
Blobs == (UNION {{c.policies, c.schema, c.labels} : c \in Contents}) \ {NoSchema}
AnyBlob == Blobs \cup EditedBlobs
AnyContent == [policies : AnyBlob, schema : AnyBlob \cup {NoSchema}, labels : AnyBlob]
AnyHead == Heads \cup {m.head : m \in EditedManifests}

ASSUME ContentsAssumption ==
    Contents \subseteq [policies : Blobs, schema : Blobs \cup {NoSchema}, labels : Blobs]
ASSUME NoneAssumption == NoSchema \notin AnyBlob

(* artifact_entries with sha256_hex: the artifact list of a manifest.      *)
ArtifactsOf(content) ==
    LET Record(name, bytes) == [path |-> name, digest |-> Digest(bytes)] IN
    IF content.schema = NoSchema
    THEN <<Record("policies.cedar", content.policies), Record("labels.json", content.labels)>>
    ELSE <<Record("policies.cedar", content.policies), Record("schema.json", content.schema),
           Record("labels.json", content.labels)>>

(* SHA-256 has no collisions among the blobs and among the manifests that  *)
(* go round.                                                               *)
ASSUME DigestInjective == \A c, d \in AnyBlob : Digest(c) = Digest(d) => c = d
ASSUME BundleIdInjective ==
    \A g, h \in AnyHead : \A c, d \in AnyContent :
        BundleId(g, ArtifactsOf(c)) = BundleId(h, ArtifactsOf(d)) =>
            g = h /\ ArtifactsOf(c) = ArtifactsOf(d)

VARIABLES
    shelf,        \* the archive in each slot
    trust,        \* the consumer's TrustStore
    validated,    \* the consumer's latest ValidatedBundle
    log,          \* history: what each key has signed, and with which artifacts
    made,         \* history: the key that signed the archive in a slot, NoSignature for an
                  \*   unsigned build, NoArchive when somebody altered it since
    alterations

vars == <<shelf, trust, validated, log, made, alterations>>

(***************************************************************************)
(* Encoding.                                                               *)
(***************************************************************************)
Entry(name, bytes) == [name |-> name, regular |-> TRUE, bytes |-> bytes]
Optional(name, bytes, none) == IF bytes = none THEN <<>> ELSE <<Entry(name, bytes)>>

(* encode_archive: the one order of entries that decode_archive takes.     *)
Encode(manifest, signature, content) ==
    [trailing |-> FALSE,
     entries |-> <<Entry("manifest.json", manifest)>>
                 \o Optional("signature.json", signature, NoSignature)
                 \o <<Entry("policies.cedar", content.policies)>>
                 \o Optional("schema.json", content.schema, NoSchema)
                 \o <<Entry("labels.json", content.labels)>>]

(* canonical_json_bytes of a finished manifest.                            *)
ManifestFor(head, content) ==
    [form |-> "canonical", head |-> head, artifacts |-> ArtifactsOf(content),
     bundleId |-> BundleId(head, ArtifactsOf(content))]

(* Fault: the manifest is signed in its canonical layout, not as it is.    *)
SignCanonical(key, manifest) ==
    [wellFormed |-> TRUE, keyId |-> key, by |-> key,
     over |-> [manifest EXCEPT !.form = "canonical"]]

(* SigningKey::sign_manifest: over the bytes of the manifest.              *)
Sign(key, manifest) == [wellFormed |-> TRUE, keyId |-> key, by |-> key, over |-> manifest]

(* None of the names for what is not there is a thing that may be there.   *)
ASSUME MarkersAssumption ==
    /\ {NoSignature, NoArchive} \cap Keys = {} /\ NoSignature # NoArchive
    /\ \A m \in {ManifestFor(h, c) : h \in Heads, c \in Contents} \cup EditedManifests :
          m # Garbage /\ \A key \in Keys : Sign(key, m) # NoSignature

(***************************************************************************)
(* decode_archive.                                                         *)
(***************************************************************************)
Orders ==
    {<<"manifest.json", "policies.cedar", "labels.json">>,
     <<"manifest.json", "policies.cedar", "schema.json", "labels.json">>,
     <<"manifest.json", "signature.json", "policies.cedar", "labels.json">>,
     <<"manifest.json", "signature.json", "policies.cedar", "schema.json", "labels.json">>}

Names(archive) == [i \in 1..Len(archive.entries) |-> archive.entries[i].name]

Decodable(archive) ==
    /\ Compressed(archive) <= MaxCompressed
    /\ Uncompressed(archive) <= MaxUncompressed
    /\ ~archive.trailing
    /\ \A i \in 1..Len(archive.entries) : archive.entries[i].regular
    /\ Names(archive) \in Orders

BytesOf(archive, name, none) ==
    IF \E i \in 1..Len(archive.entries) : archive.entries[i].name = name
    THEN archive.entries[CHOOSE i \in 1..Len(archive.entries) :
                            archive.entries[i].name = name].bytes
    ELSE none

ManifestOf(archive) == BytesOf(archive, "manifest.json", Garbage)
SignatureOf(archive) == BytesOf(archive, "signature.json", NoSignature)
ContentOf(archive) ==
    [policies |-> BytesOf(archive, "policies.cedar", Garbage),
     schema   |-> BytesOf(archive, "schema.json", NoSchema),
     labels   |-> BytesOf(archive, "labels.json", Garbage)]

(***************************************************************************)
(* validate_decoded.                                                       *)
(***************************************************************************)
(* Fault: any signature of a trusted key will do.                          *)
SignerAccepted(archive, policy) ==
    LET signature == SignatureOf(archive) IN
    IF signature = NoSignature THEN policy = "allow-unsigned"
    ELSE signature.wellFormed /\ signature.keyId \in trust /\ signature.by = signature.keyId

(* A signature that is there is verified, whatever the policy says.        *)
SignatureAccepted(archive, policy) ==
    LET signature == SignatureOf(archive) IN
    IF signature = NoSignature THEN policy = "allow-unsigned"
    ELSE /\ signature.wellFormed
         /\ signature.keyId \in trust
         /\ signature.by = signature.keyId
         /\ signature.over = ManifestOf(archive)

(* resign only wants the signature it replaces to be well formed.          *)
SignatureTolerated(archive) ==
    SignatureOf(archive) # NoSignature => SignatureOf(archive).wellFormed

(* Fault: the artifacts are not compared with the manifest's digests.      *)
ContentAcceptedUndigested(archive) ==
    LET manifest == ManifestOf(archive) IN
    /\ manifest # Garbage
    /\ manifest.bundleId = BundleId(manifest.head, manifest.artifacts)
    /\ Deployable(manifest.head, ContentOf(archive))

ContentAccepted(archive) ==
    LET manifest == ManifestOf(archive)
        content == ContentOf(archive)
    IN /\ manifest # Garbage
       /\ manifest.artifacts = ArtifactsOf(content)
       /\ manifest.bundleId = BundleId(manifest.head, manifest.artifacts)
       /\ Deployable(manifest.head, content)

Accepts(archive, policy) ==
    Decodable(archive) /\ SignatureAccepted(archive, policy) /\ ContentAccepted(archive)

Resignable(archive) ==
    Decodable(archive) /\ SignatureTolerated(archive) /\ ContentAccepted(archive)

(***************************************************************************)
(* Operations.                                                             *)
(***************************************************************************)
Init ==
    /\ shelf = [s \in Slots |-> NoArchive]
    /\ trust = {}
    /\ validated = NoBundle
    /\ log = {}
    /\ made = [s \in Slots |-> NoArchive]
    /\ alterations = 0

(* BundleArchive::build, from parts that compile_manifest has accepted.    *)
Build(slot, head, content) ==
    /\ Deployable(head, content)
    /\ shelf' = [shelf EXCEPT ![slot] =
                    Encode(ManifestFor(head, content), NoSignature, content)]
    /\ made' = [made EXCEPT ![slot] = NoSignature]
    /\ UNCHANGED <<trust, validated, log, alterations>>

Signed(key, manifest, content) == [key |-> key, manifest |-> manifest, content |-> content]

BuildSigned(slot, head, content, key) ==
    LET manifest == ManifestFor(head, content) IN
    /\ Deployable(head, content)
    /\ Cardinality(log) < MaxSignatures
    /\ shelf' = [shelf EXCEPT ![slot] = Encode(manifest, Sign(key, manifest), content)]
    /\ log' = log \cup {Signed(key, manifest, content)}
    /\ made' = [made EXCEPT ![slot] = key]
    /\ UNCHANGED <<trust, validated, alterations>>

(* BundleArchive::resign: the manifest bytes and the artifacts stay as     *)
(* they are; a failed check leaves nothing behind.                         *)
Resign(from, to, key) ==
    LET archive == shelf[from] IN
    /\ archive # NoArchive
    /\ Resignable(archive)
    /\ Cardinality(log) < MaxSignatures
    /\ shelf' = [shelf EXCEPT ![to] =
                    Encode(ManifestOf(archive), Sign(key, ManifestOf(archive)), ContentOf(archive))]
    /\ log' = log \cup {Signed(key, ManifestOf(archive), ContentOf(archive))}
    /\ made' = [made EXCEPT ![to] = key]
    /\ UNCHANGED <<trust, validated, alterations>>

(* BundleArchive::validate under the trust store of the moment.            *)
Validate(slot, policy) ==
    LET archive == shelf[slot]
        signature == SignatureOf(archive)
    IN /\ archive # NoArchive
       /\ Accepts(archive, policy)
       /\ validated' = [bundleId |-> ManifestOf(archive).bundleId,
                        head |-> ManifestOf(archive).head,
                        content |-> ContentOf(archive),
                        signers |-> IF signature = NoSignature THEN {} ELSE {signature.keyId}]
       /\ UNCHANGED <<shelf, trust, log, made, alterations>>

(* TrustStore::insert, or a new store without a retired key.               *)
Rotate(keys) ==
    /\ keys # trust
    /\ trust' = keys
    /\ UNCHANGED <<shelf, validated, log, made, alterations>>

(***************************************************************************)
(* What may become of an archive file: the rewrites of tests/bundle.rs.    *)
(* A signature found in it was made by the key it carries.                 *)
(***************************************************************************)
KnownSignatures ==
    UNION {[wellFormed : BOOLEAN, keyId : Keys, by : {l.key}, over : {l.manifest}] : l \in log}

BytesFor(name) ==
    CASE name = "manifest.json"  -> EditedManifests \cup {Garbage}
      [] name = "signature.json" -> KnownSignatures
      [] OTHER                   -> EditedBlobs

Replaced(archive, i, entry) == [archive EXCEPT !.entries[i] = entry]
WithoutEntry(archive, i) ==
    [archive EXCEPT !.entries = SubSeq(@, 1, i - 1) \o SubSeq(@, i + 1, Len(@))]
WithEntry(archive, i, entry) ==
    [archive EXCEPT !.entries = SubSeq(@, 1, i - 1) \o <<entry>> \o SubSeq(@, i, Len(@))]

Alter(slot, archive) ==
    /\ alterations < MaxAlterations
    /\ shelf[slot] # NoArchive
    /\ archive # shelf[slot]
    /\ shelf' = [shelf EXCEPT ![slot] = archive]
    /\ made' = [made EXCEPT ![slot] = NoArchive]
    /\ alterations' = alterations + 1
    /\ UNCHANGED <<trust, validated, log>>

AlterEntry(slot, i) ==
    LET archive == shelf[slot]
        entry == archive.entries[i]
    IN \/ \E bytes \in BytesFor(entry.name) :
            Alter(slot, Replaced(archive, i, [entry EXCEPT !.bytes = bytes]))
       \/ Alter(slot, Replaced(archive, i, [entry EXCEPT !.regular = FALSE]))
       \/ Alter(slot, WithoutEntry(archive, i))
       \/ Alter(slot, WithEntry(archive, i, entry))
       \/ \E signature \in KnownSignatures :
            Alter(slot, WithEntry(archive, i, Entry("signature.json", signature)))

AppendBytes(slot) == Alter(slot, [shelf[slot] EXCEPT !.trailing = TRUE])

Next ==
    \/ \E slot \in Slots, head \in Heads, content \in Contents :
         Build(slot, head, content) \/ \E key \in Keys : BuildSigned(slot, head, content, key)
    \/ \E from, to \in Slots, key \in Keys : Resign(from, to, key)
    \/ \E slot \in Slots, policy \in SignaturePolicies : Validate(slot, policy)
    \/ \E keys \in SUBSET Keys : Rotate(keys)
    \/ \E slot \in {s \in Slots : shelf[s] # NoArchive} :
         \/ \E i \in 1..Len(shelf[slot].entries) : AlterEntry(slot, i)
         \/ AppendBytes(slot)

Spec == Init /\ [][Next]_vars

(***************************************************************************)
(* Properties.                                                             *)
(***************************************************************************)
(* The chain signature -> manifest bytes -> digests -> artifacts holds end *)
(* to end: what a consumer accepts as signed was signed, as a whole, by a  *)
(* key it trusts at that moment, and `required` never yields an unsigned   *)
(* bundle.                                                                 *)
Vouched(key, bundle) ==
    \E l \in log : /\ l.key = key
                  /\ l.manifest.head = bundle.head
                  /\ l.manifest.bundleId = bundle.bundleId
                  /\ l.content = bundle.content

Authentic ==
    [][\A slot \in Slots, policy \in SignaturePolicies : Validate(slot, policy) =>
          /\ policy = "required" => validated'.signers # {}
          /\ \A key \in validated'.signers : key \in trust /\ Vouched(key, validated')]_vars

(* build and resign put a key only under content that passes every check,  *)
(* with the artifacts that the signed manifest lists.                      *)
SignedIsSound ==
    \A l \in log : /\ l.manifest.artifacts = ArtifactsOf(l.content)
                   /\ Deployable(l.manifest.head, l.content)

(* A bundle id names one bundle: two accepted archives that show the same  *)
(* id, one after the other and whatever happened in between, deploy the    *)
(* same modules and the same artifacts, re-signed or not.                  *)
BundleIdIdentifies ==
    [][validated # NoBundle /\ validated' # NoBundle /\ validated'.bundleId = validated.bundleId =>
          validated'.head = validated.head /\ validated'.content = validated.content]_vars

WithinLimits(archive) ==
    Compressed(archive) <= MaxCompressed /\ Uncompressed(archive) <= MaxUncompressed

(* What build and resign emit, a consumer that trusts the key accepts      *)
(* (re-signing a manifest in another JSON layout included), as long as the *)
(* signature entry has not pushed it over the limits.                      *)
OutputAccepted ==
    \A s \in Slots :
        /\ made[s] \in Keys \cap trust /\ WithinLimits(shelf[s]) => Accepts(shelf[s], "required")
        /\ made[s] = NoSignature /\ WithinLimits(shelf[s]) => Accepts(shelf[s], "allow-unsigned")
=============================================================================
