------------------------------ MODULE KeyLoading ------------------------------
(***************************************************************************)
(* How `build` and `sign` come by a signing key: load_signing_key of       *)
(* main.rs over read_private_key of signing.rs.  The key file is opened,   *)
(* judged and read in separate calls, and all of it again after a prompt   *)
(* for the password, while its owner replaces the file, rewrites it or     *)
(* changes its mode.  A path leads to an inode; a handle keeps the inode.  *)
(***************************************************************************)
EXTENDS Integers, Sequences

CONSTANTS
    Inodes,
    Documents,      \* [label, key, password, size]: what a key file may hold
    Disks,          \* [path, inodes]: how a load may find the disk
    Options,        \* byte strings of --signing-key-password-file, NoOption, Unreadable, Piped
    Environments,   \* byte strings of the variable, NoVariable, NotUnicode
    Typed,          \* what may be entered at the prompt
    NoInode, NoDocument, NoOption, Unreadable, NoVariable, NotUnicode,
    Piped,          \* the password file is a FIFO or a terminal: it waits for its writer
    NoPassword,     \* nothing configured, nothing typed
    NotEd25519,     \* a key the decoder refuses
    MaxKeyBytes,    \* MAX_PRIVATE_KEY_BYTES
    MaxPassword,    \* MAX_SIGNING_KEY_PASSWORD_BYTES
    MaxEdits        \* bound: steps of the owner

ASSUME LimitsAssumption == MaxKeyBytes \in Nat /\ MaxPassword \in Nat /\ MaxEdits \in Nat
ASSUME SecretsAssumption ==
    /\ NoPassword \notin Typed \cup Environments
    /\ NoInode \notin Inodes /\ NoDocument \notin Documents
NoBytes == {NoOption, Unreadable, Piped}
ASSUME BytesAssumption ==
    /\ \A bytes \in Options \ NoBytes : bytes \in Seq(Nat)
    /\ \A d \in Documents : d.password \in Seq(Nat)
ASSUME SizesAssumption == \A d \in Documents : d.size \in Nat

Files == [kind : {"regular", "directory", "fifo"}, private : BOOLEAN, document : Documents]
ASSUME DisksAssumption ==
    \A disk \in Disks : disk.path \in Inodes \cup {NoInode} /\ disk.inodes \in [Inodes -> Files]

VARIABLES
    path,        \* the inode at --signing-key
    inodes,      \* [inode -> file]
    option,      \* the password file, or what its writer has sent
    variable,    \* the environment variable
    pc,
    password,    \* configured or typed
    prompted,
    handle,      \* the inode of the File that is open or being opened
    document,    \* what was read last
    outcome,     \* "loaded", or the BundleError of the load
    wasPrivate,  \* history: the open inode has been private since it was opened
    edits

vars == <<path, inodes, option, variable, pc, password, prompted, handle, document,
          outcome, wasPrivate, edits>>
given == <<option, variable>>
storage == <<path, inodes, edits>>

Init ==
    /\ \E disk \in Disks : path = disk.path /\ inodes = disk.inodes
    /\ option \in Options
    /\ variable \in Environments
    /\ pc = "password" /\ password = NoPassword /\ prompted = FALSE
    /\ handle = NoInode /\ document = NoDocument
    /\ outcome = "none" /\ wasPrivate = FALSE /\ edits = 0

End(result) == pc' = "done" /\ outcome' = result
Continue(next) == pc' = next /\ UNCHANGED outcome

(***************************************************************************)
(* The password.                                                           *)
(***************************************************************************)
LF == 10
CR == 13
EndsWith(bytes, byte) == bytes # <<>> /\ bytes[Len(bytes)] = byte
Shorter(bytes) == SubSeq(bytes, 1, Len(bytes) - 1)

(* Fault: line endings are taken off as often as there are.                *)
TrimAll(bytes) ==
    LET kept == {n \in 0..Len(bytes) : \A k \in (n + 1)..Len(bytes) : bytes[k] \in {LF, CR}}
    IN  SubSeq(bytes, 1, CHOOSE n \in kept : \A m \in kept : n <= m)

(* trim_line_ending *)
Trim(bytes) ==
    IF ~EndsWith(bytes, LF) THEN bytes
    ELSE IF EndsWith(Shorter(bytes), CR) THEN Shorter(Shorter(bytes))
    ELSE Shorter(bytes)

ASSUME TrimAssumption == \A bytes \in Options \ NoBytes : Trim(bytes) # NoPassword

FromVariable ==
    \/ /\ variable = NotUnicode
       /\ End("key") /\ UNCHANGED password
    \/ /\ variable # NotUnicode
       /\ password' = IF variable = NoVariable THEN NoPassword ELSE variable
       /\ Continue("open")

(* Fault: a password file that cannot be read counts as none.              *)
FromOptionOrVariable ==
    \/ option = Unreadable /\ FromVariable
    \/ /\ option # Unreadable
       /\ IF Len(option) > MaxPassword THEN End("key") /\ UNCHANGED password
          ELSE Continue("open") /\ password' = Trim(option)

FromOption ==
    \/ /\ option = Unreadable
       /\ End("io") /\ UNCHANGED password
    \/ /\ option # Unreadable
       /\ Len(option) > MaxPassword
       /\ End("key") /\ UNCHANGED password
    \/ /\ option # Unreadable
       /\ Len(option) <= MaxPassword
       /\ password' = Trim(option)
       /\ Continue("open")

(* configured_signing_key_password *)
Configure ==
    /\ pc = "password" /\ option # Piped
    /\ option # NoOption => FromOption
    /\ option = NoOption => FromVariable
    /\ UNCHANGED <<storage, given, prompted, handle, document, wasPrivate>>

(* Whoever is at the other end of the password file: opening and reading   *)
(* it waits, for it may be of any kind.                                    *)
Supply(bytes) ==
    /\ pc = "password" /\ option = Piped
    /\ option' = bytes
    /\ UNCHANGED <<storage, variable, pc, password, prompted, handle, document, outcome, wasPrivate>>

(***************************************************************************)
(* The key file.                                                           *)
(***************************************************************************)
(* File::open looks the path up, once, and of a FIFO waits for a writer.   *)
Open ==
    /\ pc = "open"
    /\ \/ /\ path = NoInode
          /\ End("io")
          /\ UNCHANGED <<handle, wasPrivate>>
       \/ /\ path # NoInode
          /\ handle' = path
          /\ wasPrivate' = inodes[path].private
          /\ Continue(IF inodes[path].kind = "fifo" THEN "opening" ELSE "metadata")
    /\ UNCHANGED <<storage, given, password, prompted, document>>

(* Somebody opens the FIFO to write, wherever the path has gone since.     *)
WriterComes ==
    /\ pc = "opening"
    /\ wasPrivate' = inodes[handle].private
    /\ Continue("metadata")
    /\ UNCHANGED <<storage, given, password, prompted, handle, document>>

(* Fault: fs::metadata(path) in the place of file.metadata().              *)
InspectedByPath == IF path = NoInode THEN handle ELSE path

Inspected == handle

(* The checks of the metadata in read_private_key. *)
Metadata ==
    /\ pc = "metadata"
    /\ LET file == inodes[Inspected] IN
       \/ /\ file.kind # "regular" \/ ~file.private \/ file.document.size > MaxKeyBytes
          /\ End("key")
       \/ /\ file.kind = "regular" /\ file.private /\ file.document.size <= MaxKeyBytes
          /\ Continue("read")
    /\ UNCHANGED <<storage, given, password, prompted, handle, document, wasPrivate>>

(* Fault: what takes a configured password is used after the prompt, too.  *)
DecoderOfEither == IF password = NoPassword THEN "plain" ELSE "either"

(* Fault: the first decoder is called again.                               *)
DecoderAgain == IF password = NoPassword \/ prompted THEN "plain" ELSE "either"

(* from_pkcs8_pem, from_pkcs8_encrypted_pem, from_pkcs8_pem_with_password. *)
Decoder ==
    IF prompted THEN "encrypted" ELSE IF password = NoPassword THEN "plain" ELSE "either"

(* from_pkcs8_document, from_pkcs8_encrypted_document                      *)
Decoded(d) == End(IF d.key = NotEd25519 THEN "key" ELSE "loaded")

(* Fault: a wrong password is asked for again.                             *)
RefusePasswordAsking == Continue("prompt")

RefusePassword == End("key")

Parse(d) ==
    \/ /\ d.label = "plain" /\ Decoder # "encrypted"
       /\ Decoded(d)
    \/ /\ d.label = "plain" /\ Decoder = "encrypted"
       /\ End("key")
    \/ /\ d.label = "encrypted" /\ Decoder = "plain"
       /\ IF prompted THEN End("password_required") ELSE Continue("prompt")
    \/ /\ d.label = "encrypted" /\ Decoder # "plain"
       /\ IF d.password = password THEN Decoded(d) ELSE RefusePassword
    \/ /\ d.label \in {"other", "garbled"}
       /\ End("key")

(* The rest of read_private_key and parse_private_key_pem; the file may    *)
(* have grown since its metadata was taken.                                *)
Read ==
    /\ pc = "read"
    /\ LET d == inodes[handle].document IN
       /\ document' = d
       /\ \/ d.label = "binary" /\ End("io")
          \/ d.label # "binary" /\ d.size > MaxKeyBytes /\ End("key")
          \/ d.label # "binary" /\ d.size <= MaxKeyBytes /\ Parse(d)
    /\ UNCHANGED <<storage, given, password, prompted, handle, wasPrivate>>

(* rpassword::prompt_password, answered or not (no terminal).              *)
Answer(typed) ==
    /\ pc = "prompt"
    /\ password' = typed
    /\ prompted' = TRUE
    /\ Continue("open")
    /\ UNCHANGED <<storage, given, handle, document, wasPrivate>>

NoAnswer ==
    /\ pc = "prompt"
    /\ End("key")
    /\ UNCHANGED <<storage, given, password, prompted, handle, document, wasPrivate>>

Load == Configure \/ Open \/ Metadata \/ Read

(***************************************************************************)
(* The owner of the key file.                                              *)
(***************************************************************************)
Edit ==
    /\ pc # "done"
    /\ edits < MaxEdits
    /\ edits' = edits + 1
    /\ UNCHANGED <<given, pc, password, prompted, handle, document, outcome>>

Move(inode) ==
    /\ Edit
    /\ path' = inode
    /\ UNCHANGED <<inodes, wasPrivate>>

Rewrite(inode, d) ==
    /\ Edit
    /\ inodes' = [inodes EXCEPT ![inode].document = d]
    /\ UNCHANGED <<path, wasPrivate>>

ChangeMode(inode) ==
    /\ Edit
    /\ inodes' = [inodes EXCEPT ![inode].private = ~@]
    /\ wasPrivate' = (wasPrivate \/ handle = inode)
    /\ UNCHANGED path

Next ==
    \/ Load
    \/ \E typed \in Typed : Answer(typed)
    \/ NoAnswer
    \/ WriterComes
    \/ \E bytes \in Options \ {NoOption, Piped} : Supply(bytes)
    \/ \E inode \in Inodes \cup {NoInode} : Move(inode)
    \/ \E inode \in Inodes : ChangeMode(inode) \/ \E d \in Documents : Rewrite(inode, d)

(* The program goes on by itself; nobody has to answer a prompt or write   *)
(* into a FIFO.                                                            *)
Spec == Init /\ [][Next]_vars /\ WF_vars(Load)

(***************************************************************************)
(* Properties.                                                             *)
(***************************************************************************)
Loaded == outcome = "loaded"

(* The variables have their types; that a password is required is never    *)
(* the answer to somebody who has just typed one.                          *)
TypeOK ==
    /\ path \in Inodes \cup {NoInode}
    /\ inodes \in [Inodes -> Files]
    /\ pc \in {"password", "open", "opening", "metadata", "read", "prompt", "done"}
    /\ handle \in Inodes \cup {NoInode}
    /\ document \in Documents \cup {NoDocument}
    /\ outcome \in {"none", "loaded", "io", "key"}
    /\ pc = "done" <=> outcome # "none"

(* The bytes without a single trailing CRLF or LF.                         *)
IsPasswordOf(secret, bytes) ==
    \/ bytes = secret \o <<CR, LF>>
    \/ bytes = secret \o <<LF>> /\ ~EndsWith(secret, CR)
    \/ bytes = secret /\ ~EndsWith(secret, LF)

(* The first source that is there settles the password: neither an empty,  *)
(* an unreadable nor a wrong one gives way to the next.                    *)
Unlocks(secret) ==
    IF option \notin NoBytes THEN IsPasswordOf(secret, option)
    ELSE IF option = NoOption /\ variable \notin {NoVariable, NotUnicode} THEN secret = variable
    ELSE prompted /\ secret = password

FirstSource ==
    Loaded /\ document.label = "encrypted" => Unlocks(document.password)

(* A key comes from a file that only its owner could read at some moment   *)
(* while it was open, however the path was turned in the meantime.         *)
KeyWasPrivate == Loaded => wasPrivate /\ inodes[handle].kind = "regular"

(* Who has typed a password gets a key that it protected, or none: not one *)
(* that lay open at the path by the time it was read again.                *)
NoDowngrade == prompted /\ Loaded => document.label = "encrypted" /\ document.password = password

(* Of a file nobody touches, the load finds exactly the key that the file, *)
(* the configured sources and the answer to the prompt allow.              *)
Loadable(file) ==
    /\ file.kind = "regular" /\ file.private
    /\ file.document.size <= MaxKeyBytes
    /\ file.document.key # NotEd25519
    /\ \/ file.document.label = "plain"
       \/ file.document.label = "encrypted" /\ Unlocks(file.document.password)

Configurable ==
    IF option = NoOption THEN variable # NotUnicode
    ELSE option \notin {Unreadable, Piped} /\ Len(option) <= MaxPassword

LoadExact ==
    pc = "done" /\ edits = 0 =>
        (Loaded <=> Configurable /\ path # NoInode /\ Loadable(inodes[path]))

(* A load ends, or waits for ever in one of three places: at the prompt,   *)
(* in the open of a key file that was a FIFO when its path was looked up,  *)
(* or at a password file that somebody has to write.  There is no second   *)
(* prompt.                                                                 *)
LoadSettles ==
    <>[](pc \in {"prompt", "opening", "done"} \/ (pc = "password" /\ option = Piped))
=============================================================================
