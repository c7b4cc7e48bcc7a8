\* One archive file, two keys, up to two alterations between any operations.
SPECIFICATION Spec
CONSTANTS
    s1 = s1
    k1 = k1
    k2 = k2
    h1 = h1
    h2 = h2
    pol1 = pol1
    pol2 = pol2
    sch = sch
    lab = lab
    NoSchema = NoSchema
    Garbage = Garbage
    NoSignature = NoSignature
    NoArchive = NoArchive
    NoBundle = NoBundle
    Slots = {s1}
    Keys = {k1, k2}
    Heads = {h1, h2}
    Contents <- MCContents
    Digest <- MCDigest
    BundleId <- MCBundleId
    Deployable <- MCDeployable
    Compressed <- MCCompressed
    Uncompressed <- MCUncompressed
    MaxCompressed = 2
    MaxUncompressed = 6
    EditedManifests <- MCEditedManifests
    EditedBlobs <- MCEditedBlobs
    MaxSignatures = 2
    MaxAlterations = 2
INVARIANTS
    SignedIsSound
    OutputAccepted
PROPERTIES
    Authentic
    BundleIdIdentifies
