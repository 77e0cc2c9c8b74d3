----------------------------- MODULE Embeddings -----------------------------
(***************************************************************************)
(* Where embeddings come from and how they are labelled: the directory of  *)
(* a local model and its manifest, which `bytebox models install` replaces *)
(* (embeddings/model_management.py, manifests.py), the provider that loads *)
(* it once and reads the manifest again for every call                     *)
(* (fastembed_provider.py), the policy of a write whose embedding does not *)
(* fit (service.py), and `bytebox database reembed` (database_ops.py).     *)
(*                                                                         *)
(* The service and reembed exclude each other by the database lock (module *)
(* ProcessLock); nothing excludes an installation, which goes file by file *)
(* and may stop between any two.                                           *)
(*                                                                         *)
(* A revision is a whole model, and the one that a file belongs to.  A     *)
(* version is what manifests and embeddings call it by: the name of a      *)
(* revision or a digest.                                                   *)
(***************************************************************************)
EXTENDS Naturals, FiniteSets

CONSTANTS
    Revisions,      \* the revisions of the model that exist
    DimensionOf,    \* the length of the vectors that each computes
    Weights,        \* the files that a model is made of
    Before,         \* the files that lists name before each, by their paths
    Versions,       \* names of revisions, and digests
    RevisionOf,     \* the revision that a version stands for, or None
    Sources,        \* what can be installed
    Model,          \* settings.embeddings.model
    OtherModel,     \* another name of the model, in some manifest
    Revision,       \* settings.embeddings.model_revision or model_version
    Digest,         \* settings.embeddings.model_digest
    Dimension,      \* settings.embeddings.dim, that of the vector index
    Settings,       \* dimension_mismatch, require_manifest, require_checksums
    Supplied,       \* embeddings that callers bring along
    Records,        \* the memories
    BatchSize,      \* settings.embeddings.batch_size
    RecursionLimit, \* how often a write can be embedded before Python gives up
    None,           \* no value, no file, no embedding
    Torn,           \* a manifest, or a checksum in one, that is cut short
    Part,           \* a version that is cut short
    Unlisted,       \* of a file that a manifest does not list
    Unchecked,      \* of a file that it lists without a checksum
    MaxInstalls,    \* bound: installations
    MaxWrites,      \* bound: writes
    MaxFaults,      \* bound: crashes
    MaxEvents       \* bound: all of them together

Policies == {"error", "quarantine", "reembed"}

(* For a file that it lists a manifest has the checksum of one revision's. *)
Manifest == [model: {Model, OtherModel}, revision: Versions \cup {None},
             digest: Versions \cup {None}, dim: (Nat \ {0}) \cup {None},
             sums: [Weights -> Revisions \cup {Unlisted, Unchecked, Torn}]]

(* What is under model_path; a model file that is written in part counts   *)
(* as missing.                                                             *)
Directory == [weights: [Weights -> Revisions \cup {None}],
              manifest: Manifest \cup {None, Torn}]

(* `by` are the files that computed it (None: the caller did), and         *)
(* `vouched` tells whether a manifest spoke for all of them.               *)
Vector == [by: [Weights -> Revisions \cup {None}] \cup {None},
           vouched: BOOLEAN, model: {Model, OtherModel, None},
           version: Versions \cup {None}, dim: Nat]

ASSUME EmbeddingsAssumption ==
    /\ DimensionOf \in [Revisions -> Nat \ {0}]
    /\ Before \in [Weights -> SUBSET Weights]
    /\ RevisionOf \in [Versions -> Revisions \cup {None}]
    /\ Part \in Versions /\ RevisionOf[Part] = None
    /\ Sources \subseteq Directory /\ \A s \in Sources : s.manifest # Torn
    /\ Settings \subseteq [policy: Policies, requireManifest: BOOLEAN,
                          requireChecksums: BOOLEAN]
    /\ {Revision, Digest} \subseteq Versions \cup {None}
    /\ Dimension \in Nat \ {0}
    /\ Supplied \subseteq Vector
    /\ \A v \in Supplied : v.by = None /\ ~v.vouched
    /\ BatchSize \in Nat \ {0} /\ RecursionLimit \in Nat
    /\ "manifest" \notin Weights
    /\ {None, Torn, Unlisted, Unchecked} \cap Revisions = {}
    /\ None \notin Versions /\ None \notin Nat
    /\ {None, Torn} \cap (Manifest \cup Directory \cup Vector) = {}
    /\ None \notin {Torn, Unlisted, Unchecked}
    /\ Torn \notin {Unlisted, Unchecked} /\ Unlisted # Unchecked

VARIABLES
    settings,   \* the settings in use
    directory,  \* the model directory
    installer,  \* where the installation is
    provider,   \* the process that embeds, and the model it has loaded
    writer,     \* the write under way in the service
    reembed,    \* the re-embedding under way
    stored,     \* the embedding of each memory
    used,       \* how often each bound was used
    raced       \* history: a model was installed under a running process

embeddingVars == <<settings, directory, installer, provider, writer, reembed,
                   stored, used, raced>>

NoFiles == [weights |-> [w \in Weights |-> None], manifest |-> None]

Resting == [pc |-> "idle"]

Whole(source, manifest) == [source EXCEPT !.manifest = manifest]

OrElse(x, y) == IF x = None THEN y ELSE x

(* A manifest that has the required fields only. *)
Bare(model) ==
    [model |-> model, revision |-> None, digest |-> None, dim |-> None,
     sums |-> [w \in Weights |-> Unlisted]]

(* build_model_manifest_from_directory, with the configured identity. *)
BuiltManifest(weights) ==
    [model |-> Model, revision |-> Revision, digest |-> Digest,
     dim |-> Dimension,
     sums |-> [w \in Weights |-> IF weights[w] = None THEN Unlisted
                                                     ELSE weights[w]]]

CutVersion(version) == {None} \cup IF version = None THEN {} ELSE {Part, version}

CutDimension(dim) ==
    {None} \cup IF dim = None THEN {}
               ELSE {d \in {dim, dim \div 10, dim \div 100} : d > 0}

(* The first files of the list, the last of them without its checksum, or  *)
(* with a part of it or of its path, which no file has.                    *)
CutList(sums) ==
    {[w \in Weights |-> IF w \in Before[last] THEN sums[w]
                        ELSE IF w = last THEN entry ELSE Unlisted] :
       last \in {w \in Weights : sums[w] # Unlisted},
       entry \in {Unlisted, Unchecked, Torn}}

(* What there is of a manifest that is written in part: nothing that can   *)
(* be read, or whatever fields come first in the order of                  *)
(* write_model_manifest, the last of which may be cut short.               *)
Parts(manifest) ==
    LET named   == Bare(manifest.model)
        revised == [named EXCEPT !.revision = manifest.revision]
        sized   == [revised EXCEPT !.dim = manifest.dim]
    IN  {Torn, Bare(OtherModel)}
          \cup {[named EXCEPT !.revision = v] : v \in CutVersion(manifest.revision)}
          \cup {[revised EXCEPT !.dim = d] : d \in CutDimension(manifest.dim)}
          \cup {[sized EXCEPT !.sums = list] : list \in CutList(manifest.sums)}
          \cup {[manifest EXCEPT !.digest = v] : v \in CutVersion(manifest.digest)}

Installed(source) ==
    IF source.manifest = None
    THEN Whole(source, BuiltManifest(source.weights)) ELSE source

EmbeddingInit ==
    /\ settings \in Settings
    /\ directory \in {None} \cup {Installed(s) : s \in Sources}
    /\ installer = Resting
    /\ provider = [process |-> "none", verified |-> FALSE, runtime |-> None]
    /\ writer = Resting
    /\ reembed = Resting
    /\ stored = [m \in Records |-> None]
    /\ used = [installs |-> 0, writes |-> 0, faults |-> 0]
    /\ raced = FALSE

-----------------------------------------------------------------------------
(* install_model                                                           *)

Use(bound) ==
    /\ used.installs + used.writes + used.faults < MaxEvents
    /\ used' = [used EXCEPT ![bound] = @ + 1]

Under(process) == provider.process = process

(* Every step of an installation may happen under a running process. *)
Race == raced' = (raced \/ ~Under("none"))

BeginInstall(source, force) ==
    /\ installer = Resting /\ used.installs < MaxInstalls /\ Use("installs")
    /\ force \/ directory = None
    /\ installer' = [pc |-> IF directory = None THEN "copy" ELSE "remove",
                     source |-> source]
    /\ directory' = IF directory = None THEN NoFiles ELSE directory
    /\ Race
    /\ UNCHANGED <<settings, provider, writer, reembed, stored>>

Put(file, content) ==
    directory' = IF file = "manifest" THEN Whole(directory, content)
                 ELSE [directory EXCEPT !.weights = [@ EXCEPT ![file] = content]]

FileIn(d, file) == IF file = "manifest" THEN d.manifest ELSE d.weights[file]

ModelFiles == Weights \cup {"manifest"}

(* shutil.rmtree, in any order. *)
RemoveFile ==
    /\ installer.pc = "remove"
    /\ IF directory = NoFiles
       THEN installer' = [installer EXCEPT !.pc = "copy"] /\ UNCHANGED directory
       ELSE /\ \E f \in ModelFiles : FileIn(directory, f) # None /\ Put(f, None)
            /\ UNCHANGED installer
    /\ Race
    /\ UNCHANGED <<settings, provider, writer, reembed, stored, used>>

(* shutil.copytree, in any order. *)
CopyFile ==
    /\ installer.pc = "copy"
    /\ LET source  == installer.source
           missing == {f \in ModelFiles :
                         FileIn(directory, f) # FileIn(source, f)}
       IN  IF missing = {}
           THEN /\ installer' = IF source.manifest = None
                                THEN [installer EXCEPT !.pc = "manifest"]
                                ELSE Resting
                /\ UNCHANGED directory
           ELSE /\ \E f \in missing :
                     \/ Put(f, FileIn(source, f))
                     \/ /\ f = "manifest" /\ directory.manifest = None
                        /\ \E part \in Parts(source.manifest) : Put(f, part)
                /\ UNCHANGED installer
    /\ Race
    /\ UNCHANGED <<settings, provider, writer, reembed, stored, used>>

(* write_model_manifest, when the source has none. *)
WriteModelManifest ==
    /\ installer.pc = "manifest"
    /\ LET built == BuiltManifest(directory.weights)
       IN  \/ Put("manifest", built) /\ installer' = Resting
          \/ /\ directory.manifest = None
             /\ \E part \in Parts(built) : Put("manifest", part)
             /\ UNCHANGED installer
    /\ Race
    /\ UNCHANGED <<settings, provider, writer, reembed, stored, used>>

Install == RemoveFile \/ CopyFile \/ WriteModelManifest

(* The installation fails or is killed: what was done stays. *)
InstallStops ==
    /\ installer # Resting /\ used.faults < MaxFaults /\ Use("faults")
    /\ installer' = Resting
    /\ UNCHANGED <<settings, directory, provider, writer, reembed, stored,
                   raced>>

-----------------------------------------------------------------------------
(* FastEmbedProvider                                                       *)

Started(process) ==
    [process |-> process, verified |-> FALSE, runtime |-> None]

(* What identity and _load_manifest find: no manifest, or the one there    *)
(* is, if it can be read.                                                  *)
FoundManifest == IF directory = None THEN None ELSE directory.manifest

(* mutant: files that the manifest names may be missing or different *)
MatchesAnything(d) == TRUE

(* verify_model_manifest looks at the files that the manifest lists. *)
Matches(d) ==
    \A w \in Weights :
      \/ d.manifest.sums[w] \in {Unlisted, d.weights[w]}
      \/ /\ d.manifest.sums[w] = Unchecked /\ d.weights[w] # None
         /\ ~settings.requireChecksums

(* _validate_runtime_prerequisites *)
Usable ==
    /\ directory # None /\ FoundManifest # Torn
    /\ FoundManifest = None =>
         ~settings.requireManifest /\ ~settings.requireChecksums
    /\ FoundManifest # None => Matches(directory)

Verify ==
    /\ ~provider.verified /\ Usable
    /\ provider' = [provider EXCEPT !.verified = TRUE]

(* The library loads what it finds; it can do without some of the files.   *)
Loadable ==
    directory # None /\ \E w \in Weights : directory.weights[w] # None

Load ==
    /\ provider.verified /\ provider.runtime = None /\ Loadable
    /\ provider' = [provider EXCEPT !.runtime = directory.weights]

(* mutant: what is configured goes before what the manifest says *)
ConfiguredIdentity(manifest) ==
    [model |-> Model, version |-> Revision, dim |-> Dimension]

(* identity() and persistence_version: what the manifest does not have is  *)
(* configured, and a revision goes before a digest.                        *)
ProviderIdentity(manifest) ==
    LET found == IF manifest = None THEN Bare(Model) ELSE manifest
    IN  [model |-> Model,
         version |-> OrElse(OrElse(found.revision, Revision),
                            OrElse(found.digest, Digest)),
         dim |-> OrElse(found.dim, Dimension)]

(* A manifest speaks for a model when it lists every file with the         *)
(* checksum of the revision that embeddings are labelled with.             *)
Vouches(manifest) ==
    LET version == ProviderIdentity(manifest).version
    IN  /\ manifest # None /\ version # None
        /\ manifest.sums = [w \in Weights |-> RevisionOf[version]]

(* The vectors of the loaded model, labelled with the identity of now.     *)
Embedded ==
    LET identity == ProviderIdentity(FoundManifest)
    IN  [by |-> provider.runtime, vouched |-> Vouches(FoundManifest),
         model |-> identity.model, version |-> identity.version,
         dim |-> identity.dim]

(* _build_embedded_text refuses a vector of another length. *)
Embeds ==
    /\ provider.runtime # None /\ FoundManifest # Torn
    /\ \A w \in Weights : provider.runtime[w] # None =>
         DimensionOf[provider.runtime[w]] = Embedded.dim

(* The provider raises, before the model is loaded or after. *)
EmbeddingFails ==
    \/ ~provider.verified /\ ~Usable
    \/ provider.verified /\ provider.runtime = None /\ ~Loadable
    \/ provider.runtime # None /\ ~Embeds

(* _get_runtime, as far as it is not done; it starts over when it failed.  *)
GetReady ==
    /\ Verify \/ Load
    /\ UNCHANGED <<settings, directory, installer, writer, reembed, stored,
                   used, raced>>

ProviderFailed == provider' = [provider EXCEPT !.verified = (provider.runtime # None)]

-----------------------------------------------------------------------------
(* A write in the service: _prepare_memory_for_write and the repository.   *)

StartService ==
    /\ Under("none")
    /\ provider' = Started("service")
    /\ UNCHANGED <<settings, directory, installer, writer, reembed, stored,
                   used, raced>>

StopService ==
    /\ Under("service") /\ writer = Resting
    /\ provider' = Started("none")
    /\ UNCHANGED <<settings, directory, installer, writer, reembed, stored,
                   used, raced>>

(* add_memory or upsert_memory, with the caller's embedding or none. *)
BeginWrite(memory, embed, vector) ==
    /\ Under("service") /\ writer = Resting
    /\ used.writes < MaxWrites /\ Use("writes")
    /\ embed => vector = None
    /\ writer' = [pc |-> IF embed THEN "embed"
                         ELSE IF vector = None THEN "store" ELSE "validate",
                  memory |-> memory, vector |-> vector, embeddings |-> 0]
    /\ UNCHANGED <<settings, directory, installer, provider, reembed, stored,
                   raced>>

WriterAt(pc) == writer.pc = pc

(* _embed_memory.  Every mismatch under the policy "reembed" comes back    *)
(* here, one call deeper.                                                  *)
EmbedMemory ==
    /\ WriterAt("embed") /\ Embeds /\ writer.embeddings < RecursionLimit
    /\ writer' = [writer EXCEPT !.pc = "validate", !.vector = Embedded,
                                !.embeddings = @ + 1]
    /\ UNCHANGED <<settings, directory, installer, provider, reembed, stored,
                   used, raced>>

EmbedMemoryFails ==
    /\ WriterAt("embed")
    /\ EmbeddingFails \/ writer.embeddings = RecursionLimit
    /\ ProviderFailed
    /\ writer' = Resting
    /\ UNCHANGED <<settings, directory, installer, reembed, stored, used,
                   raced>>

(* _configured_embedding_identity of the service: the manifest's name and  *)
(* its revision or its digest before the configured version; a manifest    *)
(* that cannot be read is ignored.                                         *)
ServiceIdentity(manifest) ==
    LET found == IF manifest \in {None, Torn} THEN Bare(Model) ELSE manifest
    IN  [model |-> found.model,
         version |-> OrElse(OrElse(found.revision, found.digest), Revision)]

(* The two validate_embedding_dimensions (the index has the configured     *)
(* dimension, else the database does not open, module Upgrade) and         *)
(* _embedding_identity_is_compatible: what is not known is no mismatch.    *)
Fits(vector, manifest) ==
    LET identity == ServiceIdentity(manifest)
    IN  /\ vector.dim = Dimension
        /\ vector.model \in {None, identity.model}
        /\ None \in {vector.version, identity.version}
             \/ vector.version = identity.version

(* _handle_embedding_mismatch; without its embedding a memory is           *)
(* quarantined.                                                            *)
ValidateMemory ==
    /\ WriterAt("validate")
    /\ writer' =
         IF Fits(writer.vector, FoundManifest)
         THEN [writer EXCEPT !.pc = "store"]
         ELSE IF settings.policy = "error" THEN Resting
         ELSE IF settings.policy = "quarantine"
         THEN [writer EXCEPT !.pc = "store", !.vector = None]
         ELSE [writer EXCEPT !.pc = "embed", !.vector = None]
    /\ UNCHANGED <<settings, directory, installer, provider, reembed, stored,
                   used, raced>>

StoreMemory ==
    /\ WriterAt("store")
    /\ stored' = [stored EXCEPT ![writer.memory] = writer.vector]
    /\ writer' = Resting
    /\ UNCHANGED <<settings, directory, installer, provider, reembed, used,
                   raced>>

Write == EmbedMemory \/ EmbedMemoryFails \/ ValidateMemory \/ StoreMemory

-----------------------------------------------------------------------------
(* reembed_database                                                        *)

(* mutant: a memory that has no embedding is left alone *)
OutdatedIfEmbedded(vector, identity) ==
    /\ vector # None
    /\ \/ vector.dim # identity.dim \/ vector.model # identity.model
       \/ identity.version \notin {None, vector.version}

(* _record_reembed_reason *)
Outdated(vector, identity) ==
    \/ vector = None
    \/ vector.dim # identity.dim \/ vector.model # identity.model
    \/ identity.version \notin {None, vector.version}

(* The identity is read, the database opened (which its lock refuses while *)
(* the service runs), and the first of the candidates chosen, in an order  *)
(* of the database's.                                                      *)
BeginReembed(limit) ==
    /\ Under("none") /\ FoundManifest # Torn
    /\ LET identity == ProviderIdentity(FoundManifest)
           outdated == {m \in Records : Outdated(stored[m], identity)}
           wanted   == IF Cardinality(outdated) < limit
                       THEN Cardinality(outdated) ELSE limit
       IN  \E chosen \in SUBSET outdated \ {{}} :
             /\ Cardinality(chosen) = wanted
             /\ reembed' = [pc |-> "embed", todo |-> chosen, batch |-> {},
                            vector |-> None]
    /\ provider' = Started("reembed")
    /\ UNCHANGED <<settings, directory, installer, writer, stored, used, raced>>

(* embed_batch *)
EmbedBatch ==
    /\ reembed.pc = "embed" /\ Embeds
    /\ \E batch \in SUBSET reembed.todo :
         /\ Cardinality(batch) = IF Cardinality(reembed.todo) < BatchSize
                                 THEN Cardinality(reembed.todo) ELSE BatchSize
         /\ reembed' = [pc |-> "replace", todo |-> reembed.todo \ batch,
                        batch |-> batch, vector |-> Embedded]
    /\ UNCHANGED <<settings, directory, installer, provider, writer, stored,
                   used, raced>>

(* finally: the provider and the database are closed. *)
EndReembed == reembed' = Resting /\ provider' = Started("none")

EmbedBatchFails ==
    /\ reembed.pc = "embed" /\ EmbeddingFails
    /\ EndReembed
    /\ UNCHANGED <<settings, directory, installer, writer, stored, used, raced>>

(* repository.replace_memory, a transaction for each record. *)
ReplaceMemory ==
    /\ reembed.pc = "replace"
    /\ \E m \in reembed.batch :
         LET rest == reembed.batch \ {m}
         IN  /\ stored' = [stored EXCEPT ![m] = reembed.vector]
             /\ IF rest = {} /\ reembed.todo = {} THEN EndReembed
                ELSE /\ reembed' = [reembed EXCEPT !.batch = rest,
                           !.pc = IF rest = {} THEN "embed" ELSE "replace"]
                     /\ UNCHANGED provider
    /\ UNCHANGED <<settings, directory, installer, writer, used, raced>>

Reembed == EmbedBatch \/ EmbedBatchFails \/ ReplaceMemory

(* The service or the re-embedding is killed. *)
ProcessStops ==
    /\ used.faults < MaxFaults /\ Use("faults")
    /\ \/ Under("service") /\ writer' = Resting /\ UNCHANGED reembed
       \/ Under("reembed") /\ reembed' = Resting /\ UNCHANGED writer
    /\ provider' = Started("none")
    /\ UNCHANGED <<settings, directory, installer, stored, raced>>

-----------------------------------------------------------------------------
(* The model is loaded for a write or a batch. *)
LoadModel == (WriterAt("embed") \/ reembed.pc = "embed") /\ GetReady

EmbeddingNext ==
    \/ \E source \in Sources, force \in BOOLEAN : BeginInstall(source, force)
    \/ Install \/ InstallStops
    \/ StartService \/ StopService \/ LoadModel
    \/ \E memory \in Records, embed \in BOOLEAN, vector \in Supplied \cup {None} :
         BeginWrite(memory, embed, vector)
    \/ Write
    \/ \E limit \in 1 .. Cardinality(Records) : BeginReembed(limit)
    \/ Reembed \/ ProcessStops

(* Calls go on, the service is stopped now and then, and then somebody     *)
(* runs the re-embedding; nobody need install or start anything.           *)
EmbeddingFairness ==
    /\ WF_embeddingVars(Install) /\ WF_embeddingVars(LoadModel \/ Write)
    /\ WF_embeddingVars(Reembed)
    /\ SF_embeddingVars(StopService)
    /\ SF_embeddingVars(BeginReembed(Cardinality(Records)))

EmbeddingSpec ==
    EmbeddingInit /\ [][EmbeddingNext]_embeddingVars /\ EmbeddingFairness
-----------------------------------------------------------------------------
(* The variables hold values of their types; a write is under way only in  *)
(* the service, and a process holds the database for reembed exactly while *)
(* there is something to do.                                               *)
EmbeddingTypeOK ==
    /\ directory \in Directory \cup {None}
    /\ \A m \in Records : stored[m] \in Vector \cup {None}
    /\ provider.runtime # None => provider.verified
    /\ writer # Resting => Under("service")
    /\ Under("reembed") <=> reembed.pc \in {"embed", "replace"}

(* What a manifest speaks for is true: an embedding that was computed      *)
(* under a manifest that lists every file with a checksum is labelled with *)
(* the revision of the files that computed it, wherever installations were *)
(* broken off, unless one went on under the process.                       *)
LabelsAreTrue ==
    ~raced =>
      \A m \in Records : stored[m] # None /\ stored[m].vouched =>
        stored[m].by = [w \in Weights |-> RevisionOf[stored[m].version]]

(* The manifest has another name or dimension than settings, or a digest   *)
(* and no revision where settings have one.                                *)
Disagrees ==
    /\ FoundManifest \notin {None, Torn}
    /\ \/ FoundManifest.model # Model
       \/ FoundManifest.dim \notin {None, Dimension}
       \/ /\ FoundManifest.revision = None /\ Revision # None
          /\ FoundManifest.digest \notin {None, Revision}

(* The service never rejects an embedding that it has just computed: the   *)
(* identity that labels it and the one that it is compared with, which two *)
(* functions derive, agree.  So the policy "reembed" embeds once and does  *)
(* not recurse.  The exceptions: an installation meanwhile, a manifest     *)
(* whose name or dimension are not the configured ones, and one with a     *)
(* digest only, which the service puts before the configured revision and  *)
(* the provider after it.                                                  *)
OwnEmbeddingFits ==
    WriterAt("validate") /\ writer.embeddings > 0 =>
      Fits(writer.vector, FoundManifest) \/ Disagrees \/ raced

(* A model that works: it is loaded, and its vectors are accepted. *)
Works ==
    /\ Usable /\ Loadable
    /\ \A w \in Weights : directory.weights[w] # None =>
         DimensionOf[directory.weights[w]] = ProviderIdentity(FoundManifest).dim

IsCurrent(vector, identity) ==
    /\ vector # None
    /\ vector.dim = identity.dim /\ vector.model = identity.model
    /\ identity.version \in {None, vector.version}

(* Somebody who keeps running `database reembed` reaches the point where   *)
(* every memory has an embedding with the identity of the model, however   *)
(* runs are limited or killed, and whatever the service writes meanwhile;  *)
(* unless the model that is installed does not work.                       *)
EverythingReembedded ==
    \/ []<>(/\ FoundManifest # Torn
            /\ \A m \in Records :
                 IsCurrent(stored[m], ProviderIdentity(FoundManifest)))
    \/ <>[]~Works
=============================================================================
