-------------------------- MODULE Embeddings_proofs --------------------------
(***************************************************************************)
(* Proofs about local models, for any revisions, files, sources, settings  *)
(* and records, and any number of installations, writes and crashes.       *)
(***************************************************************************)
EXTENDS Embeddings, TLAPS

Installing ==
    {Resting} \cup [pc: {"remove", "copy", "manifest"}, source: Sources]

Process == [process: {"none", "service", "reembed"}, verified: BOOLEAN,
            runtime: [Weights -> Revisions \cup {None}] \cup {None}]

Call == [pc: {"embed", "validate", "store"}, memory: Records,
         vector: Vector \cup {None}, embeddings: Nat]

Writing == {Resting} \cup Call

Reembedding ==
    {Resting} \cup [pc: {"embed", "replace"}, todo: SUBSET Records,
                 batch: SUBSET Records, vector: Vector \cup {None}]

(* The variables have their types, an installation has a directory to work *)
(* on, and what is loaded belongs to a running process.                    *)
Typed ==
    /\ settings \in Settings
    /\ directory \in Directory \cup {None}
    /\ installer \in Installing
    /\ provider \in Process
    /\ writer \in Writing
    /\ reembed \in Reembedding
    /\ stored \in [Records -> Vector \cup {None}]
    /\ raced \in BOOLEAN
    /\ installer # Resting => directory \in Directory
    /\ provider.runtime # None => provider.verified
    /\ provider.verified => ~Under("none")
    /\ writer # Resting => Under("service")
    /\ Under("reembed") <=> reembed # Resting
    /\ WriterAt("validate") => writer.vector \in Vector
    /\ reembed.pc = "replace" => reembed.vector \in Vector

(* Unless something was installed under the process, what it has verified  *)
(* is still there, and what it has loaded is what is there.                *)
Loaded ==
    ~raced /\ provider.verified =>
      /\ Usable
      /\ provider.runtime # None => provider.runtime = directory.weights

(* What a manifest speaks for is labelled with the revision of the files    *)
(* that it comes from.                                                     *)
TruthOf(vector) ==
    vector # None /\ vector.vouched =>
      vector.by = [w \in Weights |-> RevisionOf[vector.version]]

(* That holds of every embedding, on its way or stored. *)
Labelled ==
    ~raced =>
      /\ \A m \in Records : TruthOf(stored[m])
      /\ writer # Resting => TruthOf(writer.vector)
      /\ reembed # Resting => TruthOf(reembed.vector)

(* An embedding that was computed for a write has the identity of now. *)
Recent ==
    WriterAt("validate") /\ writer.embeddings > 0 /\ ~raced =>
      /\ FoundManifest # Torn
      /\ [model |-> writer.vector.model, version |-> writer.vector.version,
          dim |-> writer.vector.dim] = ProviderIdentity(FoundManifest)

IInv == Typed /\ Loaded /\ Labelled /\ Recent
-----------------------------------------------------------------------------
(* Manifests that are built, or written in part, are manifests. *)
LEMMA BuiltIsManifest ==
    ASSUME NEW weights \in [Weights -> Revisions \cup {None}]
    PROVE  BuiltManifest(weights) \in Manifest
BY EmbeddingsAssumption DEF BuiltManifest, Manifest

LEMMA BareIsManifest ==
    ASSUME NEW model \in {Model, OtherModel}
    PROVE  Bare(model) \in Manifest
BY DEF Bare, Manifest

LEMMA PartsAreManifests ==
    ASSUME NEW manifest \in Manifest, NEW part \in Parts(manifest)
    PROVE  part \in Manifest \cup {Torn}
<1> DEFINE named   == Bare(manifest.model)
           revised == [named EXCEPT !.revision = manifest.revision]
           sized   == [revised EXCEPT !.dim = manifest.dim]
<1>1. named \in Manifest /\ Bare(OtherModel) \in Manifest
    BY BareIsManifest DEF Manifest
<1>2. revised \in Manifest /\ sized \in Manifest
    BY <1>1 DEF Manifest
<1>3. \A v \in Versions \cup {None} : CutVersion(v) \subseteq Versions \cup {None}
    BY EmbeddingsAssumption DEF CutVersion
<1>4. CutDimension(manifest.dim) \subseteq (Nat \ {0}) \cup {None}
    BY DEF CutDimension, Manifest
<1>5. CutList(manifest.sums)
        \subseteq [Weights -> Revisions \cup {Unlisted, Unchecked, Torn}]
    <2>1. manifest.sums \in [Weights -> Revisions \cup {Unlisted, Unchecked, Torn}]
        BY DEF Manifest
    <2> QED
        BY <2>1 DEF CutList
<1>6. manifest.revision \in Versions \cup {None} /\ manifest.digest \in Versions \cup {None}
    BY DEF Manifest
<1> HIDE DEF named, revised, sized
<1>7. ASSUME NEW v \in CutVersion(manifest.revision)
      PROVE  [named EXCEPT !.revision = v] \in Manifest
    <2>1. v \in Versions \cup {None}
        BY <1>3, <1>6
    <2> QED
        BY <1>1, <2>1 DEF Manifest
<1>8. ASSUME NEW d \in CutDimension(manifest.dim)
      PROVE  [revised EXCEPT !.dim = d] \in Manifest
    <2>1. d \in (Nat \ {0}) \cup {None}
        BY <1>4
    <2> QED
        BY <1>2, <2>1 DEF Manifest
<1>9. ASSUME NEW list \in CutList(manifest.sums)
      PROVE  [sized EXCEPT !.sums = list] \in Manifest
    <2>1. list \in [Weights -> Revisions \cup {Unlisted, Unchecked, Torn}]
        BY <1>5
    <2> QED
        BY <1>2, <2>1 DEF Manifest
<1>10. ASSUME NEW v \in CutVersion(manifest.digest)
       PROVE  [manifest EXCEPT !.digest = v] \in Manifest
    <2>1. v \in Versions \cup {None}
        BY <1>3, <1>6
    <2> QED
        BY <2>1 DEF Manifest
<1>11. \/ part \in {Torn, Bare(OtherModel)}
       \/ \E v \in CutVersion(manifest.revision) : part = [named EXCEPT !.revision = v]
       \/ \E d \in CutDimension(manifest.dim) : part = [revised EXCEPT !.dim = d]
       \/ \E list \in CutList(manifest.sums) : part = [sized EXCEPT !.sums = list]
       \/ \E v \in CutVersion(manifest.digest) : part = [manifest EXCEPT !.digest = v]
    BY DEF Parts, named, revised, sized
<1> QED
    BY <1>1, <1>7, <1>8, <1>9, <1>10, <1>11

(* What one file of a directory is set to. *)
LEMMA PutsFile ==
    ASSUME directory \in Directory, NEW f \in ModelFiles, NEW content,
           \/ content = None
           \/ f = "manifest" /\ content \in Manifest \cup {Torn}
           \/ \E s \in Sources : content = FileIn(s, f),
           Put(f, content)
    PROVE  directory' \in Directory
<1>1. CASE f = "manifest"
    <2>1. content \in Manifest \cup {None, Torn}
        BY <1>1, EmbeddingsAssumption DEF FileIn, Directory
    <2> QED
        BY <1>1, <2>1 DEF Put, Whole, Directory
<1>2. CASE f # "manifest"
    <2>1. f \in Weights /\ content \in Revisions \cup {None}
        BY <1>2, EmbeddingsAssumption DEF ModelFiles, FileIn, Directory
    <2> QED
        BY <1>2, <2>1 DEF Put, Directory
<1> QED
    BY <1>1, <1>2

LEMMA InstalledIsDirectory ==
    ASSUME NEW s \in Sources
    PROVE  Installed(s) \in Directory
<1>1. s \in Directory
    BY EmbeddingsAssumption
<1>2. BuiltManifest(s.weights) \in Manifest
    BY <1>1, BuiltIsManifest DEF Directory
<1>3. CASE s.manifest = None
    BY <1>1, <1>2, <1>3 DEF Installed, Whole, Directory
<1>4. CASE s.manifest # None
    BY <1>1, <1>4 DEF Installed
<1> QED
    BY <1>3, <1>4

(* An embedding that is computed is one. *)
LEMMA EmbeddedIsVector ==
    ASSUME Typed, Embeds
    PROVE  Embedded \in Vector /\ Embedded.dim \in Nat
<1>1. FoundManifest \in Manifest \cup {None}
    BY DEF Typed, Embeds, FoundManifest, Directory
<1>2. provider.runtime \in [Weights -> Revisions \cup {None}]
    BY DEF Typed, Embeds, Process
<1> QED
    <2>1. Bare(Model) \in Manifest
        BY BareIsManifest
    <2>2. /\ Embedded.version \in Versions \cup {None}
          /\ Embedded.dim \in Nat
        BY <1>1, <2>1, EmbeddingsAssumption
        DEF Embedded, ProviderIdentity, OrElse, Manifest
    <2>3. Embedded.vouched \in BOOLEAN
        BY DEF Embedded, Vouches
    <2>4. Embedded.by = provider.runtime /\ Embedded.model = Model
        BY DEF Embedded, ProviderIdentity
    <2>5. Embedded = [by |-> Embedded.by, vouched |-> Embedded.vouched,
                      model |-> Embedded.model, version |-> Embedded.version,
                      dim |-> Embedded.dim]
        BY DEF Embedded
    <2> QED
        BY <1>2, <2>2, <2>3, <2>4, <2>5 DEF Vector
-----------------------------------------------------------------------------
LEMMA TypedInit == EmbeddingInit => Typed
<1> SUFFICES ASSUME EmbeddingInit PROVE Typed
    OBVIOUS
<1>1. directory \in Directory \cup {None}
    BY InstalledIsDirectory DEF EmbeddingInit
<1> QED
    BY <1>1 DEF EmbeddingInit, Typed, Installing, Process, Writing, Reembedding,
       Resting, Under, WriterAt

LEMMA TypedInstall ==
    ASSUME Typed,
           Install \/ InstallStops
              \/ \E s \in Sources, force \in BOOLEAN : BeginInstall(s, force)
    PROVE  Typed'
<1> USE DEF Typed, Installing, Resting, Under, WriterAt
<1>1. ASSUME NEW s \in Sources, NEW force \in BOOLEAN, BeginInstall(s, force)
      PROVE  Typed'
    <2>1. directory' \in Directory
        BY <1>1 DEF BeginInstall, NoFiles, Directory
    <2> QED
        BY <1>1, <2>1 DEF BeginInstall, Race
<1>2. CASE RemoveFile
    <2>1. directory' \in Directory
        <3>1. directory \in Directory
            BY <1>2 DEF RemoveFile
        <3>2. ASSUME NEW f \in ModelFiles, Put(f, None)
              PROVE  directory' \in Directory
            BY ONLY <3>1, <3>2, PutsFile
        <3> QED
            BY <1>2, <3>1, <3>2 DEF RemoveFile
    <2>2. installer' \in Installing /\ installer # Resting
        BY <1>2 DEF RemoveFile
    <2> QED
        BY <1>2, <2>1, <2>2 DEF RemoveFile, Race
<1>3. CASE CopyFile
    <2>1. directory \in Directory /\ installer.source \in Sources
        BY <1>3 DEF CopyFile
    <2>2. directory' \in Directory
        <3>1. PICK source \in Sources : source = installer.source
            BY <2>1
        <3>2. \/ UNCHANGED directory
              \/ \E f \in ModelFiles : Put(f, FileIn(source, f))
              \/ /\ source.manifest # None
                 /\ \E part \in Parts(source.manifest) : Put("manifest", part)
            BY <1>3, <3>1 DEF CopyFile, FileIn
        <3>3. ASSUME NEW f \in ModelFiles, Put(f, FileIn(source, f))
              PROVE  directory' \in Directory
            BY ONLY <2>1, <3>3, PutsFile
        <3>4. ASSUME source.manifest # None,
                     NEW part \in Parts(source.manifest), Put("manifest", part)
              PROVE  directory' \in Directory
            <4>1. source.manifest \in Manifest
                BY <3>4, EmbeddingsAssumption DEF Directory
            <4>2. part \in Manifest \cup {Torn}
                BY <4>1, PartsAreManifests
            <4> QED
                BY ONLY <2>1, <3>4, <4>2, PutsFile DEF ModelFiles
        <3> QED
            BY <2>1, <3>2, <3>3, <3>4
    <2>3. installer' \in Installing
        BY <1>3, <2>1 DEF CopyFile
    <2> QED
        BY <1>3, <2>1, <2>2, <2>3 DEF CopyFile, Race
<1>4. CASE WriteModelManifest
    <2>1. directory' \in Directory
      <3>1. directory \in Directory
          BY <1>4 DEF WriteModelManifest
      <3>2. BuiltManifest(directory.weights) \in Manifest
          BY <3>1, BuiltIsManifest DEF Directory
      <3>3. ASSUME NEW content \in Manifest \cup {Torn}, Put("manifest", content)
            PROVE  directory' \in Directory
          BY ONLY <3>1, <3>3, PutsFile DEF ModelFiles
      <3> QED
          BY <1>4, <3>2, <3>3, PartsAreManifests DEF WriteModelManifest
    <2> QED
        BY <1>4, <2>1 DEF WriteModelManifest, Race
<1>5. CASE InstallStops
    BY <1>5 DEF InstallStops
<1> QED
    BY <1>1, <1>2, <1>3, <1>4, <1>5 DEF Install

LEMMA TypedWrite ==
    ASSUME Typed,
           \/ Write \/ StartService \/ StopService \/ LoadModel
           \/ \E m \in Records, embed \in BOOLEAN, v \in Supplied \cup {None} :
                BeginWrite(m, embed, v)
    PROVE  Typed'
<1> USE DEF Typed, Process, Writing, Call, Resting, Under, WriterAt
<1>1. CASE EmbedMemory
    <2>1. Embedded \in Vector
        BY <1>1, EmbeddedIsVector DEF EmbedMemory
    <2>2. writer \in Writing /\ writer # Resting
        BY <1>1 DEF EmbedMemory
    <2>3. writer' = [writer EXCEPT !.pc = "validate", !.vector = Embedded,
                                   !.embeddings = @ + 1]
        BY <1>1 DEF EmbedMemory
    <2>4. writer' \in Writing /\ writer' # Resting /\ writer'.vector \in Vector
        <3>1. writer \in Call
            BY <2>2
        <3>2. writer.embeddings + 1 \in Nat
            BY ONLY <3>1 DEF Call
        <3>3. writer' \in Call
            BY ONLY <2>1, <2>3, <3>1, <3>2 DEF Call
        <3>4. writer'.vector = Embedded
            BY ONLY <2>3, <3>1 DEF Call
        <3>5. writer' # Resting
            BY ONLY <3>3 DEF Call, Resting
        <3> QED
            BY ONLY <2>1, <3>3, <3>4, <3>5 DEF Writing
    <2> QED
        BY <1>1, <2>2, <2>4 DEF EmbedMemory
<1>2. CASE EmbedMemoryFails
    BY <1>2 DEF EmbedMemoryFails, ProviderFailed
<1>3. CASE ValidateMemory
    <2>1. writer # Resting
        BY <1>3 DEF ValidateMemory
    <2>2. \/ writer' = Resting
          \/ writer' = [writer EXCEPT !.pc = "store"]
          \/ writer' = [writer EXCEPT !.pc = "store", !.vector = None]
          \/ writer' = [writer EXCEPT !.pc = "embed", !.vector = None]
        BY <1>3 DEF ValidateMemory
    <2>3. writer' \in Writing /\ writer'.pc # "validate"
        <3>1. writer \in Call
            BY <2>1
        <3>2. CASE writer' = Resting
            BY ONLY <3>2 DEF Writing, Resting
        <3>3. CASE writer' # Resting
            <4>1. writer' \in Call
                BY ONLY <2>2, <3>1, <3>3 DEF Call
            <4>2. writer'.pc # "validate"
                BY ONLY <2>2, <3>1, <3>3 DEF Call
            <4> QED
                BY ONLY <4>1, <4>2 DEF Writing
        <3> QED
            BY ONLY <3>2, <3>3
    <2> QED
        BY <1>3, <2>1, <2>3 DEF ValidateMemory
<1>4. CASE StoreMemory
    BY <1>4 DEF StoreMemory
<1>5. CASE StartService
    BY <1>5 DEF StartService, Started
<1>6. CASE StopService
    BY <1>6 DEF StopService, Started
<1>7. CASE LoadModel
    <2>1. ~Under("none")
        BY <1>7 DEF LoadModel, Reembedding
    <2>2. provider' \in Process /\ provider'.process = provider.process
        BY <1>7 DEF LoadModel, GetReady, Verify, Load, Loadable, Directory
    <2>3. provider'.runtime # None => provider'.verified
        BY <1>7 DEF LoadModel, GetReady, Verify, Load
    <2> QED
        BY <1>7, <2>1, <2>2, <2>3 DEF LoadModel, GetReady
<1>8. ASSUME NEW m \in Records, NEW embed \in BOOLEAN,
             NEW v \in Supplied \cup {None}, BeginWrite(m, embed, v)
      PROVE  Typed'
    BY <1>8, EmbeddingsAssumption DEF BeginWrite
<1> QED
    BY <1>1, <1>2, <1>3, <1>4, <1>5, <1>6, <1>7, <1>8 DEF Write

LEMMA TypedReembed ==
    ASSUME Typed,
           \/ Reembed \/ ProcessStops
           \/ \E limit \in 1 .. Cardinality(Records) : BeginReembed(limit)
    PROVE  Typed'
<1> USE DEF Typed, Process, Reembedding, Resting, Under, WriterAt
<1>1. ASSUME NEW limit \in 1 .. Cardinality(Records), BeginReembed(limit)
      PROVE  Typed'
    <2>1. PICK chosen \in SUBSET Records :
            reembed' = [pc |-> "embed", todo |-> chosen, batch |-> {},
                        vector |-> None]
        BY <1>1 DEF BeginReembed
    <2> QED
        BY <1>1, <2>1 DEF BeginReembed, Started
<1>2. CASE EmbedBatch
    <2>1. PICK batch \in SUBSET reembed.todo :
            reembed' = [pc |-> "replace", todo |-> reembed.todo \ batch,
                        batch |-> batch, vector |-> Embedded]
        BY <1>2 DEF EmbedBatch
    <2>2. Embedded \in Vector
        BY <1>2, EmbeddedIsVector DEF EmbedBatch
    <2> QED
        BY <1>2, <2>1, <2>2 DEF EmbedBatch
<1>3. CASE EmbedBatchFails
    BY <1>3 DEF EmbedBatchFails, EndReembed, Started
<1>4. CASE ReplaceMemory
    <2>1. PICK m \in reembed.batch :
            /\ stored' = [stored EXCEPT ![m] = reembed.vector]
            /\ \/ EndReembed
               \/ /\ \E pc \in {"embed", "replace"} :
                       reembed' = [reembed EXCEPT !.batch = @ \ {m}, !.pc = pc]
                  /\ UNCHANGED provider
        BY <1>4 DEF ReplaceMemory
    <2>2. reembed # Resting /\ reembed.vector \in Vector
        BY <1>4 DEF ReplaceMemory
    <2>3. stored' \in [Records -> Vector \cup {None}]
        BY <2>1, <2>2
    <2>4. CASE EndReembed
        BY <1>4, <2>3, <2>4 DEF ReplaceMemory, EndReembed, Started
    <2>5. ASSUME NEW pc \in {"embed", "replace"}, UNCHANGED provider,
                 reembed' = [reembed EXCEPT !.batch = @ \ {m}, !.pc = pc]
          PROVE  Typed'
        BY <1>4, <2>2, <2>3, <2>5 DEF ReplaceMemory
    <2> QED
        BY <2>1, <2>4, <2>5
<1>5. CASE ProcessStops
    <2>1. provider' = Started("none")
        BY <1>5 DEF ProcessStops
    <2>2. writer' = Resting /\ reembed' = Resting
        BY <1>5 DEF ProcessStops
    <2>3. UNCHANGED <<settings, directory, installer, stored, raced>>
        BY <1>5 DEF ProcessStops
    <2> QED
        BY <2>1, <2>2, <2>3 DEF Started, Writing, Call, Installing
<1> QED
    BY <1>1, <1>2, <1>3, <1>4, <1>5 DEF Reembed

LEMMA TypedStep ==
    ASSUME Typed, [EmbeddingNext]_embeddingVars
    PROVE  Typed'
<1>1. CASE EmbeddingNext
    BY <1>1, TypedInstall, TypedWrite, TypedReembed DEF EmbeddingNext
<1>2. CASE UNCHANGED embeddingVars
    BY <1>2 DEF embeddingVars, Typed, Under, WriterAt
<1> QED
    BY <1>1, <1>2

-----------------------------------------------------------------------------
(* The steps of an installation touch nothing but the directory, and they  *)
(* are remembered when a process runs.                                     *)
LEMMA Installs ==
    ASSUME Typed,
           Install \/ \E s \in Sources, force \in BOOLEAN : BeginInstall(s, force)
    PROVE  /\ UNCHANGED <<settings, provider, writer, reembed, stored>>
           /\ ~raced' => UNCHANGED raced /\ Under("none")
BY DEF Typed, Install, RemoveFile, CopyFile, WriteModelManifest, BeginInstall,
   Race

(* No other step touches the directory. *)
LEMMA Runs ==
    ASSUME EmbeddingNext,
           ~Install,
           ~\E s \in Sources, force \in BOOLEAN : BeginInstall(s, force)
    PROVE  UNCHANGED <<settings, directory, raced>> /\ installer' \in {installer, Resting}
BY DEF EmbeddingNext, InstallStops, StartService, StopService, LoadModel,
   GetReady, BeginWrite, Write, EmbedMemory, EmbedMemoryFails, ValidateMemory,
   StoreMemory, BeginReembed, Reembed, EmbedBatch, EmbedBatchFails,
   ReplaceMemory, ProcessStops

-----------------------------------------------------------------------------
LEMMA LoadedStep ==
    ASSUME Typed, Loaded, [EmbeddingNext]_embeddingVars
    PROVE  Loaded'
<1>1. CASE Install \/ \E s \in Sources, force \in BOOLEAN : BeginInstall(s, force)
    <2>1. UNCHANGED provider /\ (~raced' => Under("none"))
        BY <1>1, Installs
    <2> QED
        BY <2>1 DEF Loaded, Typed, Under
<1>2. CASE UNCHANGED <<settings, directory, raced>>
    <2>1. Usable' = Usable
        BY <1>2 DEF Usable, FoundManifest, Matches
    <2>2. \/ ~provider'.verified
          \/ provider'.verified = provider.verified /\ provider'.runtime = provider.runtime
          \/ Verify \/ Load
      <3>1. CASE LoadModel
          BY <3>1 DEF LoadModel, GetReady
      <3>2. CASE EmbedMemoryFails
          BY <3>2 DEF EmbedMemoryFails, ProviderFailed, Typed, Process
      <3>3. CASE EmbeddingNext /\ ~LoadModel /\ ~EmbedMemoryFails
          <4>1. \/ UNCHANGED provider
                \/ \E p \in {"none", "service", "reembed"} : provider' = Started(p)
              BY <3>3 DEF EmbeddingNext, Install, BeginInstall, RemoveFile,
                 CopyFile, WriteModelManifest, InstallStops, StartService,
                 StopService, BeginWrite, Write, EmbedMemory, ValidateMemory,
                 StoreMemory, BeginReembed, Reembed, EmbedBatch,
                 EmbedBatchFails, ReplaceMemory, EndReembed, ProcessStops
          <4> QED
              BY <4>1 DEF Started
      <3> QED
          BY <3>1, <3>2, <3>3 DEF embeddingVars
    <2>3. CASE Verify
        <3>1. provider'.runtime = provider.runtime
            BY <2>3 DEF Verify, Typed, Process
        <3> QED
            BY <1>2, <2>1, <2>3, <3>1 DEF Verify, Loaded, Typed
    <2>4. CASE Load
        BY <1>2, <2>1, <2>4 DEF Load, Loaded, Typed, Process
    <2> QED
        BY <1>2, <2>1, <2>2, <2>3, <2>4 DEF Loaded
<1> QED
    BY <1>1, <1>2, Runs DEF embeddingVars

(* What a process computes while nothing is installed comes from the files *)
(* that the manifest names, if it lists them all.                          *)
LEMMA EmbeddedIsTrue ==
    ASSUME Typed, Loaded, ~raced, Embeds
    PROVE  TruthOf(Embedded)
<1> DEFINE version == ProviderIdentity(FoundManifest).version
<1>1. SUFFICES ASSUME Embedded.vouched
               PROVE  Embedded.by = [w \in Weights |-> RevisionOf[Embedded.version]]
    BY DEF TruthOf
<1>2. Usable /\ provider.runtime = directory.weights
    BY DEF Embeds, Loaded, Typed
<1>3. Vouches(FoundManifest) /\ Embedded.version = version
    BY <1>1 DEF Embedded
<1>4. /\ directory \in Directory /\ FoundManifest = directory.manifest
      /\ Matches(directory) /\ version \in Versions
    <2>1. /\ FoundManifest # None /\ directory \in Directory
          /\ FoundManifest = directory.manifest /\ Matches(directory)
        BY <1>2, <1>3 DEF Vouches, Usable, FoundManifest, Typed
    <2>2. Embedded \in Vector
        BY EmbeddedIsVector
    <2> QED
        BY <1>3, <2>1, <2>2 DEF Vouches, Vector
<1> HIDE DEF version
<1>5. directory.manifest.sums = [w \in Weights |-> RevisionOf[version]]
    BY <1>3, <1>4 DEF Vouches, version
<1>6. ASSUME NEW w \in Weights
      PROVE  directory.weights[w] = RevisionOf[version]
    <2>1. directory.manifest.sums[w] = RevisionOf[version]
        BY <1>5
    <2>2. RevisionOf[version] \notin {Unlisted, Unchecked}
        <3>1. RevisionOf[version] \in Revisions \cup {None}
            BY <1>4, EmbeddingsAssumption
        <3>2. None \notin {Unlisted, Unchecked}
            BY EmbeddingsAssumption
        <3> QED
            BY <3>1, <3>2, EmbeddingsAssumption
    <2> QED
        BY <1>4, <2>1, <2>2 DEF Matches
<1>7. directory.weights = [w \in Weights |-> RevisionOf[version]]
    BY <1>4, <1>6 DEF Directory
<1>8. Embedded.by = provider.runtime
    BY DEF Embedded
<1> QED
    BY <1>2, <1>3, <1>7, <1>8

LEMMA RacedRemains ==
    ASSUME Typed, [EmbeddingNext]_embeddingVars
    PROVE  UNCHANGED settings /\ (~raced' => UNCHANGED raced)
BY Installs, Runs DEF embeddingVars

LEMMA LabelledStep ==
    ASSUME Typed, Loaded, Labelled, [EmbeddingNext]_embeddingVars
    PROVE  Labelled'
<1> SUFFICES ASSUME ~raced'
             PROVE  /\ \A m \in Records : TruthOf(stored'[m])
                    /\ writer' # Resting => TruthOf(writer'.vector)
                    /\ reembed' # Resting => TruthOf(reembed'.vector)
    BY DEF Labelled, TruthOf
<1>1. ~raced
    BY RacedRemains
<1>2. /\ \A m \in Records : TruthOf(stored[m])
      /\ writer # Resting => TruthOf(writer.vector)
      /\ reembed # Resting => TruthOf(reembed.vector)
    BY <1>1 DEF Labelled
<1>3. TruthOf(None)
    BY DEF TruthOf
<1>4. Embeds => TruthOf(Embedded)
    BY <1>1, EmbeddedIsTrue
<1>5. CASE EmbedMemory
    <2>1. writer'.vector = Embedded /\ UNCHANGED <<stored, reembed>>
        BY <1>5 DEF EmbedMemory, Typed, Writing, Call, Resting, WriterAt
    <2> QED
        BY <1>2, <1>4, <1>5, <2>1 DEF EmbedMemory
<1>6. CASE ValidateMemory
    <2>1. writer \in Call /\ writer # Resting
        BY <1>6 DEF ValidateMemory, Typed, Writing, Resting, WriterAt
    <2>2. writer' = Resting \/ writer'.vector \in {writer.vector, None}
        BY <1>6, <2>1 DEF ValidateMemory, Call
    <2> QED
        BY <1>2, <1>3, <1>6, <2>1, <2>2 DEF ValidateMemory
<1>7. CASE StoreMemory
    <2>1. writer # Resting
        BY <1>7 DEF StoreMemory, Resting, WriterAt
    <2>2. \A m \in Records : stored'[m] \in {stored[m], writer.vector}
        BY <1>7 DEF StoreMemory, Typed
    <2> QED
        BY <1>2, <1>7, <2>1, <2>2 DEF StoreMemory
<1>8. ASSUME NEW m \in Records, NEW embed \in BOOLEAN,
             NEW v \in Supplied \cup {None}, BeginWrite(m, embed, v)
      PROVE  /\ UNCHANGED <<stored, reembed>>
             /\ writer' # Resting => TruthOf(writer'.vector)
    <2>1. /\ UNCHANGED <<stored, reembed>>
          /\ writer'.vector = v
        BY <1>8 DEF BeginWrite
    <2>2. TruthOf(v)
        BY EmbeddingsAssumption DEF TruthOf
    <2> QED
        BY <2>1, <2>2
<1>9. ASSUME NEW limit \in 1 .. Cardinality(Records), BeginReembed(limit)
      PROVE  /\ UNCHANGED <<stored, writer>>
             /\ reembed' # Resting => TruthOf(reembed'.vector)
    BY <1>3, <1>9 DEF BeginReembed
<1>10. CASE EmbedBatch
    BY <1>2, <1>4, <1>10 DEF EmbedBatch
<1>11. CASE ReplaceMemory
    <2>1. reembed # Resting
        BY <1>11 DEF ReplaceMemory, Resting
    <2>2. PICK m \in reembed.batch : stored' = [stored EXCEPT ![m] = reembed.vector]
        BY <1>11 DEF ReplaceMemory
    <2>3. \A r \in Records : stored'[r] \in {stored[r], reembed.vector}
        BY <2>2 DEF Typed
    <2>4. reembed' = Resting \/ reembed'.vector = reembed.vector
        <3>1. \/ reembed' = Resting
              \/ \E batch, pc : reembed' = [reembed EXCEPT !.batch = batch, !.pc = pc]
            BY <1>11 DEF ReplaceMemory, EndReembed
        <3>2. reembed \in Reembedding
            BY DEF Typed
        <3> QED
            BY ONLY <2>1, <3>1, <3>2 DEF Reembedding
    <2> QED
        BY <1>2, <1>11, <2>1, <2>3, <2>4 DEF ReplaceMemory
<1>12. CASE /\ UNCHANGED stored
            /\ writer' \in {writer, Resting} /\ reembed' \in {reembed, Resting}
    BY <1>2, <1>12
<1>13. CASE EmbeddingNext
    <2>1. CASE Install \/ InstallStops \/ StartService \/ StopService \/ LoadModel
               \/ EmbedMemoryFails \/ EmbedBatchFails \/ ProcessStops
               \/ \E s \in Sources, force \in BOOLEAN : BeginInstall(s, force)
        BY <1>12, <2>1 DEF Install, RemoveFile, CopyFile, WriteModelManifest,
           InstallStops, StartService, StopService, LoadModel, GetReady,
           EmbedMemoryFails, EmbedBatchFails, EndReembed, ProcessStops,
           BeginInstall
    <2> QED
        BY <1>2, <1>5, <1>6, <1>7, <1>8, <1>9, <1>10, <1>11, <1>13, <2>1
        DEF EmbeddingNext, Write, Reembed
<1> QED
    BY <1>12, <1>13 DEF embeddingVars

LEMMA RecentStep ==
    ASSUME Typed, Recent, [EmbeddingNext]_embeddingVars
    PROVE  Recent'
<1> SUFFICES ASSUME writer'.pc = "validate", writer'.embeddings > 0, ~raced'
             PROVE  Recent'
    BY DEF Recent, WriterAt
<1>1. CASE UNCHANGED <<writer, directory>>
    BY <1>1, RacedRemains DEF Recent, WriterAt, FoundManifest, ProviderIdentity
<1>2. CASE EmbedMemory
    <2>1. writer'.vector = Embedded /\ UNCHANGED directory
        BY <1>2 DEF EmbedMemory, Typed, Writing, Call, Resting, WriterAt
    <2>2. FoundManifest # Torn /\ FoundManifest' = FoundManifest
        BY <1>2, <2>1 DEF EmbedMemory, Embeds, FoundManifest
    <2> QED
        BY <2>1, <2>2 DEF Recent, Embedded, ProviderIdentity
<1>3. CASE UNCHANGED <<writer, raced>> /\ Under("none")
    <2>1. writer # Resting
        BY <1>3 DEF Resting
    <2> QED
        BY <1>3, <2>1 DEF Typed, Under
<1>4. ASSUME NEW m \in Records, NEW embed \in BOOLEAN,
             NEW v \in Supplied \cup {None}, BeginWrite(m, embed, v)
      PROVE  FALSE
    BY <1>4 DEF BeginWrite
<1>5. CASE Install \/ \E s \in Sources, force \in BOOLEAN : BeginInstall(s, force)
    BY <1>3, <1>5, Installs
<1>6. CASE writer' = Resting
    BY <1>6 DEF Resting
<1>7. CASE ValidateMemory
    <2>1. writer \in Call
        BY <1>7 DEF ValidateMemory, Typed, Writing, Resting, WriterAt
    <2>2. writer' = Resting \/ writer'.pc # "validate"
        BY <1>7, <2>1 DEF ValidateMemory, Call
    <2> QED
        BY <1>6, <2>2
<1>8. CASE EmbeddingNext
    <2>1. CASE InstallStops \/ StartService \/ StopService \/ LoadModel \/ Reembed
               \/ \E limit \in 1 .. Cardinality(Records) : BeginReembed(limit)
        BY <1>1, <2>1 DEF InstallStops, StartService, StopService, LoadModel,
           GetReady, BeginReembed, Reembed, EmbedBatch, EmbedBatchFails,
           ReplaceMemory
    <2>2. CASE EmbedMemoryFails \/ StoreMemory \/ ProcessStops
        BY <1>1, <1>6, <2>2 DEF EmbedMemoryFails, StoreMemory, ProcessStops
    <2> QED
        BY <1>2, <1>4, <1>5, <1>7, <1>8, <2>1, <2>2 DEF EmbeddingNext, Write
<1> QED
    BY <1>1, <1>8 DEF embeddingVars

-----------------------------------------------------------------------------
LEMMA InvariantInit == EmbeddingInit => IInv
<1> SUFFICES ASSUME EmbeddingInit PROVE IInv
    OBVIOUS
<1>1. Typed
    BY TypedInit
<1>4. Loaded /\ Recent
    BY DEF EmbeddingInit, Loaded, Recent, Resting, WriterAt
<1>5. Labelled
    BY DEF EmbeddingInit, Labelled, TruthOf
<1> QED
    BY <1>1, <1>4, <1>5 DEF IInv

LEMMA InvariantStep == IInv /\ [EmbeddingNext]_embeddingVars => IInv'
BY TypedStep, LoadedStep, LabelledStep, RecentStep DEF IInv

LEMMA Invariant == EmbeddingSpec => []IInv
BY InvariantInit, InvariantStep, PTL DEF EmbeddingSpec

(* The variables have their types; a write is under way only in the        *)
(* service, and a process holds the database for `database reembed`        *)
(* exactly while there is something to do.                                 *)
THEOREM EmbeddingTypeCorrect == EmbeddingSpec => []EmbeddingTypeOK
<1>1. IInv => EmbeddingTypeOK
    BY DEF IInv, Typed, EmbeddingTypeOK, Reembedding, Resting
<1> QED
    BY <1>1, Invariant, PTL

(* An embedding that was computed under a manifest that lists every file   *)
(* with a checksum is labelled with the revision of the files that         *)
(* computed it, for any models, any settings, installations broken off     *)
(* anywhere, manifests written in part, and any number of crashes; unless  *)
(* a model was installed under the process.                                *)
THEOREM LabelsTrue == EmbeddingSpec => []LabelsAreTrue
<1>1. IInv => LabelsAreTrue
    BY DEF IInv, Labelled, LabelsAreTrue, TruthOf
<1> QED
    BY <1>1, Invariant, PTL

(* The service accepts what it has just computed, unless a model was       *)
(* installed meanwhile, the manifest has another name or dimension than    *)
(* the settings, or a digest only where they have a version: the policy    *)
(* "reembed" does not recurse.                                             *)
THEOREM OwnEmbeddingsFit == EmbeddingSpec => []OwnEmbeddingFits
<1>1. IInv => OwnEmbeddingFits
  <2> SUFFICES ASSUME IInv, WriterAt("validate"), writer.embeddings > 0, ~raced,
                      ~Disagrees
               PROVE  Fits(writer.vector, FoundManifest)
      BY DEF OwnEmbeddingFits
  <2>1. /\ FoundManifest # Torn
        /\ [model |-> writer.vector.model, version |-> writer.vector.version,
            dim |-> writer.vector.dim] = ProviderIdentity(FoundManifest)
      BY DEF IInv, Recent
  <2>2. /\ writer.vector.model = Model
        /\ writer.vector.version = ProviderIdentity(FoundManifest).version
        /\ writer.vector.dim = ProviderIdentity(FoundManifest).dim
      BY <2>1 DEF ProviderIdentity
  <2>3. FoundManifest \in Manifest \cup {None}
      BY <2>1 DEF IInv, Typed, FoundManifest, Directory
  <2>4. CASE FoundManifest = None
      <3>1. writer.vector.dim = Dimension
          BY <2>2, <2>4 DEF ProviderIdentity, Bare, OrElse
      <3>2. ServiceIdentity(None) = [model |-> Model, version |-> Revision]
          BY DEF ServiceIdentity, Bare, OrElse
      <3>3. writer.vector.version = OrElse(Revision, Digest)
          BY <2>2, <2>4 DEF ProviderIdentity, Bare, OrElse
      <3> QED
          BY <2>2, <2>4, <3>1, <3>2, <3>3 DEF Fits, OrElse
  <2>5. CASE FoundManifest # None
      <3>1. FoundManifest.model = Model /\ FoundManifest.dim \in {None, Dimension}
          BY <2>1, <2>5 DEF Disagrees
      <3>2. \/ FoundManifest.revision # None \/ Revision = None
            \/ FoundManifest.digest \in {None, Revision}
          BY <2>1, <2>5 DEF Disagrees
      <3>3. writer.vector.dim = Dimension
          BY <2>2, <2>5, <3>1 DEF ProviderIdentity, OrElse
      <3>4. writer.vector.version = OrElse(OrElse(FoundManifest.revision, Revision),
                                           OrElse(FoundManifest.digest, Digest))
          BY <2>2, <2>5 DEF ProviderIdentity
      <3>5. ServiceIdentity(FoundManifest)
              = [model |-> Model,
                 version |-> OrElse(OrElse(FoundManifest.revision,
                                           FoundManifest.digest), Revision)]
          BY <2>1, <2>5, <3>1 DEF ServiceIdentity
      <3> QED
          BY <2>2, <3>2, <3>3, <3>4, <3>5 DEF Fits, OrElse
  <2> QED
      BY <2>4, <2>5
<1> QED
    BY <1>1, Invariant, PTL
=============================================================================
