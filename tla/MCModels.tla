------------------------------ MODULE MCModels ------------------------------
(* The two kinds of embedding providers: a remote one behind the HTTP      *)
(* client, and a model in a local directory.  A service has one of them,   *)
(* so a behaviour is about one.                                            *)
EXTENDS MCRemoteClient, MCLocalModel

VARIABLE part

modelVars == <<vars, embeddingVars, part>>

(* Bound: an installation under a running process is the only event, and   *)
(* its manifest is whole or cannot be read.                                *)
FewRaces ==
    raced => /\ used.installs + used.writes + used.faults <= 1
             /\ \/ FoundManifest \in {None, Torn}
                \/ \E s \in Sources : FoundManifest = Installed(s).manifest

ModelsInit ==
    /\ part \in {"remote", "local"}
    /\ Init /\ EmbeddingInit
    /\ \/ part = "local"
       \/ directory = None /\ settings.policy = "reembed"

ModelsNext ==
    /\ \/ part = "remote" /\ Next /\ UNCHANGED embeddingVars
       \/ part = "local" /\ EmbeddingNext /\ UNCHANGED vars
    /\ UNCHANGED part

Remote(A) == part = "remote" /\ A /\ UNCHANGED <<embeddingVars, part>>
Local(A)  == part = "local" /\ A /\ UNCHANGED <<vars, part>>

(* The fairness of the two: requests go on and the breaker's time elapses; *)
(* installations, calls and re-embeddings go on, the service is stopped    *)
(* now and then, and then somebody runs the re-embedding.                  *)
ModelsFairness ==
    /\ \A c \in Callers : /\ WF_modelVars(Remote(Request(c)))
                          /\ WF_modelVars(Remote(Proceed(c)))
    /\ WF_modelVars(Remote(ResetElapses))
    /\ WF_modelVars(Local(Install))
    /\ WF_modelVars(Local(LoadModel \/ Write))
    /\ WF_modelVars(Local(Reembed))
    /\ SF_modelVars(Local(StopService))
    /\ SF_modelVars(Local(BeginReembed(Cardinality(Records))))

ModelsSpec == ModelsInit /\ [][ModelsNext]_modelVars /\ ModelsFairness

(* In the behaviours with a local model: somebody who keeps running        *)
(* `database reembed` reaches the point where every memory has an          *)
(* embedding of the installed model (EverythingReembedded of Embeddings).  *)
LocalIsReembedded == part = "local" => EverythingReembedded
=============================================================================
