------------------------------ MODULE MCSearch ------------------------------
(* What happens to the contents of an open database: memories are changed  *)
(* by two clients, a document is cut into chunks, a search or an inventory *)
(* reads while others write, and candidates are scored.  The five models   *)
(* share no state (each abstracts the records to what it is about), so a   *)
(* behaviour is one of the five.                                           *)
EXTENDS MCMemories, Chunking, Retrieval, Scoring, Inventory

VARIABLE part

contentVars ==
    <<vars, chunkVars, retrievalVars, scoringVars, inventoryVars, part>>

(* Lines of one and two words, blank lines, headings of three levels and   *)
(* fences of three and four characters.                                    *)
Of(kind, size) == [kind |-> kind, size |-> size]

MCKinds ==
    {Of("text", 1), Of("text", 2), Of("blank", 0), Of("heading", 1),
     Of("heading", 2), Of("heading", 3), Of("fence", 3), Of("fence", 4)}

MCChunkSettings ==
    {[maxTokens |-> 2, overlap |-> 1, preserveCode |-> TRUE],
     [maxTokens |-> 3, overlap |-> 2, preserveCode |-> FALSE],
     [maxTokens |-> 3, overlap |-> 0, preserveCode |-> TRUE]}

(* Four records: in one library three of the scope share keys in a chain,  *)
(* in the other one in the scope shares its key with one outside.          *)
Shelf(inScope, near, worded, keys) ==
    [inScope |-> inScope, embedded |-> near, near |-> near,
     worded |-> worded, keys |-> keys]

MCLibraries == {
    << Shelf(TRUE, TRUE, FALSE, {"stable"}),
       Shelf(TRUE, TRUE, TRUE, {"stable", "hash"}),
       Shelf(TRUE, FALSE, TRUE, {"hash"}),
       Shelf(FALSE, TRUE, FALSE, {"hash"}) >>,
    << Shelf(TRUE, TRUE, TRUE, {}),
       Shelf(FALSE, TRUE, FALSE, {"stable"}),
       Shelf(FALSE, FALSE, TRUE, {}),
       [Shelf(TRUE, FALSE, TRUE, {"stable"}) EXCEPT !.embedded = TRUE] >> }

MCLinkSets == {{}, {{1, 2}, {2, 3}}}

(* Raw scores on a scale of two, some of them missing or out of range.     *)
Profile(fusion, vector, rating) ==
    [c \in Components |->
       CASE c = "retrieval_fusion" -> fusion
         [] c = "vector" -> vector
         [] c \in {"temporal", "importance", "confidence"} -> 2
         [] c = "user_rating" -> rating
         [] OTHER -> NoScore]

MCProfiles ==
    {Profile(fusion, vector, rating) :
       fusion \in {1, 2}, vector \in {NoScore, 1, 3}, rating \in {NoScore, 1}}

Weighing(fusion, vector, importance, rating, relevance) ==
    [c \in Components |->
       CASE c = "retrieval_fusion" -> fusion
         [] c = "vector" -> vector
         [] c = "importance" -> importance
         [] c = "user_rating" -> rating
         [] c = "reranker" -> relevance
         [] OTHER -> 0]

MCWeightMaps == {Weighing(2, 1, 1, 1, 2), Weighing(1, 3, -1, 0, 0)}

(* What two records may be: a chunk, or memories of two types, two         *)
(* statuses, and four scopes with two users.                               *)
Described(type, status, user, project, agent) ==
    [memory_type |-> type, status |-> status,
     user_id |-> user, project_id |-> project, agent_id |-> agent]

MCDescriptions ==
    {Described("document_chunk", "active", 0, 1, 0),
     Described("project_fact", "active", 0, 0, 0),
     Described("project_fact", "expired", 1, 0, 0),
     Described("task_state", "active", 2, 1, 1)}

MCTypes == <<"document_chunk", "project_fact", "task_state">>

MCRequests ==
    {[full |-> FALSE, chunks |-> FALSE, named |-> FALSE],
     [full |-> TRUE, chunks |-> TRUE, named |-> FALSE],
     [full |-> TRUE, chunks |-> FALSE, named |-> TRUE]}

ContentInit ==
    /\ part \in {"memories", "chunking", "search", "scoring", "inventory"}
    /\ Init
    /\ \/ part = "inventory" /\ InventoryInit
       \/ /\ part # "inventory" /\ stock = [m \in Held |-> NoRecord]
          /\ InventoryInit
    /\ \/ part = "chunking" /\ ChunkingInit
       \/ /\ part # "chunking" /\ document = << >>
          /\ ChunkingInit /\ chunking.maxTokens = 2
    /\ \/ part = "search" /\ RetrievalInit
       \/ /\ part # "search" /\ shelf = [m \in Shelved |-> "hidden"]
          /\ links = {} /\ reranker = TRUE /\ library = CHOOSE l \in Libraries : TRUE
          /\ RetrievalInit
    /\ \/ part = "scoring" /\ ScoringInit
       \/ /\ part # "scoring" /\ reranking = FALSE
          /\ raw = [m \in Contenders |-> CHOOSE p \in Profiles : TRUE]
          /\ weights = CHOOSE w \in WeightMaps : TRUE
          /\ ScoringInit

(* A search that has used up its bounds. *)
OutOfBounds ==
    /\ search = NoSearch
    /\ tally = [searches |-> MaxSearches, changes |-> MaxChanges]

ContentNext ==
    /\ \/ /\ part = "memories" /\ Next
          /\ UNCHANGED <<chunkVars, retrievalVars, scoringVars, inventoryVars>>
       \/ /\ part = "chunking" /\ ChunkingNext
          /\ UNCHANGED <<vars, retrievalVars, scoringVars, inventoryVars>>
       \/ /\ part = "search" /\ RetrievalNext
          /\ UNCHANGED <<vars, chunkVars, scoringVars, inventoryVars>>
       \/ /\ part = "search" /\ OutOfBounds
          /\ UNCHANGED <<vars, chunkVars, retrievalVars, scoringVars, inventoryVars>>
       \/ /\ part = "scoring" /\ ScoringNext
          /\ UNCHANGED <<vars, chunkVars, retrievalVars, inventoryVars>>
       \/ /\ part = "inventory" /\ InventoryNext
          /\ UNCHANGED <<vars, chunkVars, retrievalVars, scoringVars>>
    /\ UNCHANGED part

ContentSpec == ContentInit /\ [][ContentNext]_contentVars
=============================================================================
