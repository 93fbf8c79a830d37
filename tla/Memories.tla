------------------------------ MODULE Memories ------------------------------
(***************************************************************************)
(* What the agent keeps of a principal beyond its conversations: the       *)
(* preferences it states (memory_service.py) and a summary of each turn    *)
(* (episode_memory_service.py), whose embedding a task of the background   *)
(* adds later.  A statement that fails is logged and changes nothing; the  *)
(* transactions of an owner's episodes exclude each other by their locks.  *)
(***************************************************************************)
EXTENDS Naturals, Sequences, FiniteSets, SequencesExt

CONSTANTS
    Owners,
    Sources,      \* turns; a turn has a request_id of its own
    OwnerOf,
    MemoryKeys,   \* MEMORY_VALUES
    States,       \* the keys each question states a preference for
    Refers,       \* questions that refer to what was said before
    MaxEpisodes,  \* agent_episode_max_per_owner
    Unstated      \* no preference

ASSUME MemoriesAssumption ==
    /\ OwnerOf \in [Sources -> Owners] /\ Unstated \notin Sources
    /\ States \in [Sources -> SUBSET MemoryKeys] /\ Refers \subseteq Sources
    /\ MaxEpisodes \in Nat \ {0} /\ "episode" \notin MemoryKeys

VARIABLES
    facts,      \* agent_memory_fact: the turn that stated each preference
    episodes,   \* agent_memory_episode: the turns with a summary
    ids,        \* the id each row of it was given, 0 for none
    expired,    \* rows whose expires_at is over
    embedding,  \* turns whose summary is being embedded
    deleted,    \* rows deleted, for whatever reason: history
    recalled    \* the rows each turn was answered with: history

memoryVars == <<facts, episodes, ids, expired, embedding, deleted, recalled>>

(* A row is named for its key and the turn it comes from.                  *)
Item == (MemoryKeys \cup {"episode"}) \X Sources

MemoriesTypeOK ==
    /\ facts \in [Owners -> [MemoryKeys -> Sources \cup {Unstated}]]
    /\ episodes \in [Owners -> SUBSET Sources]
    /\ ids \in [Sources -> Nat]
    /\ expired \subseteq Item /\ deleted \subseteq Item
    /\ embedding \subseteq Sources
    /\ recalled \in [Sources -> SUBSET Item]

MemoriesInit ==
    /\ facts = [o \in Owners |-> [k \in MemoryKeys |-> Unstated]]
    /\ episodes = [o \in Owners |-> {}]
    /\ ids = [s \in Sources |-> 0]
    /\ expired = {} /\ embedding = {} /\ deleted = {}
    /\ recalled = [s \in Sources |-> {}]

Episodes(turns) == {<<"episode", s>> : s \in turns}

Facts(o) == {<<k, facts[o][k]>> : k \in {k \in MemoryKeys : facts[o][k] # Unstated}}

-----------------------------------------------------------------------------

(* Episodes are looked for when a question refers to them; which of them   *)
(* are similar to it, by embedding or by words, is left open.              *)
Similar(s) ==
    IF s \in Refers THEN SUBSET (Episodes(episodes[OwnerOf[s]]) \ expired) ELSE {{}}

(* Preferences of all kinds, and episodes.  Either read may fail.          *)
Recall(s) ==
    /\ \E known \in {{}, Facts(OwnerOf[s]) \ expired}, found \in Similar(s) :
         recalled' = [recalled EXCEPT ![s] = known \cup found]
    /\ UNCHANGED <<facts, episodes, ids, expired, embedding, deleted>>

(* The rows under the keys that a question states a preference for.        *)
Restated(s) ==
    LET o == OwnerOf[s] IN {<<k, facts[o][k]>> : k \in {k \in States[s] : facts[o][k] # Unstated}}

(* remember_turn: each preference replaces the one under its key.          *)
RememberTurn(s) ==
    /\ facts' = [facts EXCEPT ![OwnerOf[s]] =
                    [k \in MemoryKeys |-> IF k \in States[s] THEN s ELSE @[k]]]
    /\ expired' = expired \ Restated(s)
    /\ deleted' = deleted \cup Restated(s)
    /\ UNCHANGED <<episodes, ids, embedding, recalled>>

(* save_episode: the expired ones go, and the oldest beyond the limit.     *)
Remember(s) ==
    LET o == OwnerOf[s]
        id == [ids EXCEPT ![s] = 1 + Cardinality({q \in Sources : ids[q] # 0})]
        alive == {e \in episodes[o] \cup {s} : <<"episode", e>> \notin expired}
        kept == {e \in alive : Cardinality({q \in alive : id[q] > id[e]}) < MaxEpisodes}
    IN  /\ ids' = id
        /\ episodes' = [episodes EXCEPT ![o] = kept]
        /\ deleted' = deleted \cup (Episodes(episodes[o]) \ Episodes(kept))
        /\ expired' = expired \ Episodes(episodes[o])
        /\ embedding' \in {embedding, embedding \cup {s}}
        /\ UNCHANGED <<facts, recalled>>

(* Faulty variant of EmbedEpisode: it writes the row as save_episode does. *)
EmbedEpisodeAnew(s) ==
    /\ s \in embedding
    /\ embedding' = embedding \ {s}
    /\ episodes' = [episodes EXCEPT ![OwnerOf[s]] = @ \cup {s}]
    /\ UNCHANGED <<facts, ids, expired, deleted, recalled>>

(* _embed_episode: an UPDATE of the row of this turn, if it is still there;*)
(* what it writes only ranks the rows that Recall finds.                   *)
EmbedEpisode(s) ==
    /\ s \in embedding
    /\ embedding' = embedding \ {s}
    /\ UNCHANGED <<facts, episodes, ids, expired, deleted, recalled>>

DeleteMemory(o, k) ==
    /\ facts[o][k] # Unstated
    /\ facts' = [facts EXCEPT ![o][k] = Unstated]
    /\ deleted' = deleted \cup {<<k, facts[o][k]>>}
    /\ expired' = expired \ {<<k, facts[o][k]>>}
    /\ UNCHANGED <<episodes, ids, embedding, recalled>>

DeleteEpisode(o, s) ==
    /\ s \in episodes[o]
    /\ episodes' = [episodes EXCEPT ![o] = @ \ {s}]
    /\ deleted' = deleted \cup {<<"episode", s>>}
    /\ expired' = expired \ {<<"episode", s>>}
    /\ UNCHANGED <<facts, ids, embedding, recalled>>

Expires(o) ==
    /\ \E item \in (Facts(o) \cup Episodes(episodes[o])) \ expired :
         expired' = expired \cup {item}
    /\ UNCHANGED <<facts, episodes, ids, embedding, deleted, recalled>>

(* What the owner does on the page of memories, the background, and time.  *)
MemoryStep ==
    \/ \E s \in Sources : EmbedEpisode(s)
    \/ \E o \in Owners : \E k \in MemoryKeys : DeleteMemory(o, k)
    \/ \E o \in Owners : \E s \in Sources : DeleteEpisode(o, s)
    \/ \E o \in Owners : Expires(o)
=============================================================================
