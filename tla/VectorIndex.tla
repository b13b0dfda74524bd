---------------------------- MODULE VectorIndex ----------------------------
(***************************************************************************)
(* The gemini_embedding server (servers/gemini_embedding/): texts are      *)
(* embedded by a client over HTTP and kept, with their vectors, in a store *)
(* that is searched by cosine similarity.                                  *)
(*                                                                         *)
(* Client, dimensions and store are globals.  A tool reads the first two   *)
(* before it awaits the embedding, and the store after it (search looks    *)
(* also before, whether there is anything in it); configure() and          *)
(* clear_index come in between.                                            *)
(*                                                                         *)
(* A vector stands for the text, the client and the number of dimensions   *)
(* it was made with.  Vectors of one space are as similar as Similarity    *)
(* says; those of two are compared all the same, component by component as *)
(* far as both go, and score what the constant Mixed says.                 *)
(***************************************************************************)
EXTENDS Integers, Sequences, Functions, FiniteSets, FiniteSetsExt

CONSTANTS
  Calls,       (* the tool calls that overlap                              *)
  Texts, Ids,  (* texts, and item ids                                      *)
  Clients, Dimensions,
  Stores,      (* what a store given to configure() holds                  *)
  Similarity,  (* Similarity[t][u], of texts in one space                  *)
  Mixed,       (* the score across spaces                                  *)
  TopKs,       (* values of top_k                                          *)
  None

VARIABLES
  client, dims,  (* _client, _default_dimensions                           *)
  store,         (* the items of _store, in the order of the dict          *)
  at, job,      (* where call c stands, its arguments, and the space its  *)
                 (* text is embedded in                                    *)
  found,         (* history: the answer of search that was given last, with *)
                 (* its query, top_k, and the store it was made from       *)
  current        (* history: the items, and the calls under way, for which *)
                 (* client and dimensions have not changed                 *)

vars == <<client, dims, store, at, job, found, current>>

Init ==
  /\ client \in Clients /\ dims \in Dimensions
  /\ store = <<>>
  /\ at = [c \in Calls |-> "idle"] /\ job = [c \in Calls |-> None]
  /\ found = None /\ current = {}

-----------------------------------------------------------------------------
(* InMemoryVectorStore                                                     *)

\* A dict: an id that is there keeps its place.
Add(s, item) ==
  IF \E i \in DOMAIN s : s[i].id = item.id
  THEN [i \in DOMAIN s |-> IF s[i].id = item.id THEN item ELSE s[i]]
  ELSE Append(s, item)

CosineSimilarity(u, v) == IF u.space = v.space THEN Similarity[u.text][v.text] ELSE Mixed

\* scored[:top_k], which for a negative top_k leaves the last ones off.
Slice(s, k) == SubSeq(s, 1, IF k < 0 THEN Max({0, Len(s) + k}) ELSE Min({k, Len(s)}))

\* Mutant: the sort is not reversed.
SearchRising(s, v, k) ==
  LET score(i) == CosineSimilarity(v, s[i].vector)
      before(i, j) == score(i) < score(j) \/ (score(i) = score(j) /\ i < j)
      order == CHOOSE p \in [DOMAIN s -> DOMAIN s] :
                 \A m, n \in DOMAIN s : m < n => before(p[m], p[n])
  IN  Slice([n \in DOMAIN s |-> s[order[n]]], k)

\* The items by falling score, equal ones in the order of the store.
Search(s, v, k) ==
  LET score(i) == CosineSimilarity(v, s[i].vector)
      before(i, j) == score(i) > score(j) \/ (score(i) = score(j) /\ i < j)
      order == CHOOSE p \in [DOMAIN s -> DOMAIN s] :
                 \A m, n \in DOMAIN s : m < n => before(p[m], p[n])
  IN  Slice([n \in DOMAIN s |-> s[order[n]]], k)

-----------------------------------------------------------------------------
(* The tools                                                               *)

\* configure(): each global that is given; items stay as they are.
Configure(cl, d) ==
  /\ client' = cl /\ dims' = d
  /\ current' = IF client = cl /\ dims = d THEN current ELSE {}
  /\ found' = None /\ UNCHANGED <<store, at, job>>

\* configure(): a store, which may hold items already, of whatever space.
ConfigureStore ==
  /\ store' \in Stores /\ current' = current \ Ids
  /\ found' = None /\ UNCHANGED <<client, dims, at, job>>

\* Mutant: the dimensions are those of the module.
EmbeddingSpaceDefault == [client |-> client, dims |-> CHOOSE d \in Dimensions : TRUE]

\* The space a text is embedded in: the globals when the call awaits.
EmbeddingSpace == [client |-> client, dims |-> dims]

\* A tool is called; search answers at once when the store is empty.
\* embed_text waits like similarity and answers from its vector alone.
Call(c, f, t, i, k) ==
  LET r == [tool |-> f, text |-> t, id |-> i, top_k |-> k, space |-> EmbeddingSpace] IN
  /\ at[c] = "idle"
  /\ IF f = "search" /\ store = <<>>
     THEN UNCHANGED <<at, job, current>>
     ELSE /\ at' = [at EXCEPT ![c] = "embedding"]
          /\ job' = [job EXCEPT ![c] = r]
          /\ current' = current \cup {c}
  /\ found' = None /\ UNCHANGED <<client, dims, store>>

Vector(c) == [text |-> job[c].text, space |-> job[c].space]

Done(c, still) ==
  /\ at' = [at EXCEPT ![c] = "idle"] /\ job' = [job EXCEPT ![c] = None]
  /\ current' = still \ {c}

\* The vector arrives: index_text puts text and vector in the store of now.
Index(c) ==
  LET item == [id |-> job[c].id, text |-> job[c].text, vector |-> Vector(c)] IN
  /\ at[c] = "embedding" /\ job[c].tool = "index_text"
  /\ store' = Add(store, item)
  /\ Done(c, (current \ {item.id}) \cup (IF c \in current THEN {item.id} ELSE {}))
  /\ found' = None /\ UNCHANGED <<client, dims>>

\* search looks in the store of now, whatever it saw before.
Answer(c) ==
  LET k == job[c].top_k IN
  /\ at[c] = "embedding" /\ job[c].tool = "search"
  /\ found' = [of |-> store, query |-> Vector(c), top_k |-> k,
               items |-> Search(store, Vector(c), k)]
  /\ Done(c, current)
  /\ UNCHANGED <<client, dims, store>>

\* similarity compares two vectors of one request and changes nothing; a
\* client that raises ends a call of any tool.
End(c) ==
  /\ at[c] = "embedding"
  /\ found' = None /\ UNCHANGED <<client, dims, store>>
  /\ Done(c, current)

ClearIndex ==
  /\ store' = <<>> /\ current' = current \ Ids
  /\ found' = None /\ UNCHANGED <<client, dims, at, job>>

Next ==
  \/ \E cl \in Clients, d \in Dimensions : Configure(cl, d)
  \/ ConfigureStore
  \/ ClearIndex
  \/ \E c \in Calls :
       \/ \E t \in Texts, i \in Ids : Call(c, "index_text", t, i, 0)
       \/ \E t \in Texts, k \in TopKs : Call(c, "search", t, None, k)
       \/ Call(c, "similarity", None, None, 0)
       \/ Index(c)
       \/ Answer(c)
       \/ End(c)

Spec == Init /\ [][Next]_vars

-----------------------------------------------------------------------------
(* Properties                                                              *)

\* search returns the best of the store it looks in: as many as top_k asks for
\* (for a negative one all but the last), by falling score, each item once, and
\* none it leaves out scores higher than one it returns.  (search, vector_store)
SearchReturnsBest ==
  found # None =>
    LET score(x) == CosineSimilarity(found.query, x.vector)
        all == Range(found.of)
        got == Range(found.items)
    IN  /\ got \subseteq all /\ Cardinality(got) = Len(found.items)
        /\ found.top_k >= 0 => Len(found.items) = Min({found.top_k, Cardinality(all)})
        /\ found.top_k < 0 => Cardinality(all \ got) = Min({-found.top_k, Cardinality(all)})
        /\ \A x \in got, y \in all \ got : score(x) >= score(y)
        /\ \A i, j \in DOMAIN found.items : i < j => score(found.items[i]) >= score(found.items[j])

\* Whichever of overlapping calls ends last, an id is in the store once, with the
\* vector of its own text; and the items are comparable with what is embedded
\* now, except those whose call began before configure() took another client or
\* other dimensions, and those that came with their store.  (index_text, configure)
SameSpace ==
  \A i \in DOMAIN store :
    /\ store[i].vector.text = store[i].text
    /\ \A j \in DOMAIN store : store[i].id = store[j].id => i = j
    /\ store[i].id \in current => store[i].vector.space = [client |-> client, dims |-> dims]
=============================================================================
