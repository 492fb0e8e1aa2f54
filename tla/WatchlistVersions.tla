-------------------------- MODULE WatchlistVersions --------------------------
(***************************************************************************)
(* Versions of the regulatory watchlists: POST /compliance/watchlist/      *)
(* upload (orchestrator.process_watchlist_update and                       *)
(* DataIngestionAgent.ingest_watchlist) against the choice of the active   *)
(* version by a screening (ScreeningAgent._get_active_watchlist_id).       *)
(* A client sends its requests one after the other; clients run at once.   *)
(***************************************************************************)
EXTENDS Naturals, Sequences, FiniteSets

CONSTANTS
  Clients,
  Lists,       \* list names
  OFAC_SDN,    \* the only list a screening looks up
  Contents,    \* raw contents; a checksum identifies one
  Script       \* Script[c]: what c sends, [op, list, content]

ASSUME WatchlistAssumption ==
  /\ OFAC_SDN \in Lists
  /\ Script \in [Clients -> Seq([op : {"upload", "screen"}, list : Lists,
                                 content : Contents])]

VARIABLES
  versions,  \* table watchlist_versions, in the order of insertion
  now,       \* the clock: it advances with every version built
  pc,        \* pc[c]: the next step of c's request
  wl,        \* wl[c]: the WatchlistVersion in c's request
  told,      \* told[c]: the versions c's finished requests were told
  events     \* the versions of the "Watchlist updated" audit events

vars == <<versions, now, pc, wl, told, events>>

-----------------------------------------------------------------------------
(* loaded_at doubles as the version's id: no two versions are built at the *)
(* same instant.                                                           *)
Placeholder ==    \* "wl-placeholder-no-list-loaded"
  [list |-> OFAC_SDN, content |-> "none", loaded |-> 0]

Failed == [list |-> OFAC_SDN, content |-> "failed", loaded |-> 0]

(* Variant of WatchlistVersion: loaded_at is the day the list takes effect.*)
WatchlistVersion_Effective(q) ==
  [list |-> q.list, content |-> q.content, loaded |-> now + 2]

WatchlistVersion(q) ==
  [list |-> q.list, content |-> q.content, loaded |-> now + 1]

Rows == {versions[i] : i \in DOMAIN versions}

(* Variant of Existing: WHERE checksum = ? only.                           *)
Existing_AnyList(q) == {v \in Rows : v.content = q.content}

(* WHERE list_name = ? AND checksum = ?                                    *)
Existing(q) == {v \in Rows : v.list = q.list /\ v.content = q.content}

(* Variant of ActiveVersion: the last row inserted.                        *)
ActiveVersion_LastRow(list) ==
  LET mine == {i \in DOMAIN versions : versions[i].list = list}
  IN  IF mine = {} THEN Placeholder
      ELSE versions[CHOOSE i \in mine : \A j \in mine : j <= i]

(* ORDER BY loaded_at DESC LIMIT 1                                         *)
ActiveVersion(list) ==
  LET mine == {v \in Rows : v.list = list}
  IN  IF mine = {} THEN Placeholder
      ELSE CHOOSE v \in mine : \A u \in mine : u.loaded <= v.loaded

Request(c) == Script[c][Len(told[c]) + 1]

Sends(c, op) ==
  /\ pc[c] = "idle"
  /\ Len(told[c]) < Len(Script[c])
  /\ Request(c).op = op

Tell(c, v) ==
  /\ told' = [told EXCEPT ![c] = Append(@, v)]
  /\ pc'   = [pc EXCEPT ![c] = "idle"]

-----------------------------------------------------------------------------
Init ==
  /\ versions = << >>
  /\ now      = 0
  /\ pc       = [c \in Clients |-> "idle"]
  /\ wl       = [c \in Clients |-> Placeholder]
  /\ told     = [c \in Clients |-> << >>]
  /\ events   = {}

(* The version exists already: it is returned as it is.                    *)
FindVersion(c) ==
  /\ Sends(c, "upload")
  /\ \E v \in Existing(Request(c)) : wl' = [wl EXCEPT ![c] = v]
  /\ pc' = [pc EXCEPT ![c] = "log"]
  /\ UNCHANGED <<versions, now, told, events>>

BuildVersion(c) ==
  /\ Sends(c, "upload")
  /\ Existing(Request(c)) = {}
  /\ wl'  = [wl EXCEPT ![c] = WatchlistVersion(Request(c))]
  /\ now' = now + 1
  /\ pc'  = [pc EXCEPT ![c] = "insert"]
  /\ UNCHANGED <<versions, told, events>>

InsertVersion(c) ==
  /\ pc[c] = "insert"
  /\ versions' = Append(versions, wl[c])
  /\ pc' = [pc EXCEPT ![c] = "log"]
  /\ UNCHANGED <<now, wl, told, events>>

(* record_system_event, and the response with the version id.              *)
LogUpdate(c) ==
  /\ pc[c] = "log"
  /\ events' = events \cup {wl[c]}
  /\ Tell(c, wl[c])
  /\ UNCHANGED <<versions, now, wl>>

(* A screening takes the active version of OFAC_SDN as its reference.      *)
Screen(c) ==
  /\ Sends(c, "screen")
  /\ Tell(c, ActiveVersion(OFAC_SDN))
  /\ UNCHANGED <<versions, now, wl, events>>

(* An exception or a crash ends the request; the tables keep what they got *)
Abort(c) ==
  /\ pc[c] \in {"insert", "log"}
  /\ Tell(c, Failed)
  /\ UNCHANGED <<versions, now, wl, events>>

Next ==
  \E c \in Clients :
    \/ FindVersion(c) \/ BuildVersion(c) \/ InsertVersion(c)
    \/ LogUpdate(c) \/ Screen(c) \/ Abort(c)

Spec == Init /\ [][Next]_vars

-----------------------------------------------------------------------------
VersionType ==
  [list : Lists, content : Contents \cup {"none", "failed"}, loaded : 0..now]

(* Rows, locals and answers are versions, none loaded in the future.       *)
TypeOK ==
  /\ now \in Nat
  /\ versions \in Seq(VersionType)
  /\ pc \in [Clients -> {"idle", "insert", "log"}]
  /\ wl \in [Clients -> VersionType]
  /\ told \in [Clients -> Seq(VersionType)]
  /\ events \subseteq VersionType

(* The version an upload is told is in the table, is the list and content  *)
(* it sent, and has its audit event (orchestrator.py:188-205).             *)
ToldIsStored ==
  \A c \in Clients : \A i \in DOMAIN told[c] :
    /\ Script[c][i].op = "upload"
    /\ told[c][i] # Failed
    => /\ told[c][i] \in Rows \cap events
       /\ told[c][i].list = Script[c][i].list
       /\ told[c][i].content = Script[c][i].content

(* What a client knows of the active version of OFAC_SDN: a screening says *)
(* it, an upload makes one.                                                *)
Knows(q) == q.op = "screen" \/ q.list = OFAC_SDN

(* A client's screening is made against a version at least as new as every *)
(* one the same client knows of, even when uploads reach the table in      *)
(* another order than they were built (screening/agent.py:388-399).        *)
ScreeningNotStale ==
  \A c \in Clients : \A i, j \in DOMAIN told[c] :
    /\ i < j
    /\ Knows(Script[c][i])
    /\ Script[c][j].op = "screen"
    => told[c][j].loaded >= told[c][i].loaded

=============================================================================
