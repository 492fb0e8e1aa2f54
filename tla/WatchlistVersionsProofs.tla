----------------------- MODULE WatchlistVersionsProofs -----------------------
(***************************************************************************)
(* What a client can rely on when it uploads lists and screens, for any    *)
(* number of clients, lists and contents and any scripts.                  *)
(***************************************************************************)
EXTENDS WatchlistVersions, SumsProofs

-----------------------------------------------------------------------------
(* Types.                                                                  *)

LEMMA VersionTypeGrows ==
  ASSUME now \in Nat, now' \in Nat, now <= now'
  PROVE  VersionType \subseteq VersionType'
<1>1. 0..now \subseteq 0..now'
  OBVIOUS
<1> QED
  BY <1>1 DEF VersionType

LEMMA NoVersionTypes ==
  ASSUME now \in Nat
  PROVE  Placeholder \in VersionType /\ Failed \in VersionType
BY WatchlistAssumption DEF Placeholder, Failed, VersionType

LEMMA SentRequest ==
  ASSUME TypeOK, NEW c \in Clients, NEW op, Sends(c, op)
  PROVE  /\ Request(c).list \in Lists /\ Request(c).content \in Contents
         /\ Request(c).op = op
         /\ Len(told[c]) + 1 \in DOMAIN Script[c]
<1>1. Len(told[c]) \in Nat /\ Len(told[c]) < Len(Script[c])
  BY DEF TypeOK, Sends
<1> DEFINE T == [op : {"upload", "screen"}, list : Lists, content : Contents]
<1>2. Script[c] \in Seq(T)
  BY WatchlistAssumption
<1>3. Len(told[c]) + 1 \in DOMAIN Script[c]
  BY <1>1, <1>2
<1> HIDE DEF T
<1>4. Script[c][Len(told[c]) + 1] \in T
  BY <1>2, <1>3
<1> QED
  BY <1>3, <1>4 DEF T, Request, Sends

LEMMA RowsTyped == TypeOK => Rows \subseteq VersionType
BY DEF TypeOK, Rows

(* The answer of a screening.                                              *)
OfacRows == {v \in Rows : v.list = OFAC_SDN}

LEMMA NewestRow ==
  ASSUME TypeOK, OfacRows # {}
  PROVE  /\ ActiveVersion(OFAC_SDN) \in OfacRows
         /\ \A u \in OfacRows : u.loaded <= ActiveVersion(OFAC_SDN).loaded
<1> DEFINE Ages == {n \in Nat : \E v \in OfacRows : v.loaded = now - n}
<1>1. now \in Nat /\ \A v \in OfacRows : v.loaded \in 0..now
  BY RowsTyped DEF TypeOK, OfacRows, VersionType
<1>2. \A v \in OfacRows : now - v.loaded \in Ages
  BY <1>1
<1>3. Ages # {}
  BY <1>2
<1>4. PICK n \in Ages : \A k \in Ages : n <= k
  BY <1>3, LeastElement
<1>5. PICK v \in OfacRows : v.loaded = now - n
  OBVIOUS
<1>6. \A u \in OfacRows : u.loaded <= v.loaded
  BY <1>1, <1>2, <1>4, <1>5
<1>7. ActiveVersion(OFAC_SDN)
        = CHOOSE w \in OfacRows : \A u \in OfacRows : u.loaded <= w.loaded
  BY DEF ActiveVersion, OfacRows
<1> HIDE DEF Ages
<1> QED
  BY <1>6, <1>7

LEMMA ScreenedType ==
  ASSUME TypeOK
  PROVE  ActiveVersion(OFAC_SDN) \in VersionType
<1>1. CASE OfacRows = {}
  <2>1. ActiveVersion(OFAC_SDN) = Placeholder
    BY <1>1 DEF ActiveVersion, OfacRows
  <2> QED
    BY <2>1, NoVersionTypes DEF TypeOK
<1>2. CASE OfacRows # {}
  BY <1>2, NewestRow, RowsTyped DEF OfacRows
<1> QED
  BY <1>1, <1>2

LEMMA InitTypeOK == Init => TypeOK
BY NoVersionTypes DEF Init, TypeOK

LEMMA TellTyped ==
  ASSUME TypeOK, NEW c \in Clients, NEW v \in VersionType, Tell(c, v)
  PROVE  /\ told' \in [Clients -> Seq(VersionType)]
         /\ pc' \in [Clients -> {"idle", "insert", "log"}]
BY DEF TypeOK, Tell

LEMMA StepTypeOK == TypeOK /\ [Next]_vars => TypeOK'
<1> SUFFICES ASSUME TypeOK, [Next]_vars PROVE TypeOK'
  OBVIOUS
<1>1. ASSUME NEW c \in Clients, FindVersion(c) PROVE TypeOK'
  <2>1. PICK v \in Existing(Request(c)) : wl' = [wl EXCEPT ![c] = v]
    BY <1>1 DEF FindVersion
  <2>2. v \in VersionType
    BY RowsTyped DEF Existing
  <2> QED
    BY <1>1, <2>1, <2>2 DEF FindVersion, TypeOK, VersionType
<1>2. ASSUME NEW c \in Clients, BuildVersion(c) PROVE TypeOK'
  <2>1. now' = now + 1 /\ now \in Nat
    BY <1>2 DEF BuildVersion, TypeOK
  <2>2. VersionType \subseteq VersionType'
    BY <2>1, VersionTypeGrows
  <2>3. WatchlistVersion(Request(c)) \in VersionType'
    <3>1. /\ Request(c).list \in Lists /\ Request(c).content \in Contents
          /\ now + 1 \in 0..now'
      BY <1>2, <2>1, SentRequest DEF BuildVersion
    <3> QED
      BY <3>1 DEF WatchlistVersion, VersionType
  <2> DEFINE T == VersionType
  <2> HIDE DEF T
  <2>4. /\ versions \in Seq(T) /\ wl \in [Clients -> T]
        /\ told \in [Clients -> Seq(T)] /\ events \subseteq T
    BY DEF TypeOK, T
  <2>5. T \subseteq T' /\ WatchlistVersion(Request(c)) \in T'
    BY <2>2, <2>3 DEF T
  <2>6. /\ versions' \in Seq(T') /\ wl' \in [Clients -> T']
        /\ told' \in [Clients -> Seq(T')] /\ events' \subseteq T'
    <3>1. Seq(T) \subseteq Seq(T')
      BY <2>5
    <3> QED
      BY <1>2, <2>4, <2>5, <3>1 DEF BuildVersion
  <2> QED
    BY <1>2, <2>1, <2>6 DEF BuildVersion, TypeOK, T
<1>3. ASSUME NEW c \in Clients,
             InsertVersion(c) \/ LogUpdate(c) \/ Screen(c) \/ Abort(c)
      PROVE  TypeOK'
  <2>1. now' = now /\ VersionType' = VersionType
    BY <1>3 DEF InsertVersion, LogUpdate, Screen, Abort, VersionType
  <2>2. wl[c] \in VersionType /\ Failed \in VersionType
    BY NoVersionTypes DEF TypeOK
  <2>3. CASE InsertVersion(c)
    BY <2>1, <2>2, <2>3 DEF InsertVersion, TypeOK
  <2>4. CASE LogUpdate(c)
    BY <2>1, <2>2, <2>4, TellTyped DEF LogUpdate, TypeOK
  <2>5. CASE Screen(c)
    BY <2>1, <2>5, ScreenedType, TellTyped DEF Screen, TypeOK
  <2>6. CASE Abort(c)
    BY <2>1, <2>2, <2>6, TellTyped DEF Abort, TypeOK
  <2> QED
    BY <1>3, <2>3, <2>4, <2>5, <2>6
<1>4. CASE UNCHANGED vars
  BY <1>4 DEF vars, TypeOK, VersionType
<1> QED
  BY <1>1, <1>2, <1>3, <1>4 DEF Next

(* Rows, locals and answers are versions, none loaded in the future.       *)
THEOREM SpecTypeOK == Spec => []TypeOK
BY InitTypeOK, StepTypeOK, PTL DEF Spec

-----------------------------------------------------------------------------
(* A request and its answer.                                               *)

(* The version an upload is at work on is the one it sent, and in the      *)
(* table when its audit event is due.                                      *)
UploadInHand(c) ==
  /\ pc[c] \in {"insert", "log"} =>
       /\ Len(told[c]) + 1 \in DOMAIN Script[c]
       /\ Request(c).op = "upload"
       /\ wl[c].list = Request(c).list
       /\ wl[c].content = Request(c).content
  /\ pc[c] = "log" => wl[c] \in Rows

InHand == \A c \in Clients : UploadInHand(c)

LEMMA RowsGrow ==
  ASSUME TypeOK, [Next]_vars
  PROVE  Rows \subseteq Rows' /\ OfacRows \subseteq OfacRows'
<1>1. CASE versions' = versions
  BY <1>1 DEF Rows, OfacRows
<1>2. ASSUME NEW c \in Clients, InsertVersion(c)
      PROVE  Rows \subseteq Rows' /\ OfacRows \subseteq OfacRows'
  <2>1. versions' = Append(versions, wl[c]) /\ versions \in Seq(VersionType)
        /\ wl[c] \in VersionType
    BY <1>2 DEF InsertVersion, TypeOK
  <2>2. \A i \in DOMAIN versions :
          i \in DOMAIN versions' /\ versions'[i] = versions[i]
    BY <2>1
  <2>3. Rows \subseteq Rows'
    BY <2>2 DEF Rows
  <2> QED
    BY <2>3 DEF OfacRows
<1> QED
  BY <1>1, <1>2 DEF Next, vars, FindVersion, BuildVersion, LogUpdate, Screen,
     Abort

LEMMA Inserted ==
  ASSUME TypeOK, NEW c \in Clients, InsertVersion(c)
  PROVE  wl[c] \in Rows'
<1>1. versions' = Append(versions, wl[c]) /\ versions \in Seq(VersionType)
      /\ wl[c] \in VersionType
  BY DEF InsertVersion, TypeOK
<1>2. Len(versions) + 1 \in DOMAIN versions'
      /\ versions'[Len(versions) + 1] = wl[c]
  BY <1>1
<1> QED
  BY <1>2 DEF Rows

LEMMA StepInHand == TypeOK /\ InHand /\ [Next]_vars => InHand'
<1> SUFFICES ASSUME TypeOK, InHand, [Next]_vars, NEW c \in Clients
             PROVE  UploadInHand(c)'
  BY DEF InHand
<1>0. UploadInHand(c)
  BY DEF InHand
<1>1. CASE pc'[c] = pc[c] /\ wl'[c] = wl[c] /\ told'[c] = told[c]
  BY <1>0, <1>1, RowsGrow DEF UploadInHand, Request
<1>2. ASSUME NEW d \in Clients, d # c,
             \/ FindVersion(d) \/ BuildVersion(d) \/ InsertVersion(d)
             \/ LogUpdate(d) \/ Screen(d) \/ Abort(d)
      PROVE  pc'[c] = pc[c] /\ wl'[c] = wl[c] /\ told'[c] = told[c]
  BY <1>2 DEF FindVersion, BuildVersion, InsertVersion, LogUpdate, Screen,
     Abort, Tell, TypeOK
<1>3. CASE FindVersion(c)
  <2>1. PICK v \in Existing(Request(c)) : wl' = [wl EXCEPT ![c] = v]
    BY <1>3 DEF FindVersion
  <2>2. wl'[c] = v /\ v \in Rows /\ v.list = Request(c).list
        /\ v.content = Request(c).content
    BY <2>1 DEF Existing, TypeOK
  <2>3. Request(c)' = Request(c) /\ Rows' = Rows /\ told' = told
    BY <1>3 DEF FindVersion, Request, Rows
  <2>4. Request(c).op = "upload" /\ Len(told[c]) + 1 \in DOMAIN Script[c]
    BY <1>3, SentRequest DEF FindVersion
  <2> QED
    BY <2>2, <2>3, <2>4 DEF UploadInHand
<1>4. CASE BuildVersion(c)
  <2>1. /\ wl'[c].list = Request(c).list /\ wl'[c].content = Request(c).content
        /\ pc'[c] = "insert"
    BY <1>4 DEF BuildVersion, WatchlistVersion, TypeOK
  <2>2. Request(c)' = Request(c) /\ told' = told
    BY <1>4 DEF BuildVersion, Request
  <2>3. Request(c).op = "upload" /\ Len(told[c]) + 1 \in DOMAIN Script[c]
    BY <1>4, SentRequest DEF BuildVersion
  <2> QED
    BY <2>1, <2>2, <2>3 DEF UploadInHand
<1>5. CASE InsertVersion(c)
  <2>1. /\ pc[c] = "insert" /\ wl' = wl /\ told' = told
        /\ Request(c)' = Request(c)
    BY <1>5 DEF InsertVersion, Request
  <2>2. wl'[c] \in Rows'
    BY <1>5, <2>1, Inserted
  <2> QED
    BY <1>0, <2>1, <2>2 DEF UploadInHand
<1>6. CASE LogUpdate(c) \/ Screen(c) \/ Abort(c)
  <2>1. pc'[c] = "idle"
    BY <1>6 DEF LogUpdate, Screen, Abort, Tell, TypeOK
  <2> QED
    BY <2>1 DEF UploadInHand
<1>7. CASE UNCHANGED vars
  BY <1>1, <1>7 DEF vars
<1> QED
  BY <1>1, <1>2, <1>3, <1>4, <1>5, <1>6, <1>7 DEF Next

LEMMA Told ==
  ASSUME TypeOK, NEW c \in Clients, NEW v \in VersionType, Tell(c, v)
  PROVE  /\ DOMAIN told'[c] = DOMAIN told[c] \cup {Len(told[c]) + 1}
         /\ told'[c][Len(told[c]) + 1] = v
         /\ \A i \in DOMAIN told[c] : told'[c][i] = told[c][i]
         /\ \A d \in Clients : d # c => told'[d] = told[d]
<1>1. told[c] \in Seq(VersionType) /\ told'[c] = Append(told[c], v)
  BY DEF TypeOK, Tell
<1>2. \A d \in Clients : d # c => told'[d] = told[d]
  BY DEF TypeOK, Tell
<1> QED
  BY <1>1, <1>2

(* Of the answers of c one is new, and it is the one that a step gives.    *)
LEMMA NewAnswer ==
  ASSUME TypeOK, InHand, [Next]_vars, NEW c \in Clients,
         NEW i \in DOMAIN told'[c]
  PROVE  \/ i \in DOMAIN told[c] /\ told'[c][i] = told[c][i]
         \/ /\ i = Len(told[c]) + 1
            /\ \/ LogUpdate(c) /\ told'[c][i] = wl[c]
               \/ /\ Screen(c) /\ Script[c][i].op = "screen"
                  /\ told'[c][i] = ActiveVersion(OFAC_SDN)
               \/ Abort(c) /\ told'[c][i] = Failed
<1>1. CASE told'[c] = told[c]
  BY <1>1
<1>2. wl[c] \in VersionType /\ Failed \in VersionType
      /\ ActiveVersion(OFAC_SDN) \in VersionType
  BY NoVersionTypes, ScreenedType DEF TypeOK
<1>3. CASE LogUpdate(c)
  BY <1>2, <1>3, Told DEF LogUpdate
<1>4. CASE Screen(c)
  <2>1. Script[c][Len(told[c]) + 1].op = "screen"
    BY <1>4 DEF Screen, Sends, Request
  <2> QED
    BY <1>2, <1>4, <2>1, Told DEF Screen
<1>5. CASE Abort(c)
  BY <1>2, <1>5, Told DEF Abort
<1>6. ASSUME NEW d \in Clients, d # c,
             LogUpdate(d) \/ Screen(d) \/ Abort(d)
      PROVE  told'[c] = told[c]
  BY <1>6 DEF LogUpdate, Screen, Abort, Tell, TypeOK
<1> QED
  BY <1>1, <1>3, <1>4, <1>5, <1>6 DEF Next, vars, FindVersion, BuildVersion,
     InsertVersion

LEMMA StepToldIsStored ==
  TypeOK /\ InHand /\ ToldIsStored /\ [Next]_vars => ToldIsStored'
<1> SUFFICES ASSUME TypeOK, InHand, ToldIsStored, [Next]_vars,
                    NEW c \in Clients, NEW i \in DOMAIN told'[c],
                    Script[c][i].op = "upload", told'[c][i] # Failed
             PROVE  /\ told'[c][i] \in Rows' \cap events'
                    /\ told'[c][i].list = Script[c][i].list
                    /\ told'[c][i].content = Script[c][i].content
  BY DEF ToldIsStored
<1>1. Rows \subseteq Rows'
  BY RowsGrow
<1>2. events \subseteq events'
  BY DEF Next, vars, FindVersion, BuildVersion, InsertVersion, LogUpdate,
     Screen, Abort
<1>3. CASE i \in DOMAIN told[c] /\ told'[c][i] = told[c][i]
  BY <1>1, <1>2, <1>3 DEF ToldIsStored
<1>4. CASE LogUpdate(c) /\ i = Len(told[c]) + 1 /\ told'[c][i] = wl[c]
  <2>1. /\ wl[c] \in Rows /\ wl[c].list = Script[c][i].list
        /\ wl[c].content = Script[c][i].content
    BY <1>4 DEF InHand, UploadInHand, LogUpdate, Request
  <2>2. wl[c] \in events'
    BY <1>4 DEF LogUpdate
  <2> QED
    BY <1>1, <1>4, <2>1, <2>2
<1> QED
  BY <1>3, <1>4, NewAnswer

LEMMA InHandAlways == Spec => [](TypeOK /\ InHand)
<1>1. Init => InHand
  BY DEF Init, InHand, UploadInHand
<1> QED
  BY <1>1, InitTypeOK, StepTypeOK, StepInHand, PTL DEF Spec

(* The version an upload is told is in the table, is the list and content  *)
(* it sent, and has its audit event (orchestrator.py:188-205).             *)
THEOREM SpecToldIsStored == Spec => []ToldIsStored
<1>1. Init => ToldIsStored
  BY DEF Init, ToldIsStored
<1> QED
  BY <1>1, InHandAlways, StepToldIsStored, PTL DEF Spec

-----------------------------------------------------------------------------
(* The age of a screening's reference.                                     *)

(* What a client knows of the active version is not newer than it is.      *)
Reached(age) == age = 0 \/ \E v \in OfacRows : age <= v.loaded

KnownReached ==
  \A c \in Clients : \A i \in DOMAIN told[c] :
    Knows(Script[c][i]) => Reached(told[c][i].loaded)

LEMMA ScreenedIsNewest ==
  ASSUME TypeOK
  PROVE  /\ Reached(ActiveVersion(OFAC_SDN).loaded)
         /\ \A age \in Nat :
              Reached(age) => age <= ActiveVersion(OFAC_SDN).loaded
<1>1. ActiveVersion(OFAC_SDN).loaded \in Nat
      /\ \A v \in OfacRows : v.loaded \in Nat
  <2>1. ActiveVersion(OFAC_SDN) \in VersionType /\ OfacRows \subseteq VersionType
    BY ScreenedType, RowsTyped DEF OfacRows
  <2>2. \A v \in VersionType : v.loaded \in Nat
    BY DEF TypeOK, VersionType
  <2> QED
    BY <2>1, <2>2
<1>2. CASE OfacRows = {}
  <2>1. ActiveVersion(OFAC_SDN).loaded = 0
    BY <1>2 DEF ActiveVersion, OfacRows, Placeholder
  <2> QED
    BY <1>2, <2>1 DEF Reached
<1>3. CASE OfacRows # {}
  BY <1>1, <1>3, NewestRow DEF Reached
<1> QED
  BY <1>2, <1>3

LEMMA StepKnownReached ==
  TypeOK /\ InHand /\ KnownReached /\ [Next]_vars => KnownReached'
<1> SUFFICES ASSUME TypeOK, InHand, KnownReached, [Next]_vars,
                    NEW c \in Clients, NEW i \in DOMAIN told'[c],
                    Knows(Script[c][i])
             PROVE  Reached(told[c][i].loaded)'
  BY DEF KnownReached, Knows
<1> DEFINE age == told'[c][i].loaded
<1>1. Reached(age) => age = 0 \/ (\E v \in OfacRows' : age <= v.loaded)
  BY RowsGrow DEF Reached
<1>2. Reached(age)
  <2>1. CASE i \in DOMAIN told[c] /\ told'[c][i] = told[c][i]
    BY <2>1 DEF KnownReached
  <2>2. CASE LogUpdate(c) /\ i = Len(told[c]) + 1 /\ told'[c][i] = wl[c]
    <3>1. /\ wl[c] \in Rows /\ wl[c].list = Script[c][i].list
          /\ Script[c][i].op = "upload"
      BY <2>2 DEF InHand, UploadInHand, LogUpdate, Request
    <3>2. wl[c] \in OfacRows
      BY <3>1 DEF Knows, OfacRows
    <3>3. wl[c].loaded \in Nat
      BY DEF TypeOK, VersionType
    <3> QED
      BY <2>2, <3>2, <3>3 DEF Reached
  <2>3. CASE told'[c][i] = ActiveVersion(OFAC_SDN)
    BY <2>3, ScreenedIsNewest
  <2>4. CASE told'[c][i] = Failed
    BY <2>4 DEF Failed, Reached
  <2> QED
    BY <2>1, <2>2, <2>3, <2>4, NewAnswer
<1> HIDE DEF age
<1>3. age = 0 \/ (\E v \in OfacRows' : age <= v.loaded)
  BY <1>1, <1>2
<1> QED
  BY <1>3 DEF Reached, age

LEMMA StepScreeningNotStale ==
  TypeOK /\ InHand /\ KnownReached /\ ScreeningNotStale /\ [Next]_vars
    => ScreeningNotStale'
<1> SUFFICES ASSUME TypeOK, InHand, KnownReached, ScreeningNotStale,
                    [Next]_vars, NEW c \in Clients, NEW i \in DOMAIN told'[c],
                    NEW j \in DOMAIN told'[c], i < j, Knows(Script[c][i]),
                    Script[c][j].op = "screen"
             PROVE  told'[c][j].loaded >= told'[c][i].loaded
  BY DEF ScreeningNotStale, Knows
<1>1. told[c] \in Seq(VersionType)
  BY DEF TypeOK
<1>2. CASE i \in DOMAIN told[c] /\ told'[c][i] = told[c][i]
  <2>1. CASE j \in DOMAIN told[c] /\ told'[c][j] = told[c][j]
    BY <1>2, <2>1 DEF ScreeningNotStale
  <2>2. CASE told'[c][j] = ActiveVersion(OFAC_SDN)
    <3>1. Reached(told[c][i].loaded)
      BY <1>2 DEF KnownReached
    <3>2. told[c][i].loaded \in Nat
      <4>1. told[c][i] \in VersionType
        BY <1>1, <1>2
      <4> QED
        BY <4>1 DEF TypeOK, VersionType
    <3>3. ActiveVersion(OFAC_SDN).loaded \in Nat
      <4>1. ActiveVersion(OFAC_SDN) \in VersionType
        BY ScreenedType
      <4> QED
        BY <4>1 DEF TypeOK, VersionType
    <3> QED
      BY <1>2, <2>2, <3>1, <3>2, <3>3, ScreenedIsNewest
  <2>3. ASSUME j = Len(told[c]) + 1, LogUpdate(c) \/ Abort(c) PROVE FALSE
    BY <2>3 DEF LogUpdate, Abort, InHand, UploadInHand, Request
  <2> QED
    BY <2>1, <2>2, <2>3, NewAnswer
<1>3. CASE i = Len(told[c]) + 1
  <2>1. j \in DOMAIN told[c] \/ j = Len(told[c]) + 1
    BY NewAnswer
  <2> QED
    BY <1>1, <1>3, <2>1
<1> QED
  BY <1>2, <1>3, NewAnswer

(* A screening is made against a version at least as new as every version  *)
(* its client has been told is, or was, active (screening/agent.py:388).   *)
THEOREM SpecScreeningNotStale == Spec => []ScreeningNotStale
<1>1. Init => KnownReached /\ ScreeningNotStale
  BY DEF Init, KnownReached, ScreeningNotStale
<1> QED
  BY <1>1, InHandAlways, StepKnownReached, StepScreeningNotStale, PTL DEF Spec
=============================================================================
