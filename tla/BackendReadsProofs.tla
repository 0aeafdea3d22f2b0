------------------------- MODULE BackendReadsProofs -------------------------
(* Proofs about BackendReads, for any number of teams, players, numbers,     *)
(* matches and requests, and a replica any number of commits behind.         *)
EXTENDS BackendReads, SequenceTheorems, TLAPS

USE ReplicaAssumption, RostersAssumptions, StatusReadsAssumption

(* What requests remember fits what they are about to do, and the players    *)
(* they name have a row.                                                     *)
RequestsFit ==
  \A r \in Request :
    /\ requests[r].at \in {"create", "createWrite"} => requests[r].number # Keep
    /\ requests[r].at \in {"update", "updateWrite", "remove", "removeWrite"} =>
         requests[r].player \in Known

(* An id that was not handed out yet has nothing stored. *)
UnknownEmpty == \A p \in Player \ Known : write.players[p] = NoPlayerRow

(* s is t, or comes before it in the life of a match. *)
Before(s, t) == s = t \/ Progress[s] < Progress[t]

(* Matches whose confirms did not overlap. *)
Orderly == Match \ overlapped

(* Without overlap at most one confirm is past its check, and what it        *)
(* checked still holds: nothing else takes a match out of pending.           *)
ConfirmsFresh ==
  \A m \in Orderly :
    confirming[m] # 0 => confirming[m] = 1 /\ write.matches[m].status = "pending"

(* Where confirms do not overlap, the replica only ever shows what the       *)
(* primary went through, in order, and clients were shown nothing that is    *)
(* not on the replica yet.                                                   *)
StatusesInOrder ==
  /\ \A m \in Orderly : \A i, j \in DOMAIN versions :
       i <= j => Before(versions[i].matches[m].status, versions[j].matches[m].status)
  /\ \A m \in Orderly : Before(shown[m], read.matches[m].status)

ReadsInv ==
  /\ ReadsTypeOK /\ RequestsFit /\ UnknownEmpty /\ JerseyUnique
  /\ ConfirmsFresh /\ StatusesInOrder
-----------------------------------------------------------------------------
(* Replica: what a commit and a replay make of the two copies.              *)
LEMMA CommitVersions ==
  ASSUME versions \in Seq(Database), Len(versions) \in 1..MaxLag + 1,
         NEW db \in Database, Commit(db)
  PROVE  /\ versions' \in Seq(Database)
         /\ Len(versions') \in 1..MaxLag + 1
         /\ write' = db /\ read' = read
         /\ DOMAIN versions' = 1..Len(versions) + 1
         /\ versions'[Len(versions) + 1] = db
         /\ \A i \in DOMAIN versions : versions'[i] = versions[i]
<1>1. versions' = Append(versions, db) /\ Len(versions) <= MaxLag
  BY DEF Commit
<1>2. /\ versions' \in Seq(Database)
      /\ Len(versions') = Len(versions) + 1
      /\ \A i \in 1..Len(versions) : versions'[i] = versions[i]
      /\ versions'[Len(versions) + 1] = db
  BY <1>1, AppendProperties
<1>3. DOMAIN versions = 1..Len(versions) /\ DOMAIN versions' = 1..Len(versions) + 1
  BY <1>2
<1> QED
  BY <1>1, <1>2, <1>3 DEF write, read

LEMMA ReplayVersions ==
  ASSUME versions \in Seq(Database), Len(versions) \in 1..MaxLag + 1, Replay
  PROVE  /\ versions' \in Seq(Database)
         /\ Len(versions') \in 1..MaxLag + 1
         /\ write' = write
         /\ 2 \in DOMAIN versions /\ read' = versions[2]
         /\ \A i \in DOMAIN versions' :
              i + 1 \in DOMAIN versions /\ versions'[i] = versions[i + 1]
<1>1. versions' = Tail(versions) /\ Len(versions) > 1
  BY DEF Replay
<1>2. /\ versions' \in Seq(Database)
      /\ Len(versions') = Len(versions) - 1
      /\ \A i \in 1..Len(versions') : versions'[i] = versions[i + 1]
  BY <1>1, HeadTailProperties, EmptySeq
<1>3. DOMAIN versions = 1..Len(versions) /\ DOMAIN versions' = 1..Len(versions) - 1
  BY <1>2
<1> QED
  BY <1>1, <1>2, <1>3 DEF write, read

LEMMA CurrentVersions ==
  ASSUME versions \in Seq(Database), Len(versions) \in 1..MaxLag + 1
  PROVE  write \in Database /\ read \in Database
         /\ DOMAIN versions = 1..Len(versions)
BY DEF write, read
-----------------------------------------------------------------------------
(* The statements that change the primary, from write to db.                *)
TeamStatement(db) == db.players = write.players /\ db.matches = write.matches

PlayerStatement(db) ==
  \E p \in Player, row \in PlayerRow :
    /\ db = [write EXCEPT !.players[p] = row]
    /\ row.team # NoTeam
    /\ Indexed(p, row)
    /\ p \in Known =>
         /\ write.players[p].deleted => row.deleted
         /\ row.number # write.players[p].number =>
              \E r \in Request : requests[r].player = p /\ requests[r].number = row.number

MatchStatement(db) ==
  \E m \in Match, row \in MatchRow :
    /\ db = [write EXCEPT !.matches[m] = row]
    /\ m \in Orderly => Before(write.matches[m].status, row.status)

Statement(db) ==
  /\ db \in Database
  /\ TeamStatement(db) \/ PlayerStatement(db) \/ MatchStatement(db)

VersionsStep ==
  UNCHANGED versions \/ Replay \/ \E db : Statement(db) /\ Commit(db)

(* The write of a request is refused by the index, or such a statement; it   *)
(* leaves the matches alone.                                                 *)
LEMMA PutStatement ==
  ASSUME ReadsInv, NEW r \in Request, NEW p \in Player, NEW row \in PlayerRow,
         row.team # NoTeam,
         p \in Known =>
           /\ write.players[p].deleted => row.deleted
           /\ row.number # write.players[p].number =>
                \E q \in Request : requests[q].player = p /\ requests[q].number = row.number,
         Put(r, p, row)
  PROVE  VersionsStep /\ write'.matches = write.matches
<1> DEFINE db == [write EXCEPT !.players[p] = row]
<1>1. CASE Indexed(p, row) /\ Commit(db)
  <2>1. db \in Database
    BY CurrentVersions DEF ReadsInv, ReadsTypeOK, Database
  <2>2. PlayerStatement(db)
    BY <1>1 DEF PlayerStatement
  <2>3. write' = db
    BY <1>1, <2>1, CommitVersions DEF ReadsInv, ReadsTypeOK
  <2> QED
    BY <1>1, <2>1, <2>2, <2>3 DEF VersionsStep, Statement
<1>2. CASE UNCHANGED versions
  BY <1>2 DEF VersionsStep, write
<1> QED
  BY <1>1, <1>2 DEF Put

LEMMA RosterStatements ==
  ASSUME ReadsInv, RosterStep
  PROVE  VersionsStep /\ write'.matches = write.matches
<1>0. write \in Database /\ read \in Database
  BY CurrentVersions DEF ReadsInv, ReadsTypeOK
<1>1. ASSUME NEW t \in Team, CreateTeam(t)
      PROVE  VersionsStep /\ write'.matches = write.matches
  <2> DEFINE db == [write EXCEPT !.teams = @ \cup {t}]
  <2>1. db \in Database /\ TeamStatement(db)
    BY <1>0 DEF Database, TeamStatement
  <2>2. write' = db
    BY <1>1, <2>1, CommitVersions DEF CreateTeam, ReadsInv, ReadsTypeOK
  <2> QED
    BY <1>1, <2>1, <2>2 DEF CreateTeam, VersionsStep, Statement
<1>2. ASSUME NEW r \in Request, CreateWrite(r)
      PROVE  VersionsStep /\ write'.matches = write.matches
  <2> DEFINE row == [team |-> requests[r].team, number |-> requests[r].number,
                     deleted |-> FALSE]
  <2>1. PICK p \in Player \ Known : Put(r, p, row)
    BY <1>2 DEF CreateWrite
  <2>2. row \in PlayerRow /\ row.team # NoTeam
    BY <1>2 DEF CreateWrite, ReadsInv, ReadsTypeOK, RequestsFit, Active, Idle, PlayerRow
  <2> QED
    BY <2>1, <2>2, PutStatement
<1>3. ASSUME NEW r \in Request, UpdateWrite(r) \/ RemoveWrite(r)
      PROVE  VersionsStep /\ write'.matches = write.matches
  <2> DEFINE p == requests[r].player
             n == requests[r].number
             old == write.players[p]
             updated == IF n = Keep THEN old ELSE [old EXCEPT !.number = n]
             removed == [old EXCEPT !.deleted = TRUE]
  <2>1. p \in Player /\ p \in Known /\ n \in Number \cup {NoNumber, Keep}
    BY <1>3
    DEF UpdateWrite, RemoveWrite, ReadsInv, ReadsTypeOK, RequestsFit, Active, Idle, Known
  <2>2. old \in PlayerRow /\ old.team # NoTeam
    BY <1>0, <2>1 DEF Database, Known
  <2>3. /\ updated \in PlayerRow /\ updated.team # NoTeam
        /\ old.deleted => updated.deleted
        /\ updated.number # old.number => n = updated.number
    BY <2>1, <2>2 DEF PlayerRow
  <2>4. /\ removed \in PlayerRow /\ removed.team # NoTeam
        /\ removed.deleted /\ removed.number = old.number
    BY <2>2 DEF PlayerRow
  <2>5. Put(r, p, updated) \/ Put(r, p, removed)
    BY <1>3 DEF UpdateWrite, RemoveWrite
  <2>6. CASE Put(r, p, updated)
    BY <2>1, <2>3, <2>6, PutStatement
  <2>7. CASE Put(r, p, removed)
    BY <2>1, <2>4, <2>7, PutStatement
  <2> QED
    BY <2>5, <2>6, <2>7
<1>4. \/ \E t \in Team : CreateTeam(t)
      \/ \E r \in Request : CreateWrite(r) \/ UpdateWrite(r) \/ RemoveWrite(r)
      \/ UNCHANGED versions
  BY DEF RosterStep, PostPlayer, GuardTeam, CreateCheck, UpdateRead, RemoveRead
<1> QED
  BY <1>1, <1>2, <1>3, <1>4 DEF VersionsStep, write

(* A transition of the table is a step forward. *)
LEMMA TransitionsForward ==
  ASSUME NEW s \in TransitionState, NEW t \in TransitionState,
         assertValidTransition(s, t)
  PROVE  Progress[s] < Progress[t]
BY DEF assertValidTransition, ALLOWED_TRANSITIONS, Progress, TransitionState, MatchStatus

(* create and update_status make a transition of the backend's table, and    *)
(* neither makes the one that confirmUpload makes.                           *)
LEMMA StatusMoves ==
  ASSUME NEW m \in Match, write.matches[m] \in MatchRow,
         CreateMatch(m) \/ UpdateStatus(m)
  PROVE  /\ UNCHANGED statusVars
         /\ \E s \in MatchStatus \ {"uploaded"} :
              /\ assertValidTransition(write.matches[m].status, s)
              /\ PutMatch(m, [write.matches[m] EXCEPT !.status = s])
<1>1. CASE CreateMatch(m)
  <2>1. "pending" \in MatchStatus \ {"uploaded"}
    BY DEF MatchStatus
  <2>2. assertValidTransition(write.matches[m].status, "pending")
    BY <1>1 DEF CreateMatch, Exists, assertValidTransition, ALLOWED_TRANSITIONS
  <2> QED
    BY <1>1, <2>1, <2>2 DEF CreateMatch
<1>2. CASE UpdateStatus(m)
  <2>1. PICK s \in CallbackStatus :
          /\ is_valid_transition(write.matches[m].status, s)
          /\ PutMatch(m, [write.matches[m] EXCEPT !.status = s])
    BY <1>2 DEF UpdateStatus
  <2>2. s \in MatchStatus \ {"uploaded"}
    BY DEF CallbackStatus, MatchStatus
  <2>3. assertValidTransition(write.matches[m].status, s)
    BY <2>1 DEF is_valid_transition, LAMBDA_TRANSITIONS, assertValidTransition,
                ALLOWED_TRANSITIONS
  <2> QED
    BY <1>2, <2>1, <2>2, <2>3 DEF UpdateStatus
<1> QED
  BY <1>1, <1>2

LEMMA MatchStatements ==
  ASSUME ReadsInv, MatchStep
  PROVE  VersionsStep
<1>0. write \in Database
  BY CurrentVersions DEF ReadsInv, ReadsTypeOK
<1>1. ASSUME NEW m \in Match, NEW row \in MatchRow,
             m \in Orderly => Before(write.matches[m].status, row.status),
             PutMatch(m, row)
      PROVE  VersionsStep
  <2> DEFINE db == [write EXCEPT !.matches[m] = row]
  <2>1. db \in Database /\ MatchStatement(db)
    BY <1>0, <1>1 DEF Database, MatchStatement
  <2> QED
    BY <1>1, <2>1 DEF PutMatch, VersionsStep, Statement
<1>2. ASSUME NEW m \in Match, CreateMatch(m) \/ UpdateStatus(m)
      PROVE  VersionsStep
  <2>1. PICK s \in MatchStatus \ {"uploaded"} :
          /\ assertValidTransition(write.matches[m].status, s)
          /\ PutMatch(m, [write.matches[m] EXCEPT !.status = s])
    <3>1. write.matches[m] \in MatchRow
      BY <1>0 DEF Database
    <3> QED
      BY <1>2, <3>1, StatusMoves
  <2>2. write.matches[m] \in MatchRow /\ s \in TransitionState
    BY <1>0 DEF Database, TransitionState
  <2>3. /\ [write.matches[m] EXCEPT !.status = s] \in MatchRow
        /\ write.matches[m].status \in TransitionState
    BY <2>2 DEF MatchRow
  <2> QED
    BY <1>1, <2>1, <2>2, <2>3, TransitionsForward DEF Before, MatchRow
<1>3. ASSUME NEW m \in Match, RemoveMatch(m)
      PROVE  VersionsStep
  <2>1. write.matches[m] \in MatchRow
    BY <1>0 DEF Database
  <2> QED
    BY <1>1, <1>3, <2>1 DEF RemoveMatch, Before, MatchRow
<1>4. ASSUME NEW m \in Match,
             ConfirmRead(m) \/ ConfirmAborts(m) \/ GuardStatus(m) \/ GetStatus(m)
      PROVE  VersionsStep
  BY <1>4 DEF ConfirmRead, ConfirmAborts, GuardStatus, GetStatus, VersionsStep
<1>5. ASSUME NEW m \in Match, ConfirmWrite(m)
      PROVE  VersionsStep
  <2> DEFINE row == [write.matches[m] EXCEPT !.status = "uploaded"]
  <2>1. write.matches[m] \in MatchRow /\ "uploaded" \in TransitionState
    BY <1>0 DEF Database, TransitionState, MatchStatus
  <2>2. row \in MatchRow /\ row.status = "uploaded"
    BY <2>1 DEF MatchRow
  <2>3. PutMatch(m, row) /\ confirming[m] # 0
    BY <1>5 DEF ConfirmWrite, ReadsInv, ReadsTypeOK
  <2>4. ASSUME m \in Orderly PROVE Before(write.matches[m].status, row.status)
    <3>1. write.matches[m].status = "pending"
      BY <2>3, <2>4 DEF ReadsInv, ConfirmsFresh
    <3> QED
      BY <2>2, <3>1 DEF Before, Progress
  <2> QED
    BY <1>1, <2>2, <2>3, <2>4
<1> QED
  BY <1>2, <1>3, <1>4, <1>5 DEF MatchStep

(* Every step of the backend is one of these three. *)
LEMMA VersionsSteps ==
  ASSUME ReadsInv, [ReadsNext]_readsVars
  PROVE  VersionsStep
BY RosterStatements, MatchStatements
DEF ReadsNext, Replicate, Players, Statuses, readsVars, VersionsStep
-----------------------------------------------------------------------------
LEMMA ReadsInvInit == ReadsInit => ReadsInv
<1> SUFFICES ASSUME ReadsInit PROVE ReadsInv
  OBVIOUS
<1>1. EmptyDatabase \in Database
  BY DEF EmptyDatabase, Database, NoPlayerRow, PlayerRow, MatchRow, TransitionState
<1>2. /\ versions \in Seq(Database) /\ Len(versions) = 1
      /\ DOMAIN versions = {1} /\ versions[1] = EmptyDatabase
      /\ write = EmptyDatabase /\ read = EmptyDatabase
  BY <1>1 DEF ReadsInit, write, read
<1>3. ReadsTypeOK
  BY <1>2 DEF ReadsInit, ReadsTypeOK, TransitionState
<1>4. RequestsFit /\ UnknownEmpty
  BY <1>2 DEF ReadsInit, RequestsFit, UnknownEmpty, Idle, EmptyDatabase
<1>5. JerseyUnique
  BY <1>2 DEF JerseyUnique, Roster, Live, EmptyDatabase, NoPlayerRow
<1>6. ConfirmsFresh /\ StatusesInOrder
  BY <1>2 DEF ReadsInit, ConfirmsFresh, StatusesInOrder, Orderly, Before, EmptyDatabase
<1> QED
  BY <1>3, <1>4, <1>5, <1>6 DEF ReadsInv

(* The versions keep their type, whatever the statement. *)
LEMMA VersionsType ==
  ASSUME ReadsInv, VersionsStep
  PROVE  versions' \in Seq(Database) /\ Len(versions') \in 1..MaxLag + 1
BY CommitVersions, ReplayVersions DEF ReadsInv, ReadsTypeOK, VersionsStep, Statement

(* Rows are never lost again. *)
LEMMA KnownForGood ==
  ASSUME ReadsInv, VersionsStep
  PROVE  Known \subseteq Known'
<1>0. write \in Database
  BY CurrentVersions DEF ReadsInv, ReadsTypeOK
<1>1. ASSUME NEW db, Statement(db), Commit(db)
      PROVE  Known \subseteq Known'
  <2>1. write' = db
    BY <1>1, CommitVersions DEF ReadsInv, ReadsTypeOK, Statement
  <2>2. CASE db.players = write.players
    BY <2>1, <2>2 DEF Known
  <2>3. CASE PlayerStatement(db)
    BY <1>0, <2>1, <2>3 DEF Known, PlayerStatement, Database
  <2> QED
    BY <1>0, <1>1, <2>2, <2>3 DEF Statement, TeamStatement, MatchStatement, Database
<1>2. CASE write' = write
  BY <1>2 DEF Known
<1> QED
  BY <1>1, <1>2, ReplayVersions DEF VersionsStep, ReadsInv, ReadsTypeOK, write

LEMMA UnknownEmptyStep ==
  ASSUME ReadsInv, VersionsStep
  PROVE  UnknownEmpty'
<1>0. write \in Database
  BY CurrentVersions DEF ReadsInv, ReadsTypeOK
<1>1. ASSUME NEW db, Statement(db), Commit(db)
      PROVE  UnknownEmpty'
  <2>1. write' = db
    BY <1>1, CommitVersions DEF ReadsInv, ReadsTypeOK, Statement
  <2>2. CASE db.players = write.players
    BY <2>1, <2>2 DEF UnknownEmpty, Known, ReadsInv
  <2>3. CASE PlayerStatement(db)
    BY <1>0, <2>1, <2>3 DEF UnknownEmpty, Known, PlayerStatement, Database, ReadsInv
  <2> QED
    BY <1>0, <1>1, <2>2, <2>3 DEF Statement, TeamStatement, MatchStatement, Database
<1>2. CASE write' = write
  BY <1>2 DEF UnknownEmpty, Known, ReadsInv
<1> QED
  BY <1>1, <1>2, ReplayVersions DEF VersionsStep, ReadsInv, ReadsTypeOK, write

(* A request keeps what it remembers until its answer. *)
LEMMA RequestsStep ==
  ASSUME ReadsInv, [ReadsNext]_readsVars
  PROVE  /\ requests' \in [Request -> Active \cup {Idle}]
         /\ RequestsFit'
<1>0. Known \subseteq Known'
  BY VersionsSteps, KnownForGood
<1>1. ASSUME requests' = requests
      PROVE  requests' \in [Request -> Active \cup {Idle}] /\ RequestsFit'
  BY <1>0, <1>1 DEF ReadsInv, ReadsTypeOK, RequestsFit
<1>2. ASSUME NEW r \in Request, NEW new \in Active \cup {Idle},
             requests' = [requests EXCEPT ![r] = new],
             new.at \in {"create", "createWrite"} => new.number # Keep,
             new.at \in {"update", "updateWrite", "remove", "removeWrite"} =>
               new.player \in Known
      PROVE  requests' \in [Request -> Active \cup {Idle}] /\ RequestsFit'
  <2>1. requests' \in [Request -> Active \cup {Idle}]
    BY <1>2 DEF ReadsInv, ReadsTypeOK
  <2>2. \A q \in Request : requests'[q] = IF q = r THEN new ELSE requests[q]
    BY <1>2 DEF ReadsInv, ReadsTypeOK
  <2> QED
    BY <1>0, <1>2, <2>1, <2>2 DEF ReadsInv, RequestsFit
<1>3. ASSUME NEW r \in Request, Answer(r)
      PROVE  requests' \in [Request -> Active \cup {Idle}] /\ RequestsFit'
  BY <1>2, <1>3 DEF Answer, Idle
<1>4. ASSUME NEW r \in Request, requests[r].at # "idle",
             NEW at \in {"createWrite", "updateWrite", "removeWrite"},
             at = "createWrite" => requests[r].at = "create",
             at = "updateWrite" => requests[r].at = "update",
             at = "removeWrite" => requests[r].at = "remove",
             Goto(r, at)
      PROVE  requests' \in [Request -> Active \cup {Idle}] /\ RequestsFit'
  <2> DEFINE new == [requests[r] EXCEPT !.at = at]
  <2>1. requests[r] \in Active
    BY <1>4 DEF ReadsInv, ReadsTypeOK, Idle
  <2>2. /\ new \in Active /\ new.at = at
        /\ new.number = requests[r].number /\ new.player = requests[r].player
    BY <2>1, <1>4 DEF Active
  <2>3. requests' = [requests EXCEPT ![r] = new]
    BY <1>4 DEF Goto
  <2> QED
    BY <1>2, <1>4, <2>2, <2>3 DEF ReadsInv, RequestsFit
<1>5. ASSUME NEW r \in Request, NEW t \in Team,
             NEW at \in {"create", "createWrite", "update", "remove"},
             NEW p \in Player \cup {NoPlayer},
             NEW n \in Number \cup {NoNumber, Keep},
             at \in {"create", "createWrite"} => n # Keep,
             at \in {"update", "remove"} => p \in Known,
             GuardTeam(r, t, at, p, n)
      PROVE  requests' \in [Request -> Active \cup {Idle}] /\ RequestsFit'
  <2> DEFINE new == [at |-> at, team |-> t, player |-> p, number |-> n]
  <2>1. new \in Active
    BY DEF Active
  <2> QED
    BY <1>2, <1>5, <2>1 DEF GuardTeam
<1>6. CASE RosterStep
  <2>1. CASE \E t \in Team : CreateTeam(t)
    BY <1>1, <2>1 DEF CreateTeam
  <2>2. ASSUME NEW r \in Request, NEW t \in Team, NEW n \in Number \cup {NoNumber},
               PostPlayer(r, t, n)
        PROVE  requests' \in [Request -> Active \cup {Idle}] /\ RequestsFit'
    BY <1>5, <2>2 DEF PostPlayer
  <2>3. ASSUME NEW r \in Request, NEW t \in Team, NEW p \in Known,
               NEW n \in Number \cup {NoNumber, Keep},
               GuardTeam(r, t, "update", p, n) \/ GuardTeam(r, t, "remove", p, n)
        PROVE  requests' \in [Request -> Active \cup {Idle}] /\ RequestsFit'
    <3>1. p \in Player
      BY DEF Known
    <3> QED
      BY <1>5, <2>3, <3>1
  <2>4. ASSUME NEW r \in Request, CreateCheck(r) \/ UpdateRead(r) \/ RemoveRead(r)
        PROVE  requests' \in [Request -> Active \cup {Idle}] /\ RequestsFit'
    BY <1>3, <1>4, <2>4 DEF CreateCheck, UpdateRead, RemoveRead
  <2>5. ASSUME NEW r \in Request, CreateWrite(r) \/ UpdateWrite(r) \/ RemoveWrite(r)
        PROVE  requests' \in [Request -> Active \cup {Idle}] /\ RequestsFit'
    BY <1>3, <2>5 DEF CreateWrite, UpdateWrite, RemoveWrite, Put
  <2> QED
    BY <1>6, <2>1, <2>2, <2>3, <2>4, <2>5 DEF RosterStep
<1>7. CASE ~RosterStep
  BY <1>1, <1>7 DEF ReadsNext, Replicate, Players, Statuses, readsVars
<1> QED
  BY <1>6, <1>7

(* What was shown is in the read statement's answer, and has its type. *)
LEMMA PollsStep ==
  ASSUME ReadsInv, [ReadsNext]_readsVars
  PROVE  /\ polling' \in SUBSET Match
         /\ shown' \in [Match -> TransitionState]
         /\ \/ shown' = shown
            \/ /\ UNCHANGED versions
               /\ \E m \in Match :
                    shown' = [shown EXCEPT ![m] = read.matches[m].status]
<1>0. read \in Database
  BY CurrentVersions DEF ReadsInv, ReadsTypeOK
<1>1. \A m \in Match : read.matches[m].status \in TransitionState
  BY <1>0 DEF Database, MatchRow
<1>2. ASSUME NEW m \in Match, GetStatus(m)
      PROVE  /\ polling' \in SUBSET Match
             /\ shown' \in [Match -> TransitionState]
             /\ \/ shown' = shown
                \/ /\ UNCHANGED versions
                   /\ shown' = [shown EXCEPT ![m] = read.matches[m].status]
  BY <1>1, <1>2 DEF GetStatus, ReadsInv, ReadsTypeOK
<1>3. CASE UNCHANGED <<polling, shown>>
  BY <1>3 DEF ReadsInv, ReadsTypeOK
<1>4. ASSUME NEW m \in Match, GuardStatus(m)
      PROVE  polling' \in SUBSET Match /\ shown' = shown
  BY <1>4 DEF GuardStatus, ReadsInv, ReadsTypeOK
<1>5. \/ UNCHANGED <<polling, shown>>
      \/ \E m \in Match : GuardStatus(m) \/ GetStatus(m)
  BY DEF ReadsNext, Replicate, Players, Statuses, MatchStep, CreateMatch, UpdateStatus, RemoveMatch,
         ConfirmRead, ConfirmWrite, ConfirmAborts, readsVars, statusVars
<1> QED
  BY <1>2, <1>3, <1>4, <1>5 DEF ReadsInv, ReadsTypeOK

(* The rosters of one copy of the database. *)
UniqueIn(db) ==
  \A t \in Team : \A p, q \in Roster(db, t) :
    /\ db.players[p].number = db.players[q].number
    /\ db.players[p].number # NoNumber
    => p = q

(* A statement the index lets pass leaves every roster without duplicates. *)
LEMMA StatementUnique ==
  ASSUME ReadsInv, NEW db, Statement(db), UniqueIn(write)
  PROVE  UniqueIn(db)
<1>0. write \in Database
  BY CurrentVersions DEF ReadsInv, ReadsTypeOK
<1>1. CASE db.players = write.players
  BY <1>1 DEF UniqueIn, Roster, Live
<1>2. CASE PlayerStatement(db)
  <2>1. PICK x \in Player, row \in PlayerRow :
          db = [write EXCEPT !.players[x] = row] /\ Indexed(x, row)
    BY <1>2 DEF PlayerStatement
  <2>2. \A p \in Player : db.players[p] = IF p = x THEN row ELSE write.players[p]
    BY <1>0, <2>1 DEF Database
  <2>3. SUFFICES ASSUME NEW t \in Team, NEW p \in Roster(db, t), NEW q \in Roster(db, t),
                        db.players[p].number = db.players[q].number,
                        db.players[p].number # NoNumber, p # q
                 PROVE  FALSE
    BY DEF UniqueIn
  <2>4. p \in Player /\ q \in Player
    BY DEF Roster
  <2>5. CASE p # x /\ q # x
    BY <2>2, <2>3, <2>4, <2>5 DEF UniqueIn, Roster, Live
  <2>6. ASSUME NEW y \in Roster(db, t), y # x, x \in Roster(db, t),
               db.players[y].number = db.players[x].number,
               db.players[x].number # NoNumber
        PROVE  FALSE
    <3>1. y \in Roster(write, row.team) /\ write.players[y].number = row.number
      BY <2>2, <2>6 DEF Roster, Live
    <3>2. ~row.deleted /\ row.number # NoNumber
      BY <2>2, <2>6 DEF Roster, Live
    <3> QED
      BY <2>1, <2>6, <3>1, <3>2 DEF Indexed
  <2> QED
    BY <2>3, <2>5, <2>6
<1> QED
  BY <1>0, <1>1, <1>2 DEF Statement, TeamStatement, MatchStatement, Database

LEMMA JerseyUniqueStep ==
  ASSUME ReadsInv, VersionsStep
  PROVE  JerseyUnique'
<1>1. JerseyUnique <=> \A i \in DOMAIN versions : UniqueIn(versions[i])
  BY DEF JerseyUnique, UniqueIn
<1>2. JerseyUnique' <=> \A i \in DOMAIN versions' : UniqueIn(versions'[i])
  BY DEF JerseyUnique, UniqueIn, Roster
<1>3. \A i \in DOMAIN versions : UniqueIn(versions[i])
  BY <1>1 DEF ReadsInv
<1>4. UniqueIn(write)
  BY <1>3, CurrentVersions DEF ReadsInv, ReadsTypeOK, write
<1>5. CASE UNCHANGED versions
  BY <1>2, <1>3, <1>5
<1>6. CASE Replay
  BY <1>2, <1>3, <1>6, ReplayVersions DEF ReadsInv, ReadsTypeOK
<1>7. ASSUME NEW db, Statement(db), Commit(db)
      PROVE  JerseyUnique'
  <2>1. UniqueIn(db)
    BY <1>4, <1>7, StatementUnique
  <2> QED
    BY <1>2, <1>3, <1>7, <2>1, CommitVersions, CurrentVersions
    DEF ReadsInv, ReadsTypeOK, Statement
<1> QED
  BY <1>5, <1>6, <1>7 DEF VersionsStep
-----------------------------------------------------------------------------
LEMMA DatabaseStatus ==
  ASSUME NEW db \in Database, NEW m \in Match
  PROVE  db.matches[m].status \in TransitionState
BY DEF Database, MatchRow

LEMMA BeforeTransitive ==
  ASSUME NEW s \in TransitionState, NEW t \in TransitionState,
         NEW u \in TransitionState, Before(s, t), Before(t, u)
  PROVE  Before(s, u)
BY DEF Before, Progress, TransitionState, MatchStatus

(* Without overlap a statement moves no match back. *)
LEMMA StatementForward ==
  ASSUME ReadsInv, NEW db, Statement(db), NEW m \in Orderly
  PROVE  Before(write.matches[m].status, db.matches[m].status)
<1>0. write \in Database
  BY CurrentVersions DEF ReadsInv, ReadsTypeOK
<1>1. CASE db.matches = write.matches
  BY <1>1 DEF Before
<1>2. CASE MatchStatement(db)
  <2>1. PICK x \in Match, row \in MatchRow :
          /\ db = [write EXCEPT !.matches[x] = row]
          /\ x \in Orderly => Before(write.matches[x].status, row.status)
    BY <1>2 DEF MatchStatement
  <2>2. db.matches[m] = IF m = x THEN row ELSE write.matches[m]
    BY <1>0, <2>1 DEF Database, Orderly
  <2> QED
    BY <2>1, <2>2 DEF Before
<1> QED
  BY <1>0, <1>1, <1>2 DEF Statement, TeamStatement, PlayerStatement, Database

(* Every commit is behind those before it, and the replica takes them in     *)
(* that order.                                                               *)
LEMMA CommitsInOrder ==
  ASSUME ReadsInv, VersionsStep, NEW m \in Orderly,
         NEW i \in DOMAIN versions', NEW j \in DOMAIN versions', i <= j
  PROVE  Before(versions'[i].matches[m].status, versions'[j].matches[m].status)
<1>0. m \in Match
  BY DEF Orderly
<1>1. CASE UNCHANGED versions
  BY <1>1 DEF ReadsInv, StatusesInOrder
<1>2. CASE Replay
  <2>1. /\ i + 1 \in DOMAIN versions /\ versions'[i] = versions[i + 1]
        /\ j + 1 \in DOMAIN versions /\ versions'[j] = versions[j + 1]
    BY <1>2, ReplayVersions DEF ReadsInv, ReadsTypeOK
  <2>2. i \in Int /\ j \in Int
    BY VersionsType
  <2>3. i + 1 <= j + 1
    BY <2>2
  <2> QED
    BY <2>1, <2>3 DEF ReadsInv, StatusesInOrder
<1>3. ASSUME NEW db, Statement(db), Commit(db)
      PROVE  Before(versions'[i].matches[m].status, versions'[j].matches[m].status)
  <2> DEFINE n == Len(versions)
  <2>1. /\ DOMAIN versions' = 1..n + 1 /\ versions'[n + 1] = db
        /\ \A k \in DOMAIN versions : versions'[k] = versions[k]
        /\ DOMAIN versions = 1..n /\ n \in DOMAIN versions /\ write = versions[n]
    BY <1>3, CommitVersions, CurrentVersions DEF ReadsInv, ReadsTypeOK, Statement, write
  <2>2. \A k \in DOMAIN versions : versions[k].matches[m].status \in TransitionState
    <3>1. \A k \in DOMAIN versions : versions[k] \in Database
      BY <2>1 DEF ReadsInv, ReadsTypeOK
    <3> QED
      BY <1>0, <3>1, DatabaseStatus
  <2>3. db.matches[m].status \in TransitionState
    BY <1>0, <1>3 DEF Statement, Database, MatchRow
  <2>4. CASE j # n + 1
    <3>1. i \in DOMAIN versions /\ j \in DOMAIN versions
      BY <2>1, <2>4
    <3> QED
      BY <2>1, <3>1 DEF ReadsInv, StatusesInOrder
  <2>5. CASE i = n + 1
    BY <2>1, <2>5 DEF Before
  <2>6. CASE i # n + 1 /\ j = n + 1
    <3>1. i \in DOMAIN versions /\ i <= n
      BY <2>1, <2>6
    <3>2. Before(versions[i].matches[m].status, versions[n].matches[m].status)
      BY <2>1, <3>1 DEF ReadsInv, StatusesInOrder
    <3>3. Before(versions[n].matches[m].status, db.matches[m].status)
      BY <1>3, <2>1, StatementForward
    <3> QED
      BY <2>1, <2>2, <2>3, <2>6, <3>1, <3>2, <3>3, BeforeTransitive
  <2> QED
    BY <2>4, <2>5, <2>6
<1> QED
  BY <1>1, <1>2, <1>3 DEF VersionsStep

(* The replica's statuses only move forward. *)
LEMMA ReadForward ==
  ASSUME ReadsInv, VersionsStep, NEW m \in Orderly
  PROVE  Before(read.matches[m].status, read'.matches[m].status)
<1>1. CASE read' = read
  BY <1>1 DEF Before
<1>2. CASE Replay
  <2>1. 2 \in DOMAIN versions /\ read' = versions[2] /\ read = versions[1]
    BY <1>2, ReplayVersions DEF ReadsInv, ReadsTypeOK, read
  <2>2. 1 \in DOMAIN versions
    BY <2>1, CurrentVersions DEF ReadsInv, ReadsTypeOK
  <2> QED
    BY <2>1, <2>2 DEF ReadsInv, StatusesInOrder
<1>3. ASSUME NEW db, Statement(db), Commit(db)
      PROVE  read' = read
  BY <1>3, CommitVersions DEF ReadsInv, ReadsTypeOK, Statement
<1> QED
  BY <1>1, <1>2, <1>3 DEF VersionsStep, read

(* Overlaps are not forgotten, and confirming keeps its type.               *)
LEMMA ConfirmsStep ==
  ASSUME ReadsInv, [ReadsNext]_readsVars
  PROVE  /\ confirming' \in [Match -> 0..MaxConfirms]
         /\ overlapped' \in SUBSET Match
         /\ Orderly' \subseteq Orderly
<1>1. CASE UNCHANGED <<confirming, overlapped>>
  BY <1>1 DEF ReadsInv, ReadsTypeOK, Orderly
<1>2. ASSUME NEW m \in Match, ConfirmRead(m)
      PROVE  /\ confirming' \in [Match -> 0..MaxConfirms]
             /\ overlapped' \in SUBSET Match
             /\ Orderly' \subseteq Orderly
  <2>1. confirming[m] \in 0..MaxConfirms /\ confirming[m] < MaxConfirms
    BY <1>2 DEF ConfirmRead, ReadsInv, ReadsTypeOK
  <2>2. confirming[m] + 1 \in 0..MaxConfirms
    BY <2>1
  <2> QED
    BY <1>2, <2>2 DEF ConfirmRead, ReadsInv, ReadsTypeOK, Orderly
<1>3. ASSUME NEW m \in Match, ConfirmWrite(m) \/ ConfirmAborts(m)
      PROVE  /\ confirming' \in [Match -> 0..MaxConfirms]
             /\ overlapped' \in SUBSET Match
             /\ Orderly' \subseteq Orderly
  <2>1. confirming[m] \in 0..MaxConfirms /\ confirming[m] > 0
    BY <1>3 DEF ConfirmWrite, ConfirmAborts, ReadsInv, ReadsTypeOK
  <2>2. confirming[m] - 1 \in 0..MaxConfirms
    BY <2>1
  <2> QED
    BY <1>3, <2>2 DEF ConfirmWrite, ConfirmAborts, ReadsInv, ReadsTypeOK, Orderly
<1>4. \/ UNCHANGED <<confirming, overlapped>>
      \/ \E m \in Match : ConfirmRead(m) \/ ConfirmWrite(m) \/ ConfirmAborts(m)
  BY DEF ReadsNext, Replicate, Players, Statuses, MatchStep, CreateMatch, UpdateStatus, RemoveMatch,
         GuardStatus, GetStatus, readsVars, statusVars
<1> QED
  BY <1>1, <1>2, <1>3, <1>4

(* What a step does to the match of a confirm that is past its check.       *)
LEMMA ConfirmsFreshStep ==
  ASSUME ReadsInv, [ReadsNext]_readsVars
  PROVE  ConfirmsFresh'
<1>0. write \in Database /\ Orderly' \subseteq Orderly
  BY CurrentVersions, ConfirmsStep DEF ReadsInv, ReadsTypeOK
<1>1. SUFFICES ASSUME NEW m \in Orderly', confirming'[m] # 0
               PROVE  confirming'[m] = 1 /\ write'.matches[m].status = "pending"
  BY DEF ConfirmsFresh
<1>2. m \in Match /\ m \in Orderly
  BY <1>0 DEF Orderly
<1>3. ASSUME confirming' = confirming, write'.matches[m].status = write.matches[m].status
      PROVE  confirming'[m] = 1 /\ write'.matches[m].status = "pending"
  BY <1>1, <1>2, <1>3 DEF ReadsInv, ConfirmsFresh
<1>4. ASSUME NEW x \in Match, NEW row \in MatchRow, PutMatch(x, row)
      PROVE  write'.matches[m] = IF m = x THEN row ELSE write.matches[m]
  <2> DEFINE db == [write EXCEPT !.matches[x] = row]
  <2>1. db \in Database /\ db.matches[m] = IF m = x THEN row ELSE write.matches[m]
    BY <1>0, <1>2, <1>4 DEF Database
  <2>2. write' = db
    BY <1>4, <2>1, CommitVersions DEF PutMatch, ReadsInv, ReadsTypeOK
  <2> QED
    BY <2>1, <2>2
<1>5. \A x \in Match : write.matches[x] \in MatchRow
  BY <1>0 DEF Database
<1>6. ASSUME NEW x \in Match, CreateMatch(x) \/ UpdateStatus(x)
      PROVE  confirming'[m] = 1 /\ write'.matches[m].status = "pending"
  <2>1. PICK s \in MatchStatus \ {"uploaded"} :
          /\ assertValidTransition(write.matches[x].status, s)
          /\ PutMatch(x, [write.matches[x] EXCEPT !.status = s])
    BY <1>5, <1>6, StatusMoves
  <2>2. confirming' = confirming
    BY <1>5, <1>6, StatusMoves DEF statusVars
  <2>3. write.matches[m].status = "pending"
    BY <1>1, <1>2, <2>2 DEF ReadsInv, ConfirmsFresh
  <2>4. m # x
    BY <2>1, <2>3 DEF assertValidTransition, ALLOWED_TRANSITIONS
  <2>5. [write.matches[x] EXCEPT !.status = s] \in MatchRow
    BY <1>5 DEF MatchRow, TransitionState
  <2> QED
    BY <1>3, <1>4, <2>1, <2>2, <2>4, <2>5
<1>7. ASSUME NEW x \in Match, ConfirmRead(x)
      PROVE  confirming'[m] = 1 /\ write'.matches[m].status = "pending"
  <2>1. write' = write
    BY <1>7 DEF ConfirmRead, write
  <2>2. CASE m = x
    <3>1. confirming[m] = 0
      BY <1>1, <1>2, <1>7, <2>2 DEF ConfirmRead, Orderly
    <3>2. confirming'[m] = 1
      BY <1>2, <1>7, <2>2, <3>1 DEF ConfirmRead, ReadsInv, ReadsTypeOK
    <3>3. write.matches[m].status = "pending"
      BY <1>5, <1>7, <2>2
      DEF ConfirmRead, assertValidTransition, ALLOWED_TRANSITIONS, MatchRow,
          TransitionState, MatchStatus
    <3> QED
      BY <2>1, <3>2, <3>3
  <2>3. CASE m # x
    BY <1>1, <1>2, <1>7, <2>1, <2>3 DEF ConfirmRead, ReadsInv, ReadsTypeOK, ConfirmsFresh
  <2> QED
    BY <2>2, <2>3
<1>8. ASSUME NEW x \in Match, ConfirmWrite(x) \/ ConfirmAborts(x)
      PROVE  confirming'[m] = 1 /\ write'.matches[m].status = "pending"
  <2>1. confirming' = [confirming EXCEPT ![x] = @ - 1]
    BY <1>8 DEF ConfirmWrite, ConfirmAborts
  <2>2. m # x
    <3>1. SUFFICES ASSUME m = x PROVE FALSE
      OBVIOUS
    <3>2. confirming[m] # 0
      BY <1>8, <3>1 DEF ConfirmWrite, ConfirmAborts, ReadsInv, ReadsTypeOK
    <3>3. confirming[m] = 1
      BY <1>2, <3>2 DEF ReadsInv, ConfirmsFresh
    <3> QED
      BY <1>1, <1>2, <2>1, <3>1, <3>3 DEF ReadsInv, ReadsTypeOK
  <2>3. confirming'[m] = confirming[m]
    BY <1>2, <2>1, <2>2 DEF ReadsInv, ReadsTypeOK
  <2>4. write'.matches[m] = write.matches[m]
    <3>1. CASE ConfirmAborts(x)
      BY <3>1 DEF ConfirmAborts, write
    <3>2. CASE ConfirmWrite(x)
      <4>1. [write.matches[x] EXCEPT !.status = "uploaded"] \in MatchRow
        BY <1>5 DEF MatchRow, TransitionState, MatchStatus
      <4> QED
        BY <1>4, <2>2, <3>2, <4>1 DEF ConfirmWrite
    <3> QED
      BY <1>8, <3>1, <3>2
  <2> QED
    BY <1>1, <1>2, <2>3, <2>4 DEF ReadsInv, ConfirmsFresh
<1>9. ASSUME NEW x \in Match, RemoveMatch(x)
      PROVE  confirming'[m] = 1 /\ write'.matches[m].status = "pending"
  <2>1. [write.matches[x] EXCEPT !.deleted = TRUE] \in MatchRow
    BY <1>5 DEF MatchRow
  <2>2. PutMatch(x, [write.matches[x] EXCEPT !.deleted = TRUE]) /\ confirming' = confirming
    BY <1>9 DEF RemoveMatch, statusVars
  <2>3. write'.matches[m].status = write.matches[m].status
    BY <1>2, <1>4, <1>5, <2>1, <2>2 DEF MatchRow
  <2> QED
    BY <1>3, <2>2, <2>3
<1>10. ASSUME NEW x \in Match, GuardStatus(x) \/ GetStatus(x)
       PROVE  confirming'[m] = 1 /\ write'.matches[m].status = "pending"
  BY <1>3, <1>10 DEF GuardStatus, GetStatus, write
<1>11. CASE ~MatchStep
  <2>1. confirming' = confirming
    BY <1>11 DEF ReadsNext, Replicate, Players, Statuses, readsVars, statusVars
  <2>2. write'.matches = write.matches
    BY <1>11, RosterStatements, ReplayVersions
    DEF ReadsNext, Replicate, Players, Statuses, readsVars, write, ReadsInv, ReadsTypeOK
  <2> QED
    BY <1>3, <2>1, <2>2
<1> QED
  BY <1>6, <1>7, <1>8, <1>9, <1>10, <1>11 DEF MatchStep

LEMMA StatusesInOrderStep ==
  ASSUME ReadsInv, [ReadsNext]_readsVars
  PROVE  StatusesInOrder'
<1>0. VersionsStep /\ Orderly' \subseteq Orderly
  BY VersionsSteps, ConfirmsStep
<1>1. \A m \in Orderly : \A i, j \in DOMAIN versions' :
        i <= j => Before(versions'[i].matches[m].status, versions'[j].matches[m].status)
  BY <1>0, CommitsInOrder
<1>2. ASSUME NEW m \in Orderly
      PROVE  Before(shown'[m], read'.matches[m].status)
  <2>0. m \in Match
    BY DEF Orderly
  <2>1. Before(shown[m], read.matches[m].status)
    BY DEF ReadsInv, StatusesInOrder
  <2>2. Before(read.matches[m].status, read'.matches[m].status)
    BY <1>0, ReadForward
  <2>3. versions' \in Seq(Database) /\ Len(versions') \in 1..MaxLag + 1
    BY <1>0, VersionsType
  <2>4. /\ shown[m] \in TransitionState
        /\ read.matches[m].status \in TransitionState
        /\ read'.matches[m].status \in TransitionState
    <3>1. read \in Database /\ read' \in Database
      BY <2>3, CurrentVersions DEF ReadsInv, ReadsTypeOK, read
    <3> QED
      BY <2>0, <3>1, DatabaseStatus DEF ReadsInv, ReadsTypeOK
  <2>5. CASE shown' = shown
    BY <2>1, <2>2, <2>4, <2>5, BeforeTransitive
  <2>6. CASE shown' # shown
    <3>1. UNCHANGED versions
      BY <2>6, PollsStep
    <3>2. PICK x \in Match : shown' = [shown EXCEPT ![x] = read.matches[x].status]
      BY <2>6, PollsStep
    <3>3. shown'[m] = shown[m] \/ shown'[m] = read.matches[m].status
      BY <2>0, <3>2 DEF ReadsInv, ReadsTypeOK
    <3> QED
      BY <2>1, <3>1, <3>3 DEF Before, read
  <2> QED
    BY <2>5, <2>6
<1> QED
  BY <1>0, <1>1, <1>2 DEF StatusesInOrder, Before

LEMMA ReadsInvStep == ReadsInv /\ [ReadsNext]_readsVars => ReadsInv'
<1> SUFFICES ASSUME ReadsInv, [ReadsNext]_readsVars PROVE ReadsInv'
  OBVIOUS
<1>1. VersionsStep
  BY VersionsSteps
<1>2. ReadsTypeOK'
  BY <1>1, VersionsType, RequestsStep, ConfirmsStep, PollsStep DEF ReadsTypeOK
<1> QED
  BY <1>1, <1>2, RequestsStep, UnknownEmptyStep, JerseyUniqueStep, ConfirmsFreshStep,
     StatusesInOrderStep
  DEF ReadsInv

LEMMA ReadsInvariant == ReadsSafetySpec => []ReadsInv
BY ReadsInvInit, ReadsInvStep, PTL DEF ReadsSafetySpec

(* Every state has its type: in particular the replica is never more than   *)
(* MaxLag commits behind, and never ahead (PrismaService).                  *)
THEOREM ReadsTypeCorrect == ReadsSafetySpec => []ReadsTypeOK
<1>1. ReadsInv => ReadsTypeOK
  BY DEF ReadsInv
<1> QED
  BY <1>1, ReadsInvariant, PTL

(* No roster shows a jersey number twice, however many creates and updates   *)
(* interleave and however far behind the copy is they check it against.      *)
THEOREM JerseysAreUnique == ReadsSafetySpec => []JerseyUnique
<1>1. ReadsInv => JerseyUnique
  BY DEF ReadsInv
<1> QED
  BY <1>1, ReadsInvariant, PTL

(* What a step makes of the row of one player. *)
LEMMA PlayerRows ==
  ASSUME ReadsInv, VersionsStep, NEW p \in Player
  PROVE  \/ write'.players[p] = write.players[p]
         \/ /\ p \in Known
            /\ write.players[p].deleted => write'.players[p].deleted
            /\ write'.players[p].number # write.players[p].number =>
                 \E r \in Request : /\ requests[r].player = p
                                    /\ requests[r].number = write'.players[p].number
         \/ p \notin Known
<1>0. write \in Database
  BY CurrentVersions DEF ReadsInv, ReadsTypeOK
<1>1. CASE write' = write
  BY <1>1
<1>2. ASSUME NEW db, Statement(db), Commit(db)
      PROVE  \/ write'.players[p] = write.players[p]
             \/ /\ p \in Known
                /\ write.players[p].deleted => write'.players[p].deleted
                /\ write'.players[p].number # write.players[p].number =>
                     \E r \in Request : /\ requests[r].player = p
                                        /\ requests[r].number = write'.players[p].number
             \/ p \notin Known
  <2>1. write' = db
    BY <1>2, CommitVersions DEF ReadsInv, ReadsTypeOK, Statement
  <2>2. CASE db.players = write.players
    BY <2>1, <2>2
  <2>3. CASE PlayerStatement(db)
    <3>1. PICK x \in Player, row \in PlayerRow :
            /\ db = [write EXCEPT !.players[x] = row]
            /\ x \in Known =>
                 /\ write.players[x].deleted => row.deleted
                 /\ row.number # write.players[x].number =>
                      \E r \in Request : requests[r].player = x /\ requests[r].number = row.number
      BY <2>3 DEF PlayerStatement
    <3>2. write'.players[p] = IF p = x THEN row ELSE write.players[p]
      BY <1>0, <2>1, <3>1 DEF Database
    <3> QED
      BY <3>1, <3>2
  <2> QED
    BY <1>0, <1>2, <2>2, <2>3 DEF Statement, TeamStatement, MatchStatement, Database
<1> QED
  BY <1>1, <1>2, ReplayVersions DEF VersionsStep, ReadsInv, ReadsTypeOK, write

(* A removed player stays removed, whatever update interleaves with remove.  *)
THEOREM RemovedForGood == ReadsSafetySpec => RemovedStaysRemoved
<1>1. ASSUME ReadsInv, [ReadsNext]_readsVars
      PROVE  [\A p \in Player : write.players[p].deleted => write.players[p].deleted']_versions
  <2> SUFFICES ASSUME NEW p \in Player, write.players[p].deleted
               PROVE  write'.players[p].deleted
    OBVIOUS
  <2>1. p \in Known
    BY <1>1 DEF ReadsInv, UnknownEmpty, NoPlayerRow
  <2> QED
    BY <1>1, <2>1, VersionsSteps, PlayerRows
<1> QED
  BY <1>1, ReadsInvariant, PTL DEF ReadsSafetySpec, RemovedStaysRemoved

(* The number of a player only changes to one a request asked for.           *)
THEOREM NumbersAsRequested == ReadsSafetySpec => NumberAsRequested
<1> DEFINE Asked ==
      \A p \in Player : LET row == write.players[p] IN
        row.team # NoTeam /\ row.number' # row.number =>
          \E r \in Request :
            /\ requests[r].player = p
            /\ requests[r].number = write.players[p].number'
<1>1. ASSUME ReadsInv, [ReadsNext]_readsVars
      PROVE  Asked
  <2> SUFFICES ASSUME NEW p \in Player, write.players[p].team # NoTeam,
                      write'.players[p].number # write.players[p].number
               PROVE  \E r \in Request :
                        /\ requests[r].player = p
                        /\ requests[r].number = write'.players[p].number
    OBVIOUS
  <2>1. p \in Known
    BY DEF Known
  <2> QED
    BY <1>1, <2>1, VersionsSteps, PlayerRows
<1>2. ReadsInv /\ [ReadsNext]_readsVars => [Asked]_versions
  BY <1>1
<1> QED
  BY <1>2, ReadsInvariant, PTL DEF ReadsSafetySpec, NumberAsRequested

(* A client that polls a match whose confirms did not overlap is never shown *)
(* a status from before one it has seen.                                     *)
THEOREM PollsForward == ReadsSafetySpec => PollsMoveForward
<1> DEFINE Forward ==
      \A m \in Orderly : shown'[m] # shown[m] => Progress[shown[m]] < Progress[shown'[m]]
<1>1. ASSUME ReadsInv, [ReadsNext]_readsVars
      PROVE  Forward
  <2> SUFFICES ASSUME NEW m \in Orderly, shown'[m] # shown[m]
               PROVE  Progress[shown[m]] < Progress[shown'[m]]
    OBVIOUS
  <2>1. PICK x \in Match : shown' = [shown EXCEPT ![x] = read.matches[x].status]
    BY <1>1, PollsStep
  <2>2. shown'[m] = read.matches[m].status
    BY <1>1, <2>1 DEF ReadsInv, ReadsTypeOK, Orderly
  <2> QED
    BY <1>1, <2>2 DEF ReadsInv, StatusesInOrder, Before
<1>2. ReadsInv /\ [ReadsNext]_readsVars => [Forward]_shown
  BY <1>1
<1> QED
  BY <1>2, ReadsInvariant, PTL DEF ReadsSafetySpec, PollsMoveForward, Orderly
=============================================================================
