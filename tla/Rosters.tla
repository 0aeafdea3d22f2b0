------------------------------ MODULE Rosters ------------------------------
(* Teams and their players: TeamService, TeamOwnershipGuard and the         *)
(* requests of PlayersService, each two statements on two connections.      *)
(* Requests of users who do not own the team end in the guard (403).        *)
EXTENDS Replica

CONSTANTS
  Team, NoTeam,            \* team ids; the team of a player without a row
  Player, NoPlayer,        \* player ids; the id of a player to be created
  Number, NoNumber, Keep,  \* jersey numbers; null; a number not in the body
  Request                  \* concurrent requests to the players endpoints

ASSUME RostersAssumptions ==
  /\ NoTeam \notin Team
  /\ NoPlayer \notin Player
  /\ NoNumber \notin Number
  /\ Keep \notin Number \cup {NoNumber}

VARIABLE requests   \* progress of the requests past their guard

PlayerRow ==
  [team : Team \cup {NoTeam}, number : Number \cup {NoNumber}, deleted : BOOLEAN]

NoPlayerRow == [team |-> NoTeam, number |-> NoNumber, deleted |-> FALSE]

Idle ==
  [at |-> "idle", team |-> NoTeam, player |-> NoPlayer, number |-> NoNumber]

Active ==
  [at : {"create", "createWrite", "update", "updateWrite", "remove", "removeWrite"},
   team : Team, player : Player \cup {NoPlayer},
   number : Number \cup {NoNumber, Keep}]

(* The ids handed out so far; clients use no others. *)
Known == {p \in Player : write.players[p].team # NoTeam}

Live(row, t) == row.team = t /\ ~row.deleted

(* findAllByTeam: the players listed for a team. *)
Roster(db, t) == {p \in Player : Live(db.players[p], t)}

(* findFirst on teamId, jerseyNumber and deletedAt: null. *)
Worn(db, t, n) == \E p \in Roster(db, t) : db.players[p].number = n

(* Mutant: no unique index; only PlayersService looks for the number. *)
NotIndexed(p, row) == TRUE

(* idx_players_team_jersey, partial: whether row may be written as player p *)
Indexed(p, row) ==
  row.deleted \/ row.number = NoNumber \/
    \A q \in Roster(write, row.team) : write.players[q].number = row.number => q = p

Answer(r) == requests' = [requests EXCEPT ![r] = Idle]

Goto(r, at) == requests' = [requests EXCEPT ![r].at = at]

(* The write statement of a request; P2002 becomes a 409. *)
Put(r, p, row) ==
  /\ IF Indexed(p, row) THEN Commit([write EXCEPT !.players[p] = row])
                        ELSE UNCHANGED versions
  /\ Answer(r)
-----------------------------------------------------------------------------
(* TeamService.create; nothing ever removes a team. *)
CreateTeam(t) ==
  /\ t \notin write.teams
  /\ Commit([write EXCEPT !.teams = @ \cup {t}])
  /\ UNCHANGED requests

(* TeamOwnershipGuard reads the primary and lets the request through. *)
GuardTeam(r, t, at, p, n) ==
  /\ requests[r] = Idle
  /\ t \in write.teams
  /\ requests' = [requests EXCEPT ![r] =
       [at |-> at, team |-> t, player |-> p, number |-> n]]
  /\ UNCHANGED versions

(* create without a number skips its check. *)
PostPlayer(r, t, n) ==
  GuardTeam(r, t, IF n = NoNumber THEN "createWrite" ELSE "create", NoPlayer, n)

(* create: is the number worn?  Asked of the replica; 409 if so. *)
CreateCheck(r) ==
  /\ requests[r].at = "create"
  /\ IF Worn(read, requests[r].team, requests[r].number)
     THEN Answer(r) ELSE Goto(r, "createWrite")
  /\ UNCHANGED versions

(* create: the insert, under a new id. *)
CreateWrite(r) ==
  /\ requests[r].at = "createWrite"
  /\ \E p \in Player \ Known :
       Put(r, p, [team |-> requests[r].team, number |-> requests[r].number,
                  deleted |-> FALSE])

(* update: findFirst of a live player of the team; 404 otherwise. *)
UpdateRead(r) ==
  /\ requests[r].at = "update"
  /\ IF Live(write.players[requests[r].player], requests[r].team)
     THEN Goto(r, "updateWrite") ELSE Answer(r)
  /\ UNCHANGED versions

(* Mutant: the row that findFirst returned, a live one, is written back.    *)
UpdateWriteWholeRow(r) ==
  LET p == requests[r].player
      n == IF requests[r].number = Keep THEN write.players[p].number ELSE requests[r].number
  IN
  /\ requests[r].at = "updateWrite"
  /\ Put(r, p, [team |-> requests[r].team, number |-> n, deleted |-> FALSE])

(* Mutant: a number missing in the body becomes null, as in create. *)
UpdateWriteOrNull(r) ==
  LET p == requests[r].player IN
  /\ requests[r].at = "updateWrite"
  /\ Put(r, p, [write.players[p] EXCEPT
       !.number = IF requests[r].number = Keep THEN NoNumber ELSE requests[r].number])

(* update: the columns in the body, of the row with that id. *)
UpdateWrite(r) ==
  LET p == requests[r].player IN
  /\ requests[r].at = "updateWrite"
  /\ Put(r, p, IF requests[r].number = Keep THEN write.players[p]
               ELSE [write.players[p] EXCEPT !.number = requests[r].number])

(* remove: findFirst of a player of the team, removed ones included. *)
RemoveRead(r) ==
  /\ requests[r].at = "remove"
  /\ IF write.players[requests[r].player].team = requests[r].team
     THEN Goto(r, "removeWrite") ELSE Answer(r)
  /\ UNCHANGED versions

(* remove: deletedAt of the row with that id. *)
RemoveWrite(r) ==
  LET p == requests[r].player IN
  /\ requests[r].at = "removeWrite"
  /\ Put(r, p, [write.players[p] EXCEPT !.deleted = TRUE])
-----------------------------------------------------------------------------
RosterStep ==
  \/ \E t \in Team : CreateTeam(t)
  \/ \E r \in Request, t \in Team :
       \/ \E n \in Number \cup {NoNumber} : PostPlayer(r, t, n)
       \/ \E p \in Known :
            \/ \E n \in Number \cup {NoNumber, Keep} : GuardTeam(r, t, "update", p, n)
            \/ GuardTeam(r, t, "remove", p, Keep)
  \/ \E r \in Request :
       \/ CreateCheck(r) \/ CreateWrite(r) \/ UpdateRead(r)
       \/ UpdateWrite(r) \/ RemoveRead(r) \/ RemoveWrite(r)
-----------------------------------------------------------------------------
(* Properties.                                                               *)

(* No list shows a jersey number twice, neither on the primary nor on any   *)
(* version the replica can be at: concurrent creates and updates check the  *)
(* number against a copy that lags, or not at all.                          *)
JerseyUnique ==
  \A i \in DOMAIN versions, t \in Team : LET db == versions[i] IN
    \A p, q \in Roster(db, t) :
      /\ db.players[p].number = db.players[q].number
      /\ db.players[p].number # NoNumber
      => p = q

(* A player that was removed stays removed, whatever update had found it    *)
(* live in an earlier statement.                                            *)
RemovedStaysRemoved ==
  [][\A p \in Player : write.players[p].deleted => write.players[p].deleted']_versions

(* An update touches only the columns in its body: the number of a player   *)
(* changes only to one that a request in progress asks for that player.     *)
NumberAsRequested ==
  [][\A p \in Player : LET row == write.players[p] IN
       row.team # NoTeam /\ row.number' # row.number =>
         \E r \in Request :
           /\ requests[r].player = p
           /\ requests[r].number = write.players[p].number']_versions
=============================================================================
