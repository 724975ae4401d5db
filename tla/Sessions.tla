------------------------------- MODULE Sessions --------------------------------
(* Who is logged in where (auth/auth.service.ts, devices/services/             *)
(* user-device.service.ts), the sockets a session has opened                   *)
(* (chat/chat.gateway.ts, auth/session-socket-registry.service.ts) and the     *)
(* deletion of an account (users/user-account-deletion.service.ts). A row of   *)
(* user_devices is loaded, changed and saved as a whole, without a lock; the   *)
(* sockets and their registry live in the one process's memory.                *)
EXTENDS Integers, FiniteSets

CONSTANTS
  Holders,           \* users
  Installations,      \* the pairs <<user, device>> that ever log in
  SessionIds,         \* 1, 2, ...
  Clients,            \* sockets
  Callers,            \* requests in flight
  MaxAuthWork,        \* bound: requests made and connections tried
  NoSession

ASSUME SessionsAssumption ==
  /\ SessionIds \subseteq Nat \ {0} /\ NoSession \notin SessionIds
  /\ \A i \in Installations : i[1] \in Holders

VARIABLES
  userDevice,         \* user_devices: session, push token and isActive, per installation
  account,            \* users: whether the row is there
  socket,             \* what became of a socket, and the session it showed
  connections,        \* ChatGateway.connections: userId -> sockets
  activeInboxUsers,   \* ChatGateway.activeInboxUsers of one conversation
  caller,             \* what a request holds between two calls
  sessionsMade, authWork,
  revoked,            \* history: sessions that were ended, replaced or taken over
  overlooked,         \* history: revoked without their sockets being looked up
  late,               \* history: sockets registered after their session was looked up to be ended
  staleDevice,        \* history: a copy was saved over a session it did not know
  loginsMet           \* history: two logins on a device, or a login and a deletion, overlapped

deviceRows == <<userDevice, account, sessionsMade, revoked, overlooked, staleDevice>>
sockets == <<socket, connections, activeInboxUsers, late>>
loginVars == <<deviceRows, sockets, caller, authWork, loginsMet>>

Absent == [session |-> NoSession, push |-> FALSE, active |-> FALSE, there |-> FALSE]
Cleared == [session |-> NoSession, push |-> FALSE, active |-> FALSE, there |-> TRUE]
Free == [pc |-> "idle", kind |-> "none", i |-> <<>>, copies |-> <<>>, kill |-> {}]
Closed == [pc |-> "off", session |-> NoSession, user |-> NoSession]

SessionsInit ==
  /\ userDevice = [i \in Installations |-> Absent]
  /\ account = [u \in Holders |-> TRUE]
  /\ socket = [k \in Clients |-> Closed]
  /\ connections = [u \in Holders |-> {}]
  /\ activeInboxUsers = {}
  /\ caller = [r \in Callers |-> Free]
  /\ sessionsMade = 0 /\ authWork = 0
  /\ revoked = {} /\ overlooked = {} /\ late = {}
  /\ staleDevice = FALSE /\ loginsMet = FALSE

SessionsOf(copies) == {copies[i].session : i \in DOMAIN copies} \ {NoSession}
Copies(I) == [i \in I |-> userDevice[i]]
RowsOf(u) == {i \in Installations : i[1] = u /\ userDevice[i].there}
RivalRows(i) ==
  {j \in Installations : j[2] = i[2] /\ j[1] # i[1] /\ userDevice[j].there}

Call(r, request) ==
  /\ caller[r].pc = "idle" /\ authWork < MaxAuthWork
  /\ authWork' = authWork + 1
  /\ caller' = [caller EXCEPT ![r] = request]

Resume(r, pc) == caller[r].pc = pc /\ UNCHANGED <<authWork, loginsMet>>
Goes(r, pc) == caller' = [caller EXCEPT ![r].pc = pc]
Returns(r) == caller' = [caller EXCEPT ![r] = Free]

(* Whose session it is that the row has lost is known to `known` only.         *)
Loses(I, known) ==
  LET lost == {userDevice[i].session : i \in I} \ {NoSession}
  IN /\ revoked' = revoked \union lost \union known
     /\ overlooked' = overlooked \union (lost \ known)

-----------------------------------------------------------------------------
(* login, socialLogin, verifyOtp -> generateToken -> startAuthSession, and     *)
(* registerDevice, which a logged-in device calls. Both begin with             *)
(* deactivateOtherUsersForDevice.                                              *)

LoginsMeet(i) == \E r \in Callers :
  \/ caller[r].kind = "login" /\ caller[r].i[2] = i[2]
  \/ caller[r].kind = "delete" /\ caller[r].i[1] = i[1]

Login(r, i) ==
  /\ account[i[1]]
  /\ Call(r, [Free EXCEPT !.pc = "clear", !.kind = "login", !.i = i, !.copies = Copies(RivalRows(i))])
  /\ loginsMet' = (loginsMet \/ LoginsMeet(i))
  /\ UNCHANGED <<deviceRows, sockets>>

RegisterDevice(r, i) ==
  /\ account[i[1]] /\ userDevice[i].session # NoSession
  /\ Call(r, [Free EXCEPT !.pc = "clear", !.kind = "register", !.i = i,
                          !.copies = Copies(RivalRows(i))])
  /\ UNCHANGED <<deviceRows, sockets, loginsMet>>

\* Mutant of DeactivateOtherUsers: other users keep their session on the device.
DeactivatePushOnly(r) ==
  LET I == DOMAIN caller[r].copies
  IN /\ Resume(r, "clear")
     /\ userDevice' = [i \in Installations |->
          IF i \in I THEN [userDevice[i] EXCEPT !.push = FALSE] ELSE userDevice[i]]
     /\ Goes(r, "load")
     /\ UNCHANGED <<revoked, overlooked, staleDevice, account, sessionsMade, sockets>>

(* registerDevice does not look at the sessions this has ended. *)
DeactivateOtherUsers(r) ==
  LET I == DOMAIN caller[r].copies
      known == SessionsOf(caller[r].copies)
      kill == IF caller[r].kind = "login" THEN known ELSE {}
  IN /\ Resume(r, "clear")
     /\ userDevice' = [i \in Installations |-> IF i \in I THEN Cleared ELSE userDevice[i]]
     /\ Loses(I, kill)
     /\ caller' = [caller EXCEPT ![r].pc = "load", ![r].kill = kill]
     /\ UNCHANGED <<staleDevice, account, sessionsMade, sockets>>

LoadDevice(r) ==
  /\ Resume(r, "load")
  /\ caller' = [caller EXCEPT ![r].pc = "save", ![r].copies = Copies({caller[r].i})]
  /\ UNCHANGED <<deviceRows, sockets>>

(* The row as the copy says, with a new session. Two first logins insert; the  *)
(* second violates UQ_user_devices_user_device and disconnects nobody.         *)
StartAuthSession(r) ==
  LET i == caller[r].i
      copy == caller[r].copies[i]
      session == sessionsMade + 1
      known == SessionsOf(caller[r].copies) \union caller[r].kill
  IN /\ Resume(r, "save") /\ caller[r].kind = "login"
     /\ IF copy.there \/ ~userDevice[i].there
          THEN /\ session \in SessionIds
               /\ sessionsMade' = session
               /\ userDevice' = [userDevice EXCEPT ![i] =
                    [copy EXCEPT !.session = session, !.there = TRUE,
                                 !.active = @ \/ ~copy.there]]
               /\ Loses({i}, known)
               /\ staleDevice' = staleDevice
               /\ caller' = [caller EXCEPT ![r].pc = "kill", ![r].kill = known, ![r].copies = <<>>]
          ELSE /\ Returns(r)
               /\ overlooked' = overlooked \union caller[r].kill
               /\ UNCHANGED <<userDevice, sessionsMade, revoked, staleDevice>>
     /\ UNCHANGED <<account, sockets>>

(* registerDevice saves its copy with the token; deactivateByFcmToken saves    *)
(* one without it.                                                             *)
SaveDevice(r) ==
  LET i == caller[r].i
      copy == caller[r].copies[i]
      push == caller[r].kind = "register"
      lost == {userDevice[i].session} \ {copy.session, NoSession}
  IN /\ Resume(r, "save") /\ caller[r].kind \in {"register", "invalid"}
     /\ userDevice' = [userDevice EXCEPT ![i] =
          [copy EXCEPT !.push = push, !.active = push, !.there = TRUE]]
     /\ staleDevice' = (staleDevice \/ userDevice[i].session # copy.session)
     /\ revoked' = revoked \union lost /\ overlooked' = overlooked \union lost
     /\ Returns(r)
     /\ UNCHANGED <<account, sessionsMade, sockets>>

(* The push service says that the token is dead. *)
DeactivateByFcmToken(r, i) ==
  /\ userDevice[i].push
  /\ Call(r, [Free EXCEPT !.pc = "save", !.kind = "invalid", !.i = i, !.copies = Copies({i})])
  /\ UNCHANGED <<deviceRows, sockets, loginsMet>>

-----------------------------------------------------------------------------
(* logout of one session, resetPassword for all of a user's, and the deletion  *)
(* of the account.                                                             *)

Logout(r, i) ==
  /\ account[i[1]] /\ userDevice[i].session # NoSession
  /\ Call(r, [Free EXCEPT !.pc = "end", !.kind = "logout", !.i = i, !.copies = Copies({i})])
  /\ UNCHANGED <<deviceRows, sockets, loginsMet>>

LogoutEverywhere(r, u) ==
  /\ account[u] /\ RowsOf(u) # {}
  /\ Call(r, [Free EXCEPT !.pc = "end", !.kind = "reset", !.i = <<u>>, !.copies = Copies(RowsOf(u))])
  /\ UNCHANGED <<deviceRows, sockets, loginsMet>>

(* One update, which looks at no socket. *)
DeactivateDevice(i) ==
  /\ account[i[1]] /\ userDevice[i].session # NoSession
  /\ authWork < MaxAuthWork /\ authWork' = authWork + 1
  /\ userDevice' = [userDevice EXCEPT ![i] = Cleared]
  /\ Loses({i}, {})
  /\ UNCHANGED <<account, sessionsMade, staleDevice, sockets, caller, loginsMet>>

(* Which sessions the rows had when they were loaded is all it knows of. *)
EndSessions(r) ==
  LET I == DOMAIN caller[r].copies
      known == SessionsOf(caller[r].copies)
  IN /\ Resume(r, "end")
     /\ userDevice' = [i \in Installations |-> IF i \in I THEN Cleared ELSE userDevice[i]]
     /\ Loses(I, known)
     /\ caller' = [caller EXCEPT ![r].pc = "kill", ![r].kill = known, ![r].copies = <<>>]
     /\ UNCHANGED <<account, sessionsMade, staleDevice, sockets>>

(* getActiveSessionIds, before the transaction. *)
DeleteAccount(r, u) ==
  /\ account[u]
  /\ Call(r, [Free EXCEPT !.pc = "kill", !.kind = "delete", !.i = <<u>>,
                          !.kill = SessionsOf(Copies(RowsOf(u)))])
  /\ loginsMet' = (loginsMet \/ \E q \in Callers : caller[q].kind = "login" /\ caller[q].i[1] = u)
  /\ UNCHANGED <<deviceRows, sockets>>

(* The transaction commits after the sockets were disconnected. *)
CommitDeletion(r) ==
  LET u == caller[r].i[1]
  IN /\ Resume(r, "commit")
     /\ account' = [account EXCEPT ![u] = FALSE]
     /\ userDevice' = [i \in Installations |-> IF i \in RowsOf(u) THEN Cleared ELSE userDevice[i]]
     /\ Loses(RowsOf(u), caller[r].kill)
     /\ Returns(r)
     /\ UNCHANGED <<sessionsMade, staleDevice, sockets>>

-----------------------------------------------------------------------------
(* Sockets *)

(* handleConnection: the session is checked, then the user loaded; the socket  *)
(* is registered after that.                                                   *)
CheckSession(k, i) ==
  /\ socket[k].pc = "off" /\ authWork < MaxAuthWork
  /\ userDevice[i].session # NoSession
  /\ authWork' = authWork + 1
  /\ socket' = [socket EXCEPT ![k] =
       [pc |-> "checked", session |-> userDevice[i].session, user |-> i[1]]]
  /\ UNCHANGED <<deviceRows, connections, activeInboxUsers, late, caller, loginsMet>>

TooLate(k) ==
  \/ socket[k].session \in revoked
  \/ \E r \in Callers : caller[r].pc = "commit" /\ socket[k].session \in caller[r].kill

(* The client that has gone meanwhile is registered all the same. *)
Register(k) ==
  LET u == socket[k].user
      pc == IF socket[k].pc = "checked" THEN "open" ELSE "ghost"
  IN /\ socket[k].pc \in {"checked", "gone"}
     /\ socket' = [socket EXCEPT ![k] =
          IF ~account[u] THEN Closed
          ELSE [socket[k] EXCEPT !.pc = pc]]
     /\ connections' = IF account[u] THEN [connections EXCEPT ![u] = @ \union {k}] ELSE connections
     /\ late' = IF TooLate(k) THEN late \union {k} ELSE late
     /\ UNCHANGED <<deviceRows, activeInboxUsers, caller, authWork, loginsMet>>

\* Mutant of InboxWithout: the users of an inbox are not looked through.
InboxKept(K) == activeInboxUsers

(* A user leaves the inbox when any of its sockets goes. *)
InboxWithout(K) == activeInboxUsers \ {socket[k].user : k \in K}

(* handleDisconnect of the sockets K: those registered leave the maps. *)
HandleDisconnect(K) ==
  /\ socket' = [k \in Clients |-> IF k \in K THEN Closed ELSE socket[k]]
  /\ connections' = [u \in Holders |-> connections[u] \ K]
  /\ activeInboxUsers' = InboxWithout(K)
  /\ late' = late \ K

ClientLeaves(k) ==
  /\ \/ socket[k].pc = "open" /\ HandleDisconnect({k})
     \/ /\ socket[k].pc = "checked"
        /\ socket' = [socket EXCEPT ![k].pc = "gone"]
        /\ UNCHANGED <<connections, activeInboxUsers, late>>
  /\ UNCHANGED <<deviceRows, caller, authWork, loginsMet>>

EnterInbox(k) ==
  /\ socket[k].pc = "open"
  /\ activeInboxUsers' = activeInboxUsers \union {socket[k].user}
  /\ UNCHANGED <<deviceRows, socket, connections, late, caller, authWork, loginsMet>>

LeaveInbox(k) ==
  /\ socket[k].pc = "open"
  /\ activeInboxUsers' = activeInboxUsers \ {socket[k].user}
  /\ UNCHANGED <<deviceRows, socket, connections, late, caller, authWork, loginsMet>>

\* Mutant of Registered: a session's sockets are looked up while they connect.
RegisteredNever(session) == {}

(* SessionSocketRegistryService: the sockets of a session; a ghost has gone    *)
(* and answers nothing.                                                        *)
Registered(session) == {k \in Clients : socket[k].pc = "open" /\ socket[k].session = session}

(* A second deletion waits for the user's row, and finds it gone. *)
Waits(r) ==
  caller[r].kind = "delete" /\ \E q \in Callers : caller[q].pc = "commit" /\ caller[q].i = caller[r].i

(* disconnectSession of every session the request has ended, or is about to.   *)
DisconnectSessions(r) ==
  LET deletes == caller[r].kind = "delete"
      gone == deletes /\ ~account[caller[r].i[1]]
  IN /\ Resume(r, "kill") /\ ~Waits(r)
     /\ HandleDisconnect(IF gone THEN {} ELSE UNION {Registered(s) : s \in caller[r].kill})
     /\ IF deletes /\ ~gone THEN Goes(r, "commit") ELSE Returns(r)
     /\ UNCHANGED deviceRows

(* The process restarts: its sockets close and its maps are empty. *)
RestartGateway ==
  /\ \E r \in Callers : caller[r].pc # "idle"
  /\ caller' = [r \in Callers |-> Free]
  /\ socket' = [k \in Clients |-> Closed]
  /\ connections' = [u \in Holders |-> {}]
  /\ activeInboxUsers' = {} /\ late' = {}
  /\ UNCHANGED <<deviceRows, authWork, loginsMet>>

SessionsNext ==
  \/ \E i \in Installations : DeactivateDevice(i)
  \/ \E r \in Callers :
       \/ \E i \in Installations :
            \/ Login(r, i) \/ RegisterDevice(r, i) \/ DeactivateByFcmToken(r, i) \/ Logout(r, i)
       \/ \E u \in Holders : LogoutEverywhere(r, u) \/ DeleteAccount(r, u)
       \/ DeactivateOtherUsers(r) \/ LoadDevice(r) \/ StartAuthSession(r) \/ SaveDevice(r)
       \/ EndSessions(r) \/ CommitDeletion(r) \/ DisconnectSessions(r)
  \/ \E k \in Clients :
       \/ \E i \in Installations : CheckSession(k, i)
       \/ Register(k) \/ ClientLeaves(k) \/ EnterInbox(k) \/ LeaveInbox(k)
  \/ RestartGateway

SessionsSpec == SessionsInit /\ [][SessionsNext]_loginVars

-----------------------------------------------------------------------------
(* Properties *)

SessionsTypeOK ==
  /\ userDevice \in [Installations ->
       [session : SessionIds \union {NoSession}, push : BOOLEAN, active : BOOLEAN, there : BOOLEAN]]
  /\ \A k \in Clients : socket[k].pc \in {"off", "checked", "gone", "open", "ghost"}

ActiveSessions == {userDevice[i].session : i \in Installations} \ {NoSession}

\* A session that was ended stays ended, a device has one user logged in and a
\* deleted account none, unless a copy was saved over a newer row or logins
\* overlapped; an open socket belongs to a session that is active, is being
\* ended or was ended while the socket connected or by a save that did not know
\* of it; and the gateway's maps hold the sockets there are, the ones that went
\* while they connected, and users that have one.
SessionsConsistent ==
  /\ SessionsTypeOK
  /\ ~staleDevice => ActiveSessions \intersect revoked = {}
  /\ ~staleDevice /\ ~loginsMet =>
       /\ \A i, j \in Installations :
            i[2] = j[2] /\ i[1] # j[1] =>
              userDevice[i].session = NoSession \/ userDevice[j].session = NoSession
       /\ \A i \in Installations : ~account[i[1]] => userDevice[i].session = NoSession
  /\ \A k \in Clients : socket[k].pc = "open" /\ socket[k].session \in revoked =>
       \/ socket[k].session \in overlooked \/ k \in late
       \/ \E r \in Callers : socket[k].session \in caller[r].kill
  /\ \A u \in Holders :
       connections[u] = {k \in Clients : socket[k].pc \in {"open", "ghost"} /\ socket[k].user = u}
  /\ \A u \in activeInboxUsers : \E k \in connections[u] : socket[k].pc = "open"
=============================================================================
