----------------------------- MODULE CourseDevices -----------------------------
(***************************************************************************)
(* The devices from which users may open their paid courses:                *)
(* src/course-device-access/services/course-device-access.service.ts.       *)
(*                                                                         *)
(* Verification, requests and decisions are SERIALIZABLE transactions, so    *)
(* each is one action; one that PostgreSQL aborts, or in which the           *)
(* attestation fails, leaves nothing behind.  Whether a user is enrolled is  *)
(* read before the transactions and can change at any time, so an action may *)
(* always find that he is.                                                  *)
(***************************************************************************)
EXTENDS Naturals, FiniteSets

CONSTANTS
  DeviceUsers, Courses, Devices,
  IosDevices,  \* App Attest; the others are Android devices
  Attempts,    \* who opens which course from which device
  MaxOpen,     \* bound on the challenges waiting for their answer
  MaxAdds      \* bound on the devices administrators add to a course

Rows == DeviceUsers \X Courses \X Devices

ASSUME DevicesAssumption ==
  /\ IosDevices \subseteq Devices
  /\ Attempts \subseteq Rows
  /\ MaxOpen \in Nat \ {0}
  /\ MaxAdds \in Nat

VARIABLES
  status,      \* course_device_authorizations.status, "none" before the row exists
  recent,      \* the rows whose lastVerifiedAt is less than ten minutes ago
  challenges,  \* the rows for which a challenge is open
  tokens,      \* the rows with an access token of less than twelve hours
  pending,     \* the rows a PENDING request asks for
  allowed      \* history: devices administrators allow a user on a course

deviceVars == <<status, recent, challenges, tokens, pending, allowed>>

-----------------------------------------------------------------------------
DevicesTypeOK ==
  /\ status \in [Rows -> {"none", "candidate", "active", "revoked"}]
  /\ recent \subseteq Rows
  /\ challenges \subseteq Attempts
  /\ tokens \subseteq Rows
  /\ pending \subseteq Rows
  /\ allowed \in [DeviceUsers \X Courses -> 1..(1 + MaxAdds)]

DevicesInit ==
  /\ status = [r \in Rows |-> "none"]
  /\ recent = {}
  /\ challenges = {}
  /\ tokens = {}
  /\ pending = {}
  /\ allowed = [uc \in DeviceUsers \X Courses |-> 1]

User(r) == r[1]
Scope(r) == <<r[1], r[2]>>
Device(r) == r[3]

Known == {r \in Rows : status[r] # "none"}
ActiveIn(uc) == {r \in Rows : Scope(r) = uc /\ status[r] = "active"}

\* The user's rows of the same device key in other courses.
KnownFrom(r) ==
  {k \in Rows : User(k) = User(r) /\ Device(k) = Device(r) /\ status[k] # "none"}

\* (Mutant: other accounts are looked up in the same course only.)
ForeignHere(r) ==
  \E k \in Rows : User(k) # User(r) /\ k[2] = r[2] /\ Device(k) = Device(r) /\ status[k] # "none"

\* The key is associated with another account.
Foreign(r) ==
  \E k \in Rows : User(k) # User(r) /\ Device(k) = Device(r) /\ status[k] # "none"

\* (Mutant: a device whose replacement was itself replaced comes back alone.)
VerifiedReplaces(r) ==
  IF status[r] \in {"active", "revoked"} \/ ActiveIn(Scope(r)) = {} THEN "active"
  ELSE "candidate"

\* What verification makes of a row that was not active: an unknown device
\* becomes a candidate, and the first one of a course is activated.
Verified(r) ==
  IF status[r] = "active" \/ ActiveIn(Scope(r)) = {} THEN "active"
  ELSE IF status[r] = "none" THEN "candidate" ELSE status[r]

\* assertCourseAccess.
MayOpen(r) == status[r] = "active" /\ r \in tokens

-----------------------------------------------------------------------------
\* createChallenge.
CreateChallenge(r) ==
  /\ r \in Attempts \ challenges
  /\ Cardinality(challenges) < MaxOpen
  /\ challenges' = challenges \union {r}
  /\ UNCHANGED <<status, recent, tokens, pending, allowed>>

\* Five minutes pass; removeExpiredChallenges deletes the row later.
ChallengeExpires(r) ==
  /\ r \in challenges
  /\ challenges' = challenges \ {r}
  /\ UNCHANGED <<status, recent, tokens, pending, allowed>>

\* verifyDevice: the proof is right.  On iOS the assertion of a device known
\* from another course only is checked against, and recorded in, that row.
VerifyDevice(r) ==
  /\ r \in challenges
  /\ ~Foreign(r)
  /\ challenges' = challenges \ {r}
  /\ status' = [status EXCEPT ![r] = Verified(r)]
  /\ tokens' = IF Verified(r) = "active" THEN tokens \union {r} ELSE tokens
  /\ IF status[r] = "none" /\ Device(r) \in IosDevices /\ KnownFrom(r) # {}
       THEN \E k \in KnownFrom(r) : recent' = recent \union {r, k}
       ELSE recent' = recent \union {r}
  /\ UNCHANGED <<pending, allowed>>

\* Ten minutes pass since a verification.
VerificationAges(r) ==
  /\ r \in recent
  /\ recent' = recent \ {r}
  /\ UNCHANGED <<status, challenges, tokens, pending, allowed>>

\* Twelve hours pass.  Revoking a device leaves its token as it is.
TokenExpires(r) ==
  /\ r \in tokens
  /\ tokens' = tokens \ {r}
  /\ UNCHANGED <<status, recent, challenges, pending, allowed>>

\* createRequest: a device verified just now, without access, on a course that
\* has a device; a second request for it returns the pending one.
CreateRequest(r) ==
  /\ r \in recent \ pending
  /\ status[r] # "active"
  /\ ActiveIn(Scope(r)) # {}
  /\ pending' = pending \union {r}
  /\ UNCHANGED <<status, recent, challenges, tokens, allowed>>

\* (Mutant: the oldest device is replaced, not all of them.)
ReplaceOne(r) ==
  /\ r \in pending
  /\ pending' = pending \ {r}
  /\ \E old \in ActiveIn(Scope(r)) :
       status' = [status EXCEPT ![old] = "revoked", ![r] = "active"]
  /\ allowed' = [allowed EXCEPT ![Scope(r)] = 1]
  /\ UNCHANGED <<recent, challenges, tokens>>

\* (Mutant: the requested device is revoked with the others.)
ReplaceAll(r) ==
  /\ r \in pending
  /\ pending' = pending \ {r}
  /\ status' = [k \in Rows |-> IF Scope(k) = Scope(r) /\ (status[k] = "active" \/ k = r)
                                 THEN "revoked" ELSE status[k]]
  /\ allowed' = [allowed EXCEPT ![Scope(r)] = 1]
  /\ UNCHANGED <<recent, challenges, tokens>>

\* decideRequest, REPLACE: every active device of the course is revoked.
Replace(r) ==
  /\ r \in pending
  /\ pending' = pending \ {r}
  /\ status' = [k \in Rows |-> IF k = r THEN "active"
                               ELSE IF k \in ActiveIn(Scope(r)) THEN "revoked"
                               ELSE status[k]]
  /\ allowed' = [allowed EXCEPT ![Scope(r)] = 1]
  /\ UNCHANGED <<recent, challenges, tokens>>

\* decideRequest, ADD.
Add(r) ==
  /\ r \in pending
  /\ allowed[Scope(r)] <= MaxAdds
  /\ pending' = pending \ {r}
  /\ status' = [status EXCEPT ![r] = "active"]
  /\ allowed' = [allowed EXCEPT ![Scope(r)] = @ + 1]
  /\ UNCHANGED <<recent, challenges, tokens>>

\* decideRequest, REJECT.
Reject(r) ==
  /\ r \in pending
  /\ pending' = pending \ {r}
  /\ UNCHANGED <<status, recent, challenges, tokens, allowed>>

\* (Mutant: the requests for the course are left.)
FreshPurchaseKeepsRequests(uc) ==
  /\ status' = [k \in Rows |-> IF Scope(k) = uc /\ status[k] # "none" THEN "revoked"
                               ELSE status[k]]
  /\ tokens' = {k \in tokens : Scope(k) # uc}
  /\ allowed' = [allowed EXCEPT ![uc] = 1]
  /\ UNCHANGED <<recent, challenges, pending>>

\* resetDeviceBindingsForFreshPurchase: a user without access buys the course,
\* and starts with no device.
FreshPurchase(uc) ==
  /\ status' = [k \in Rows |-> IF Scope(k) = uc /\ status[k] # "none" THEN "revoked"
                               ELSE status[k]]
  /\ tokens' = {k \in tokens : Scope(k) # uc}
  /\ pending' = {k \in pending : Scope(k) # uc}
  /\ allowed' = [allowed EXCEPT ![uc] = 1]
  /\ UNCHANGED <<recent, challenges>>

DevicesNext ==
  \/ \E uc \in DeviceUsers \X Courses : FreshPurchase(uc)
  \/ \E r \in Rows :
    \/ CreateChallenge(r) \/ ChallengeExpires(r)
    \/ VerifyDevice(r) \/ VerificationAges(r) \/ TokenExpires(r)
    \/ CreateRequest(r)
    \/ Replace(r) \/ Add(r) \/ Reject(r)

DevicesSpec == DevicesInit /\ [][DevicesNext]_deviceVars

-----------------------------------------------------------------------------
(* Properties.                                                              *)

\* A user has at most the devices an administrator allowed him on a course:
\* the first one, and those added since the last replacement or purchase,
\* whatever requests were pending when it was decided.
DevicesWithinAllowance ==
  \A uc \in DeviceUsers \X Courses : Cardinality(ActiveIn(uc)) <= allowed[uc]

\* A device key is associated with one account, and a request that waits for an
\* administrator still has a point: its device has no access, and some device
\* has.  No order of verifications, replacements, purchases and other requests
\* leaves an obsolete request or a device too many behind.
DevicesConsistent ==
  /\ DevicesTypeOK
  /\ DevicesWithinAllowance
  /\ \A r, k \in Known : Device(r) = Device(k) => User(r) = User(k)
  /\ \A r \in pending : status[r] # "active" /\ ActiveIn(Scope(r)) # {}

\* A device that cannot open a course can open it after it has verified itself,
\* or after an administrator's decision on it; a revoked device only after the
\* decision, while the course has another.  And a course that has a device keeps
\* one until the user buys it again, which ends all of his sessions.
AccessIsRegained ==
  [][/\ \A r \in Known' :
          LET Decided == r \in pending /\ r \notin pending'
          IN /\ ~MayOpen(r) /\ MayOpen(r)' => r \in challenges \ challenges' \/ Decided
             /\ status[r] = "revoked" /\ status'[r] = "active" =>
                  Decided \/ ActiveIn(Scope(r)) = {}
     /\ \A k \in Known :
          status[k] = "active" /\ ActiveIn(Scope(k))' = {} =>
            \A r \in tokens' \union pending' : Scope(r) # Scope(k)
    ]_deviceVars
=============================================================================
