----------------------------- MODULE UsageProofs -----------------------------
(* What the modules around the users guarantee for every number of users,      *)
(* devices, requests, orders and messages: CourseDevices, Calls, StoreWallet   *)
(* and ChatMessages.                                                           *)
EXTENDS CourseDevices, Calls, StoreWallet, ChatMessages, VoiceUsage, Sums

-----------------------------------------------------------------------------
(* The devices of the courses.                                                 *)

\* Whoever was verified has a row, and so has whoever waits for a decision; and
\* the devices of a course can be counted.
DevicesInv ==
  /\ DevicesConsistent
  /\ recent \union pending \subseteq Known
  /\ \A uc \in DeviceUsers \X Courses : IsFiniteSet(ActiveIn(uc))

LEMMA ScopeTyped ==
  ASSUME NEW r \in Rows
  PROVE  Scope(r) \in DeviceUsers \X Courses
  BY DEF Rows, Scope

LEMMA DevicesInitInv == DevicesInit => DevicesInv
<1> SUFFICES ASSUME DevicesInit PROVE DevicesInv
  OBVIOUS
<1>1. Known = {} /\ \A uc : ActiveIn(uc) = {}
  BY DEF DevicesInit, Known, ActiveIn
<1>2. \A uc : IsFiniteSet(ActiveIn(uc)) /\ Cardinality(ActiveIn(uc)) = 0
  BY <1>1, FS_EmptySet
<1>3. DevicesTypeOK
  BY DevicesAssumption DEF DevicesInit, DevicesTypeOK
<1>4. DevicesWithinAllowance
  BY <1>2 DEF DevicesInit, DevicesWithinAllowance
<1> QED
  BY <1>1, <1>2, <1>3, <1>4 DEF DevicesInit, DevicesInv, DevicesConsistent

\* A step that leaves the rows as they are.
LEMMA RowsKept ==
  ASSUME DevicesInv, UNCHANGED <<status, allowed>>, DevicesTypeOK',
         recent' \union pending' \subseteq Known,
         \A r \in pending' : r \in pending \/ (status[r] # "active" /\ ActiveIn(Scope(r)) # {})
  PROVE  DevicesInv'
  BY DEF DevicesInv, DevicesConsistent, DevicesWithinAllowance, Known, ActiveIn

\* A step that changes rows: their devices still belong to one account each, the
\* devices of a course are as many as allowed, and a course that has a device
\* keeps one while a request for it waits.
LEMMA RowsChanged ==
  ASSUME DevicesInv, DevicesTypeOK',
         \A k \in Known' : k \in Known \/ ~Foreign(k),
         \A k, l \in Known' : k \in Known \/ l \in Known \/ k = l,
         \A uc \in DeviceUsers \X Courses :
           /\ IsFiniteSet(ActiveIn(uc)') /\ Cardinality(ActiveIn(uc)') <= allowed'[uc],
         recent' \union pending' \subseteq Known',
         \A r \in pending' : r \in pending /\ status'[r] # "active" /\ ActiveIn(Scope(r))' # {}
  PROVE  DevicesInv'
<1>1. ASSUME NEW k \in Known', NEW l \in Known', Device(k) = Device(l) PROVE User(k) = User(l)
  BY <1>1 DEF DevicesInv, DevicesConsistent, Foreign, Known
<1> QED
  BY <1>1 DEF DevicesInv, DevicesConsistent, DevicesWithinAllowance

LEMMA DevicesStep ==
  ASSUME DevicesInv, [DevicesNext]_deviceVars
  PROVE  DevicesInv'
<1> USE DevicesAssumption
<1>t. DevicesTypeOK /\ recent \union pending \subseteq Known /\ Known \subseteq Rows
  BY DEF DevicesInv, DevicesConsistent, Known
<1>f. \A uc \in DeviceUsers \X Courses :
        IsFiniteSet(ActiveIn(uc)) /\ Cardinality(ActiveIn(uc)) <= allowed[uc] /\ allowed[uc] >= 1
  BY DEF DevicesInv, DevicesConsistent, DevicesWithinAllowance, DevicesTypeOK
<1>p. \A r \in pending : status[r] # "active" /\ ActiveIn(Scope(r)) # {}
  BY DEF DevicesInv, DevicesConsistent
<1>1. ASSUME NEW r \in Rows,
             CreateChallenge(r) \/ ChallengeExpires(r) \/ VerificationAges(r) \/ TokenExpires(r)
               \/ CreateRequest(r) \/ Reject(r)
      PROVE  DevicesInv'
  <2>1. UNCHANGED <<status, allowed>>
    BY <1>1 DEF CreateChallenge, ChallengeExpires, VerificationAges, TokenExpires, CreateRequest, Reject
  <2>2. DevicesTypeOK'
    BY <1>1, <1>t
    DEF CreateChallenge, ChallengeExpires, VerificationAges, TokenExpires, CreateRequest, Reject,
        DevicesTypeOK
  <2>3. /\ recent' \union pending' \subseteq Known
        /\ \A k \in pending' : k \in pending \/ (status[k] # "active" /\ ActiveIn(Scope(k)) # {})
    BY <1>1, <1>t
    DEF CreateChallenge, ChallengeExpires, VerificationAges, TokenExpires, CreateRequest, Reject
  <2> QED
    BY <2>1, <2>2, <2>3, RowsKept
<1>2. ASSUME NEW r \in Rows, VerifyDevice(r) PROVE DevicesInv'
  <2>1. /\ ~Foreign(r) /\ status' = [status EXCEPT ![r] = Verified(r)]
        /\ UNCHANGED <<pending, allowed>>
        /\ Verified(r) \in {"candidate", "active", "revoked"}
    BY <1>2, <1>t DEF VerifyDevice, Verified, DevicesTypeOK
  <2>2. recent' \subseteq recent \union {r} \union KnownFrom(r) /\ KnownFrom(r) \subseteq Known
    BY <1>2 DEF VerifyDevice, KnownFrom, Known
  <2>3. Known' = Known \union {r}
    BY <2>1, <1>t DEF Known, DevicesTypeOK
  <2>4. DevicesTypeOK'
    BY <1>2, <1>t, <2>1, <2>2 DEF VerifyDevice, DevicesTypeOK
  <2>5. \A uc \in DeviceUsers \X Courses :
          \/ ActiveIn(uc)' = ActiveIn(uc)
          \/ uc = Scope(r) /\ ActiveIn(uc) = {} /\ ActiveIn(uc)' = {r}
    <3> SUFFICES ASSUME NEW uc \in DeviceUsers \X Courses
                 PROVE  \/ ActiveIn(uc)' = ActiveIn(uc)
                        \/ uc = Scope(r) /\ ActiveIn(uc) = {} /\ ActiveIn(uc)' = {r}
      OBVIOUS
    <3>1. CASE status[r] # "active" /\ Verified(r) = "active" /\ uc = Scope(r)
      BY <2>1, <3>1, <1>t DEF ActiveIn, Verified, DevicesTypeOK
    <3>2. CASE status[r] = "active" \/ Verified(r) # "active" \/ uc # Scope(r)
      BY <2>1, <3>2, <1>t DEF ActiveIn, Verified, DevicesTypeOK
    <3> QED
      BY <3>1, <3>2
  <2>6. ASSUME NEW uc \in DeviceUsers \X Courses
        PROVE  IsFiniteSet(ActiveIn(uc)') /\ Cardinality(ActiveIn(uc)') <= allowed'[uc]
    <3>1. IsFiniteSet({r}) /\ Cardinality({r}) = 1 /\ allowed' = allowed
      BY <2>1, FS_Singleton
    <3>2. CASE ActiveIn(uc)' = ActiveIn(uc)
      BY <3>1, <3>2, <1>f
    <3>3. CASE ActiveIn(uc)' = {r}
      BY <3>1, <3>3, <1>f
    <3> QED
      BY <2>5, <3>2, <3>3
  <2>7. ASSUME NEW k \in pending' PROVE k \in pending /\ status'[k] # "active" /\ ActiveIn(Scope(k))' # {}
    <3>1. k \in pending /\ status[k] # "active" /\ ActiveIn(Scope(k)) # {} /\ k \in Rows
      BY <2>1, <2>7, <1>p, <1>t
    <3>2. status'[k] # "active"
      BY <2>1, <3>1, <1>t DEF Verified, DevicesTypeOK
    <3> QED
      BY <2>5, <3>1, <3>2, ScopeTyped
  <2> QED
    BY <2>1, <2>2, <2>3, <2>4, <2>6, <2>7, <1>t, RowsChanged
<1>3. ASSUME NEW r \in Rows, Replace(r) PROVE DevicesInv'
  <2>1. /\ r \in pending /\ pending' = pending \ {r}
        /\ status' = [k \in Rows |-> IF k = r THEN "active"
                                     ELSE IF k \in ActiveIn(Scope(r)) THEN "revoked" ELSE status[k]]
        /\ allowed' = [allowed EXCEPT ![Scope(r)] = 1]
        /\ UNCHANGED <<recent, challenges, tokens>>
    BY <1>3 DEF Replace
  <2>2. Known' = Known
    BY <2>1, <1>t DEF Known, ActiveIn
  <2>3. ActiveIn(Scope(r))' = {r} /\ \A uc : uc # Scope(r) => ActiveIn(uc)' = ActiveIn(uc)
    BY <2>1 DEF ActiveIn
  <2>4. DevicesTypeOK'
    BY <2>1, <1>t, ScopeTyped DEF DevicesTypeOK
  <2>5. ASSUME NEW uc \in DeviceUsers \X Courses
        PROVE  IsFiniteSet(ActiveIn(uc)') /\ Cardinality(ActiveIn(uc)') <= allowed'[uc]
    <3>1. IsFiniteSet({r}) /\ Cardinality({r}) = 1
      BY FS_Singleton
    <3>2. allowed'[uc] = IF uc = Scope(r) THEN 1 ELSE allowed[uc]
      BY <2>1, <1>t DEF DevicesTypeOK
    <3> QED
      BY <2>3, <3>1, <3>2, <1>f
  <2>6. ASSUME NEW k \in pending' PROVE k \in pending /\ status'[k] # "active" /\ ActiveIn(Scope(k))' # {}
    BY <2>1, <2>3, <2>6, <1>p, <1>t
  <2> QED
    BY <2>1, <2>2, <2>4, <2>5, <2>6, <1>t, RowsChanged
<1>4. ASSUME NEW r \in Rows, Add(r) PROVE DevicesInv'
  <2>1. /\ r \in pending /\ pending' = pending \ {r} /\ status' = [status EXCEPT ![r] = "active"]
        /\ allowed' = [allowed EXCEPT ![Scope(r)] = @ + 1] /\ allowed[Scope(r)] <= MaxAdds
        /\ UNCHANGED <<recent, challenges, tokens>>
    BY <1>4 DEF Add
  <2>2. Known' = Known
    BY <2>1, <1>t DEF Known, DevicesTypeOK
  <2>3. /\ ActiveIn(Scope(r))' = ActiveIn(Scope(r)) \union {r} /\ r \notin ActiveIn(Scope(r))
        /\ \A uc : uc # Scope(r) => ActiveIn(uc)' = ActiveIn(uc)
    BY <2>1, <1>p, <1>t DEF ActiveIn, DevicesTypeOK
  <2>4. DevicesTypeOK'
    BY <2>1, <1>t, ScopeTyped DEF DevicesTypeOK
  <2>5. ASSUME NEW uc \in DeviceUsers \X Courses
        PROVE  IsFiniteSet(ActiveIn(uc)') /\ Cardinality(ActiveIn(uc)') <= allowed'[uc]
    <3>1. CASE uc = Scope(r)
      <4>1. IsFiniteSet(ActiveIn(uc)') /\ Cardinality(ActiveIn(uc)') = Cardinality(ActiveIn(uc)) + 1
        BY <2>3, <3>1, <1>f, FS_AddElement
      <4>2. allowed'[uc] = allowed[uc] + 1 /\ allowed[uc] \in Nat /\ Cardinality(ActiveIn(uc)) \in Nat
        BY <2>1, <3>1, <1>f, <1>t, FS_CardinalityType DEF DevicesTypeOK
      <4> QED
        BY <4>1, <4>2, <1>f
    <3>2. CASE uc # Scope(r)
      BY <2>1, <2>3, <3>2, <1>f, <1>t DEF DevicesTypeOK
    <3> QED
      BY <3>1, <3>2
  <2>6. ASSUME NEW k \in pending' PROVE k \in pending /\ status'[k] # "active" /\ ActiveIn(Scope(k))' # {}
    BY <2>1, <2>3, <2>6, <1>p, <1>t DEF DevicesTypeOK
  <2> QED
    BY <2>1, <2>2, <2>4, <2>5, <2>6, <1>t, RowsChanged
<1>5. ASSUME NEW uc \in DeviceUsers \X Courses, FreshPurchase(uc) PROVE DevicesInv'
  <2>1. /\ status' = [k \in Rows |-> IF Scope(k) = uc /\ status[k] # "none" THEN "revoked" ELSE status[k]]
        /\ tokens' = {k \in tokens : Scope(k) # uc} /\ pending' = {k \in pending : Scope(k) # uc}
        /\ allowed' = [allowed EXCEPT ![uc] = 1] /\ UNCHANGED <<recent, challenges>>
    BY <1>5 DEF FreshPurchase
  <2>2. Known' = Known
    BY <2>1 DEF Known
  <2>3. ActiveIn(uc)' = {} /\ \A vc : vc # uc => ActiveIn(vc)' = ActiveIn(vc)
    BY <2>1 DEF ActiveIn
  <2>4. DevicesTypeOK'
    BY <2>1, <1>t DEF DevicesTypeOK
  <2>5. ASSUME NEW vc \in DeviceUsers \X Courses
        PROVE  IsFiniteSet(ActiveIn(vc)') /\ Cardinality(ActiveIn(vc)') <= allowed'[vc]
    <3>1. IsFiniteSet({}) /\ Cardinality({}) = 0
      BY FS_EmptySet
    <3>2. allowed'[vc] = IF vc = uc THEN 1 ELSE allowed[vc]
      BY <2>1, <1>t DEF DevicesTypeOK
    <3> QED
      BY <2>3, <3>1, <3>2, <1>f
  <2>6. ASSUME NEW k \in pending' PROVE k \in pending /\ status'[k] # "active" /\ ActiveIn(Scope(k))' # {}
    BY <2>1, <2>3, <2>6, <1>p, <1>t
  <2> QED
    BY <2>1, <2>2, <2>4, <2>5, <2>6, <1>t, RowsChanged
<1>6. CASE UNCHANGED deviceVars
  BY <1>6
  DEF deviceVars, DevicesInv, DevicesConsistent, DevicesTypeOK, DevicesWithinAllowance, Known, ActiveIn
<1> QED
  BY <1>1, <1>2, <1>3, <1>4, <1>5, <1>6 DEF DevicesNext

LEMMA DevicesInductive == DevicesSpec => []DevicesInv
<1>1. DevicesInv /\ [DevicesNext]_deviceVars => DevicesInv'
  BY DevicesStep
<1> QED
  BY <1>1, DevicesInitInv, PTL DEF DevicesSpec

\* A user has at most the devices he was allowed on a course, a device belongs to
\* one account, and no decision, verification or purchase leaves a request
\* without a point (verifyDevice, decideRequest, resetDeviceBindingsForFreshPurchase).
THEOREM DevicesAreConsistent == DevicesSpec => []DevicesConsistent
<1>1. DevicesInv => DevicesConsistent
  BY DEF DevicesInv
<1> QED
  BY <1>1, DevicesInductive, PTL

\* The property of a step that AccessIsRegained claims of all.
RegainsAccess ==
  /\ \A r \in Known' :
       LET Decided == r \in pending /\ r \notin pending'
       IN /\ ~MayOpen(r) /\ MayOpen(r)' => r \in challenges \ challenges' \/ Decided
          /\ status[r] = "revoked" /\ status'[r] = "active" => Decided \/ ActiveIn(Scope(r)) = {}
  /\ \A k \in Known :
       status[k] = "active" /\ ActiveIn(Scope(k))' = {} =>
         \A r \in tokens' \union pending' : Scope(r) # Scope(k)

LEMMA AccessStep ==
  ASSUME DevicesInv, [DevicesNext]_deviceVars
  PROVE  RegainsAccess
<1>t. /\ status \in [Rows -> {"none", "candidate", "active", "revoked"}]
      /\ Known \subseteq Rows /\ pending \subseteq Rows
      /\ \A k \in Known : status[k] = "active" => k \in ActiveIn(Scope(k))
  BY DEF DevicesInv, DevicesConsistent, DevicesTypeOK, Known, ActiveIn
<1>1. ASSUME UNCHANGED status, tokens' \subseteq tokens PROVE RegainsAccess
  BY <1>1, <1>t DEF RegainsAccess, MayOpen, Known, ActiveIn
<1>2. ASSUME NEW r \in Rows,
             CreateChallenge(r) \/ ChallengeExpires(r) \/ VerificationAges(r) \/ TokenExpires(r)
               \/ CreateRequest(r) \/ Reject(r)
      PROVE  RegainsAccess
  BY <1>1, <1>2
  DEF CreateChallenge, ChallengeExpires, VerificationAges, TokenExpires, CreateRequest, Reject
<1>3. ASSUME NEW r \in Rows, VerifyDevice(r) PROVE RegainsAccess
  <2>1. /\ r \in challenges \ challenges' /\ status' = [status EXCEPT ![r] = Verified(r)]
        /\ tokens' \subseteq tokens \union {r}
    BY <1>3 DEF VerifyDevice
  <2>2. \A k \in Known : status[k] = "active" => ActiveIn(Scope(k))' # {}
    BY <2>1, <1>t DEF ActiveIn, Verified, Known
  <2>3. status[r] = "revoked" /\ status'[r] = "active" => ActiveIn(Scope(r)) = {}
    BY <2>1, <1>t DEF Verified
  <2> QED
    BY <2>1, <2>2, <2>3, <1>t DEF RegainsAccess, MayOpen, Known
<1>4. ASSUME NEW r \in Rows, Replace(r) PROVE RegainsAccess
  <2>1. /\ r \in pending /\ r \notin pending' /\ UNCHANGED tokens
        /\ status' = [k \in Rows |-> IF k = r THEN "active"
                                     ELSE IF k \in ActiveIn(Scope(r)) THEN "revoked" ELSE status[k]]
    BY <1>4 DEF Replace
  <2>2. \A k \in Known : status[k] = "active" => ActiveIn(Scope(k))' # {}
    BY <2>1, <1>t DEF ActiveIn
  <2> QED
    BY <2>1, <2>2, <1>t DEF RegainsAccess, MayOpen, Known
<1>5. ASSUME NEW r \in Rows, Add(r) PROVE RegainsAccess
  <2>1. /\ r \in pending /\ r \notin pending' /\ UNCHANGED tokens
        /\ status' = [status EXCEPT ![r] = "active"]
    BY <1>5 DEF Add
  <2>2. \A k \in Known : status[k] = "active" => ActiveIn(Scope(k))' # {}
    BY <2>1, <1>t DEF ActiveIn
  <2> QED
    BY <2>1, <2>2, <1>t DEF RegainsAccess, MayOpen, Known
<1>6. ASSUME NEW uc \in DeviceUsers \X Courses, FreshPurchase(uc) PROVE RegainsAccess
  <2>1. /\ status' = [k \in Rows |-> IF Scope(k) = uc /\ status[k] # "none" THEN "revoked" ELSE status[k]]
        /\ tokens' = {k \in tokens : Scope(k) # uc} /\ pending' = {k \in pending : Scope(k) # uc}
    BY <1>6 DEF FreshPurchase
  <2>2. \A k \in Known : status[k] = "active" /\ Scope(k) # uc => ActiveIn(Scope(k))' # {}
    BY <2>1, <1>t DEF ActiveIn
  <2> QED
    BY <2>1, <2>2, <1>t DEF RegainsAccess, MayOpen, Known
<1>7. CASE UNCHANGED deviceVars
  BY <1>1, <1>7 DEF deviceVars
<1> QED
  BY <1>2, <1>3, <1>4, <1>5, <1>6, <1>7 DEF DevicesNext

\* And a device regains the course only through a verification or a decision, a
\* course loses its last device only by a new purchase that ends its sessions.
THEOREM DevicesRegainAccess == DevicesSpec => AccessIsRegained
<1>1. DevicesInv /\ [DevicesNext]_deviceVars => [RegainsAccess]_deviceVars
  BY AccessStep
<1> QED
  BY <1>1, DevicesInductive, PTL DEF DevicesSpec, AccessIsRegained, RegainsAccess

-----------------------------------------------------------------------------
(* Calls: the life cycle whatever overlaps, and more when nothing does.        *)

\* Whoever saves found a status from which the call may take the one it saves:
\* a call it ends was answered.
CallsInv ==
  /\ CallsConsistent
  /\ \A r \in Requests :
       /\ reqPc[r] # "idle" => target[r] \in Calls
       /\ reqPc[r] = "save" =>
            /\ goal[r] \in Final \union {"active"}
            /\ goal[r] \in {"ended", "failed"} => answered[target[r]]

LEMMA Transitions ==
  ASSUME NEW kind \in CallKinds
  PROVE  /\ Transition(kind)[1] \in Ongoing
         /\ Transition(kind)[2] \in (Final \ {"failed"}) \union {"active"}
         /\ Transition(kind)[2] = "ended" <=> Transition(kind)[1] = "active"
  BY DEF CallKinds, Transition, Ongoing, Final

LEMMA CallsInitInv == CallsInit => CallsInv
  BY PartiesAssumption, FaultAssumption
  DEF CallsInit, CallsInv, CallsConsistent, CallsTypeOK, EndedWasAnswered, CallStatuses, Beats, Ongoing, Final

\* Where a request goes when it starts, continues or ends.
LEMMA RequestMoves ==
  ASSUME CallsTypeOK, NEW r \in Requests, NEW step \in {"idle", "lookup", "insert", "save"},
         NEW c \in Calls \union {NoCall}, NEW to \in CallStatuses, NEW b \in Beats,
         RequestGoto(r, step, c, to, b)
  PROVE  /\ reqPc' \in [Requests -> {"idle", "lookup", "insert", "save"}]
         /\ target' \in [Requests -> Calls \union {NoCall}]
         /\ goal' \in [Requests -> CallStatuses]
         /\ rBeat' \in [Requests -> Beats]
         /\ reqPc'[r] = step /\ target'[r] = c /\ goal'[r] = to
         /\ \A q \in Requests \ {r} :
              reqPc'[q] = reqPc[q] /\ target'[q] = target[q] /\ goal'[q] = goal[q]
  BY DEF RequestGoto, CallsTypeOK

LEMMA CallsStep ==
  ASSUME CallsInv, [CallsNext]_callVars
  PROVE  CallsInv' /\ (\A c \in Calls : call[c] \notin {"none", "ringing"} => call'[c] # "ringing")
<1> USE PartiesAssumption, FaultAssumption
<1> DEFINE Never == \A c \in Calls : call[c] \notin {"none", "ringing"} => call'[c] # "ringing"
<1>t. CallsTypeOK /\ EndedWasAnswered
  BY DEF CallsInv, CallsConsistent
<1>i. \A r \in Requests :
       /\ reqPc[r] # "idle" => target[r] \in Calls
       /\ reqPc[r] = "save" =>
            /\ goal[r] \in Final \union {"active"}
            /\ goal[r] \in {"ended", "failed"} => answered[target[r]]
  BY DEF CallsInv
<1>n. "none" \in CallStatuses /\ "null" \in Beats /\ Final \union {"active"} \subseteq CallStatuses
  BY DEF CallStatuses, Beats, Ongoing, Final
<1>v. \A c \in Calls : beat[c] \in Beats /\ call[c] \in CallStatuses
  BY <1>t DEF CallsTypeOK
\* A request that goes on with a call it may work on.
<1>g. ASSUME NEW r \in Requests, NEW step \in {"idle", "lookup", "insert", "save"},
             NEW c \in Calls \union {NoCall}, NEW to \in CallStatuses, NEW b \in Beats,
             RequestGoto(r, step, c, to, b), step # "idle" => c \in Calls,
             step = "save" => to \in Final \union {"active"} /\ (to \in {"ended", "failed"} => answered[c]),
             call' \in [Calls -> CallStatuses], old' \in [Calls -> BOOLEAN], beat' \in [Calls -> Beats],
             timer' \in [Calls -> BOOLEAN], answered' \in [Calls -> BOOLEAN], callFaults' \in 0..MaxCallFaults,
             EndedWasAnswered', \A d \in Calls : answered[d] => answered'[d]
      PROVE  CallsInv'
  <2>1. /\ reqPc' \in [Requests -> {"idle", "lookup", "insert", "save"}]
        /\ target' \in [Requests -> Calls \union {NoCall}]
        /\ goal' \in [Requests -> CallStatuses]
        /\ rBeat' \in [Requests -> Beats]
        /\ reqPc'[r] = step /\ target'[r] = c /\ goal'[r] = to
        /\ \A q \in Requests \ {r} :
             reqPc'[q] = reqPc[q] /\ target'[q] = target[q] /\ goal'[q] = goal[q]
    BY <1>g, <1>t, RequestMoves
  <2>2. CallsTypeOK'
    BY <2>1, <1>g DEF CallsTypeOK
  <2>3. \A q \in Requests :
       /\ reqPc'[q] # "idle" => target'[q] \in Calls
       /\ reqPc'[q] = "save" =>
            /\ goal'[q] \in Final \union {"active"}
            /\ goal'[q] \in {"ended", "failed"} => answered'[target'[q]]
    BY <2>1, <1>g, <1>i
  <2> QED
    BY <2>2, <2>3, <1>g DEF CallsInv, CallsConsistent
\* A step that concerns no request.
<1>k. ASSUME UNCHANGED <<requestVars, answered>>, CallsTypeOK', EndedWasAnswered'
      PROVE  CallsInv'
  BY <1>k, <1>i DEF CallsInv, CallsConsistent, requestVars
<1>1. ASSUME NEW r \in Requests, NEW c \in Calls, InitiateExpire(r, c)
      PROVE  CallsInv' /\ Never
  <2>1. \A d \in Calls : call'[d] = call[d] \/ (call[d] = "ringing" /\ call'[d] = "missed")
                           \/ (call[d] = "active" /\ call'[d] = "failed")
    BY <1>1 DEF InitiateExpire, Silent
  <2>2. call' \in [Calls -> CallStatuses]
    <3>1. \E f \in [Calls -> CallStatuses] : call' = f
      <4>1. PICK silent : call' = [d \in Calls |->
                  CASE call[d] = "ringing" /\ old[d] -> "missed"
                    [] Silent(d) /\ (beat[d] = "late" \/ d \in silent) -> "failed"
                    [] OTHER -> call[d]]
        BY <1>1 DEF InitiateExpire
      <4> QED
        BY <4>1, <1>v DEF CallStatuses, Ongoing, Final
    <3> QED
      BY <3>1
  <2>3. EndedWasAnswered'
    BY <1>1, <2>1, <1>t DEF InitiateExpire, EndedWasAnswered
  <2>4. CallsInv'
    BY <1>1, <2>2, <2>3, <1>g, <1>t, <1>n DEF InitiateExpire, CallsTypeOK
  <2> QED
    BY <2>4, <2>1
<1>2. ASSUME NEW r \in Requests, NEW c \in Calls, NEW kind \in CallKinds, ReadCall(r, c, kind)
      PROVE  CallsInv' /\ Never
  <2> DEFINE from == Transition(kind)[1]
             to == Transition(kind)[2]
  <2>1. from \in Ongoing /\ to \in (Final \ {"failed"}) \union {"active"} /\ (to = "ended" <=> from = "active")
    BY Transitions
  <2> HIDE DEF from, to
  <2>2. UNCHANGED <<call, old, beat, answered, callFaults>>
    BY <1>2 DEF ReadCall
  <2>3. EndedWasAnswered' /\ Never
    BY <2>2, <1>t DEF EndedWasAnswered
  <2>4. CASE call[c] = from /\ RequestGoto(r, "save", c, to, beat[c]) /\ UNCHANGED timer
    <3>1. to \in {"ended", "failed"} => answered[c]
      BY <2>1, <2>4, <1>t DEF EndedWasAnswered
    <3>2. to \in Final \union {"active"} /\ to \in CallStatuses
      BY <2>1, <1>n
    <3> QED
      BY <2>2, <2>3, <2>4, <3>1, <3>2, <1>g, <1>t, <1>v DEF CallsTypeOK
  <2>5. CASE UNCHANGED requestVars /\ timer' = [timer EXCEPT ![c] = FALSE]
    <3>1. CallsTypeOK'
      BY <2>2, <2>5, <1>t DEF CallsTypeOK, requestVars
    <3> QED
      BY <2>2, <2>5, <2>3, <3>1, <1>k
  <2> QED
    BY <1>2, <2>4, <2>5 DEF ReadCall, from, to
<1>3. ASSUME NEW r \in Requests, NEW c \in Calls, TimerFires(r, c)
      PROVE  CallsInv' /\ Never
  <2>2. UNCHANGED <<call, old, beat, answered, callFaults>> /\ timer' = [timer EXCEPT ![c] = FALSE]
    BY <1>3 DEF TimerFires
  <2>3. EndedWasAnswered' /\ Never
    BY <2>2, <1>t DEF EndedWasAnswered
  <2>6. timer' \in [Calls -> BOOLEAN]
    BY <2>2, <1>t DEF CallsTypeOK
  <2>4. CASE RequestGoto(r, "save", c, "missed", beat[c])
    <3>1. "missed" \in Final \union {"active"} /\ "missed" \in CallStatuses
      BY <1>n DEF Final
    <3> QED
      BY <2>2, <2>3, <2>4, <2>6, <3>1, <1>g, <1>t, <1>v DEF CallsTypeOK
  <2>5. CASE UNCHANGED requestVars
    <3>1. CallsTypeOK'
      BY <2>2, <2>5, <2>6, <1>t DEF CallsTypeOK, requestVars
    <3> QED
      BY <2>2, <2>5, <2>3, <3>1, <1>k
  <2> QED
    BY <1>3, <2>4, <2>5 DEF TimerFires
<1>4. ASSUME NEW r \in Requests, InitiateLookup(r)
      PROVE  CallsInv' /\ Never
  <2>1. target[r] \in Calls
    BY <1>4, <1>i DEF InitiateLookup
  <2>2. UNCHANGED <<call, old, beat, answered, callFaults>>
    BY <1>4 DEF InitiateLookup
  <2>3. EndedWasAnswered' /\ Never
    BY <2>2, <1>t DEF EndedWasAnswered
  <2>4. timer' \in [Calls -> BOOLEAN]
    BY <1>4, <1>t DEF InitiateLookup, CallsTypeOK
  <2>5. Done(r) \/ RequestGoto(r, "insert", target[r], "none", "null")
    BY <1>4 DEF InitiateLookup
  <2> QED
    BY <2>1, <2>2, <2>3, <2>4, <2>5, <1>g, <1>t, <1>n DEF Done, CallsTypeOK
<1>5. ASSUME NEW r \in Requests, InitiateInsert(r)
      PROVE  CallsInv' /\ Never
  <2>1. target[r] \in Calls
    BY <1>5, <1>i DEF InitiateInsert
  <2>2. UNCHANGED <<old, beat, answered, callFaults>> /\ RequestGoto(r, "idle", NoCall, "none", "null")
    BY <1>5 DEF InitiateInsert, Done
  <2>3. \/ UNCHANGED <<call, timer>>
        \/ /\ call[target[r]] = "none"
           /\ call' = [call EXCEPT ![target[r]] = "ringing"] /\ timer' = [timer EXCEPT ![target[r]] = TRUE]
    BY <1>5 DEF InitiateInsert
  <2>4. EndedWasAnswered' /\ Never
    BY <2>1, <2>2, <2>3, <1>t DEF EndedWasAnswered, CallsTypeOK
  <2>5. call' \in [Calls -> CallStatuses] /\ timer' \in [Calls -> BOOLEAN]
    BY <2>1, <2>3, <1>t DEF CallsTypeOK, CallStatuses, Ongoing
  <2> QED
    BY <2>2, <2>4, <2>5, <1>g, <1>t, <1>n DEF CallsTypeOK
<1>6. ASSUME NEW r \in Requests, SaveCall(r)
      PROVE  CallsInv' /\ Never
  <2> DEFINE c == target[r]
  <2>1. c \in Calls /\ goal[r] \in Final \union {"active"} /\ (goal[r] \in {"ended", "failed"} => answered[c])
    BY <1>6, <1>i DEF SaveCall
  <2>2. /\ call' = [call EXCEPT ![c] = goal[r]]
        /\ beat' = [beat EXCEPT ![c] = rBeat[r]]
        /\ timer' = [timer EXCEPT ![c] = FALSE]
        /\ answered' = [answered EXCEPT ![c] = @ \/ goal[r] = "active"]
        /\ UNCHANGED <<old, callFaults>> /\ RequestGoto(r, "idle", NoCall, "none", "null")
    BY <1>6 DEF SaveCall, Done
  <2> HIDE DEF c
  <2>3. /\ call' \in [Calls -> CallStatuses] /\ beat' \in [Calls -> Beats]
        /\ timer' \in [Calls -> BOOLEAN]
    BY <2>1, <2>2, <1>t, <1>n DEF CallsTypeOK
  <2>4. answered' \in [Calls -> BOOLEAN]
    BY <2>1, <2>2, <1>t DEF CallsTypeOK
  <2>5. \A d \in Calls : (answered[d] => answered'[d]) /\ (d = c /\ goal[r] = "active" => answered'[d])
    BY <2>1, <2>2, <1>t DEF CallsTypeOK
  <2>6. \A d \in Calls : call'[d] = IF d = c THEN goal[r] ELSE call[d]
    BY <2>1, <2>2, <1>t DEF CallsTypeOK
  <2>7. EndedWasAnswered' /\ Never
    BY <2>1, <2>5, <2>6, <1>t DEF EndedWasAnswered, Final
  <2> QED
    BY <2>2, <2>3, <2>4, <2>5, <2>7, <1>g, <1>t, <1>n DEF CallsTypeOK
<1>7. ASSUME NEW r \in Requests, CallSaveThrows(r)
      PROVE  CallsInv' /\ Never
  <2>1. UNCHANGED <<call, old, beat, timer, answered>> /\ RequestGoto(r, "idle", NoCall, "none", "null")
    BY <1>7 DEF CallSaveThrows, Done
  <2>2. callFaults' \in 0..MaxCallFaults
    BY <1>7, <1>t DEF CallSaveThrows, CallsTypeOK
  <2>3. EndedWasAnswered' /\ Never
    BY <2>1, <1>t DEF EndedWasAnswered
  <2> QED
    BY <2>1, <2>2, <2>3, <1>g, <1>t, <1>n DEF CallsTypeOK
<1>8. ASSUME NEW c \in Calls, Heartbeat(c) \/ ExpireActive(c) \/ GrowsOld(c) \/ BeatAges(c)
      PROVE  CallsInv' /\ Never
  <2>1. UNCHANGED <<requestVars, answered>>
    BY <1>8 DEF Heartbeat, ExpireActive, GrowsOld, BeatAges
  <2>2. CallsTypeOK'
    BY <1>8, <1>t DEF Heartbeat, ExpireActive, GrowsOld, BeatAges, CallsTypeOK, requestVars, Beats,
        CallStatuses, Final
  <2>3. \A d \in Calls : call'[d] = call[d] \/ (call[d] = "active" /\ call'[d] = "failed")
    BY <1>8, <1>t DEF Heartbeat, ExpireActive, GrowsOld, BeatAges, CallsTypeOK, Silent
  <2>4. EndedWasAnswered' /\ Never
    BY <2>1, <2>3, <1>t DEF EndedWasAnswered
  <2> QED
    BY <2>1, <2>2, <2>4, <1>k
<1>9. ASSUME Restart
      PROVE  CallsInv' /\ Never
  <2>1. CallsTypeOK'
    BY <1>9, <1>t, <1>n DEF Restart, CallsTypeOK
  <2>2. EndedWasAnswered' /\ Never
    BY <1>9, <1>t DEF Restart, EndedWasAnswered
  <2>3. \A r \in Requests : reqPc'[r] = "idle"
    BY <1>9 DEF Restart
  <2> QED
    BY <2>1, <2>2, <2>3 DEF CallsInv, CallsConsistent
<1>10. CASE UNCHANGED callVars
  <2>1. CallsTypeOK' /\ EndedWasAnswered' /\ Never
    BY <1>10, <1>t DEF callVars, requestVars, CallsTypeOK, EndedWasAnswered
  <2> QED
    BY <2>1, <1>10, <1>k DEF callVars
<1> QED
  BY <1>1, <1>2, <1>3, <1>4, <1>5, <1>6, <1>7, <1>8, <1>9, <1>10 DEF CallsNext, RequestStep

\* Every call that counts as ended was answered, and none rings again.
THEOREM CallsRunTheirCourseAlways == CallsSpec => CallsRunTheirCourse
<1>1. CallsInit => CallsInv
  BY CallsInitInv
<1>2. CallsInv /\ [CallsNext]_callVars => CallsInv'
  BY CallsStep
<1>3. CallsInv /\ [CallsNext]_callVars =>
        [\A c \in Calls : call[c] \notin {"none", "ringing"} => call'[c] # "ringing"]_callVars
  BY CallsStep
<1>4. CallsInv => CallsConsistent
  BY DEF CallsInv
<1> QED
  BY <1>1, <1>2, <1>3, <1>4, PTL DEF CallsSpec, CallsRunTheirCourse, NeverRingsAgain

-----------------------------------------------------------------------------
\* What the checks achieve when requests do not overlap: the request on its way
\* knows the call it is about to insert or save.
SerialInv ==
  /\ CallsInv
  /\ BusyUsersExcluded
  /\ \A r \in Requests :
       /\ reqPc[r] = "insert" => Blocking(target[r]) = {}
       /\ reqPc[r] = "save" =>
            IF goal[r] = "ended" THEN call[target[r]] \in {"active", "failed"}
                                 ELSE goal[r] # "failed" /\ call[target[r]] = "ringing"

\* A step that makes no call ongoing.
LEMMA FewerOngoing ==
  ASSUME \A c \in Calls : call'[c] \in Ongoing => call[c] \in Ongoing
  PROVE  /\ BusyUsersExcluded => BusyUsersExcluded'
         /\ \A c : Blocking(c) = {} => Blocking(c)' = {}
  BY DEF BusyUsersExcluded, Blocking

LEMMA SerialStep ==
  ASSUME SerialInv, [CallsNext]_callVars, \A r, q \in Requests : r = q
  PROVE  /\ SerialInv'
         /\ \A c \in Calls :
              call[c] \in Final => call'[c] = call[c] \/ (call[c] = "failed" /\ call'[c] = "ended")
<1> USE PartiesAssumption
<1> DEFINE Kept == \A c \in Calls :
              call[c] \in Final => call'[c] = call[c] \/ (call[c] = "failed" /\ call'[c] = "ended")
           Knows(r) ==
             /\ reqPc[r] = "insert" => Blocking(target[r]) = {}
             /\ reqPc[r] = "save" =>
                  IF goal[r] = "ended" THEN call[target[r]] \in {"active", "failed"}
                                       ELSE goal[r] # "failed" /\ call[target[r]] = "ringing"
<1>c. CallsInv /\ CallsInv' /\ BusyUsersExcluded /\ (\A r \in Requests : Knows(r))
  BY CallsStep DEF SerialInv
<1>t. CallsTypeOK
  BY <1>c DEF CallsInv, CallsConsistent
<1>s. ASSUME BusyUsersExcluded', \A r \in Requests : Knows(r)'
      PROVE  SerialInv'
  BY <1>s, <1>c DEF SerialInv
<1>o. ASSUME NEW r \in Requests, NEW step \in {"idle", "lookup", "insert", "save"},
             NEW c \in Calls \union {NoCall}, NEW to \in CallStatuses, NEW b \in Beats,
             RequestGoto(r, step, c, to, b)
      PROVE  \A q \in Requests : reqPc'[q] = step /\ target'[q] = c /\ goal'[q] = to
  BY <1>o, <1>t DEF RequestGoto, CallsTypeOK
<1>n. "none" \in CallStatuses /\ "null" \in Beats /\ Final \union {"active"} \subseteq CallStatuses
  BY DEF CallStatuses, Beats, Ongoing, Final
<1>v. \A c \in Calls : beat[c] \in Beats /\ call[c] \in CallStatuses
  BY <1>t DEF CallsTypeOK
<1>d. ASSUME NEW r \in Requests, Done(r) PROVE \A q \in Requests : reqPc'[q] = "idle"
  BY <1>d, <1>o, <1>n DEF Done
<1> HIDE DEF Knows
<1>1. ASSUME NEW r \in Requests, NEW c \in Calls, InitiateExpire(r, c)
      PROVE  SerialInv' /\ Kept
  <2>1. \A d \in Calls : call'[d] = call[d] \/ (call[d] = "ringing" /\ call'[d] = "missed")
                           \/ (call[d] = "active" /\ call'[d] = "failed")
    BY <1>1 DEF InitiateExpire, Silent
  <2>2. BusyUsersExcluded'
    BY <2>1, <1>c, FewerOngoing DEF Ongoing
  <2>3. \A q \in Requests : reqPc'[q] = "lookup"
    BY <1>1, <1>o, <1>n DEF InitiateExpire
  <2> QED
    BY <2>1, <2>2, <2>3, <1>s DEF Final, Knows
<1>2. ASSUME NEW r \in Requests, NEW c \in Calls, NEW kind \in CallKinds, ReadCall(r, c, kind)
      PROVE  SerialInv' /\ Kept
  <2> DEFINE from == Transition(kind)[1]
             to == Transition(kind)[2]
  <2>1. /\ from \in Ongoing /\ to \in (Final \ {"failed"}) \union {"active"}
        /\ to = "ended" <=> from = "active"
    BY Transitions
  <2> HIDE DEF from, to
  <2>2. UNCHANGED call
    BY <1>2 DEF ReadCall
  <2>3. BusyUsersExcluded' /\ Kept
    BY <2>2, <1>c DEF BusyUsersExcluded
  <2>4. CASE call[c] = from /\ RequestGoto(r, "save", c, to, beat[c])
    <3>1. to \in CallStatuses
      BY <2>1, <1>n
    <3>2. \A q \in Requests : reqPc'[q] = "save" /\ target'[q] = c /\ goal'[q] = to
      BY <2>4, <3>1, <1>v, <1>o
    <3>3. \A q \in Requests : Knows(q)'
      BY <3>2, <2>1, <2>2, <2>4 DEF Knows, Ongoing
    <3> QED
      BY <2>3, <3>3, <1>s
  <2>5. CASE UNCHANGED requestVars
    <3>1. \A q \in Requests : Knows(q)'
      BY <2>2, <2>5, <1>c DEF Knows, requestVars, Blocking
    <3> QED
      BY <2>3, <3>1, <1>s
  <2> QED
    BY <1>2, <2>4, <2>5 DEF ReadCall, from, to
<1>3. ASSUME NEW r \in Requests, NEW c \in Calls, TimerFires(r, c)
      PROVE  SerialInv' /\ Kept
  <2>2. UNCHANGED call
    BY <1>3 DEF TimerFires
  <2>3. BusyUsersExcluded' /\ Kept
    BY <2>2, <1>c DEF BusyUsersExcluded
  <2>4. CASE call[c] = "ringing" /\ RequestGoto(r, "save", c, "missed", beat[c])
    <3>1. "missed" \in CallStatuses
      BY <1>n DEF Final
    <3>2. \A q \in Requests : reqPc'[q] = "save" /\ target'[q] = c /\ goal'[q] = "missed"
      BY <2>4, <3>1, <1>v, <1>o
    <3>3. \A q \in Requests : Knows(q)'
      BY <3>2, <2>2, <2>4 DEF Knows
    <3> QED
      BY <2>3, <3>3, <1>s
  <2>5. CASE UNCHANGED requestVars
    <3>1. \A q \in Requests : Knows(q)'
      BY <2>2, <2>5, <1>c DEF Knows, requestVars, Blocking
    <3> QED
      BY <2>3, <3>1, <1>s
  <2> QED
    BY <1>3, <2>4, <2>5 DEF TimerFires
<1>4. ASSUME NEW r \in Requests, InitiateLookup(r)
      PROVE  SerialInv' /\ Kept
  <2>1. target[r] \in Calls /\ UNCHANGED call
    BY <1>4, <1>c DEF InitiateLookup, CallsInv
  <2>2. BusyUsersExcluded' /\ Kept
    BY <2>1, <1>c DEF BusyUsersExcluded
  <2>3. CASE Done(r)
    BY <2>2, <2>3, <1>d, <1>s DEF Knows
  <2>4. CASE Blocking(target[r]) = {} /\ RequestGoto(r, "insert", target[r], "none", "null")
    <3>1. \A q \in Requests : reqPc'[q] = "insert" /\ target'[q] = target[r]
      BY <2>4, <2>1, <1>o, <1>n
    <3>2. \A q \in Requests : Knows(q)'
      BY <3>1, <2>4, <2>1 DEF Knows, Blocking
    <3> QED
      BY <2>2, <3>2, <1>s
  <2> QED
    BY <1>4, <2>3, <2>4 DEF InitiateLookup
<1>5. ASSUME NEW r \in Requests, InitiateInsert(r)
      PROVE  SerialInv' /\ Kept
  <2> DEFINE c == target[r]
  <2>1. c \in Calls /\ Blocking(c) = {}
    BY <1>5, <1>c DEF InitiateInsert, CallsInv, Knows
  <2>2. UNCHANGED call \/ (call[c] = "none" /\ call' = [call EXCEPT ![c] = "ringing"])
    BY <1>5 DEF InitiateInsert
  <2> HIDE DEF c
  <2>3. \A d \in Calls : call'[d] = call[d] \/ (d = c /\ call[c] = "none")
    BY <2>2, <1>t DEF CallsTypeOK
  <2>4. \A d \in Calls : call[d] \in Ongoing => Parties(d) \intersect Parties(c) = {}
    BY <2>1 DEF Blocking
  <2>5. ASSUME NEW d \in Calls, NEW e \in Calls, call'[d] \in Ongoing, call'[e] \in Ongoing,
               Parties(d) \intersect Parties(e) # {}
        PROVE  d = e
    <3>1. CASE d = c \/ e = c
      BY <3>1, <2>3, <2>4, <2>5
    <3>2. CASE d # c /\ e # c
      BY <3>2, <2>3, <2>5, <1>c DEF BusyUsersExcluded
    <3> QED
      BY <3>1, <3>2
  <2>6. BusyUsersExcluded' /\ Kept
    BY <2>3, <2>5 DEF BusyUsersExcluded, Final, Parties
  <2> QED
    BY <1>5, <2>6, <1>d, <1>s DEF InitiateInsert, Knows
<1>6. ASSUME NEW r \in Requests, SaveCall(r)
      PROVE  SerialInv' /\ Kept
  <2> DEFINE c == target[r]
  <2>1. /\ c \in Calls /\ goal[r] \in Final \union {"active"}
        /\ IF goal[r] = "ended" THEN call[c] \in {"active", "failed"}
                                ELSE goal[r] # "failed" /\ call[c] = "ringing"
    BY <1>6, <1>c DEF SaveCall, CallsInv, Knows
  <2>2. call' = [call EXCEPT ![c] = goal[r]]
    BY <1>6 DEF SaveCall
  <2> HIDE DEF c
  <2>3. \A d \in Calls : call'[d] = IF d = c THEN goal[r] ELSE call[d]
    BY <2>1, <2>2, <1>t DEF CallsTypeOK
  <2>4. BusyUsersExcluded' /\ Kept
    BY <2>1, <2>3, <1>c, FewerOngoing DEF Final, Ongoing
  <2> QED
    BY <1>6, <2>4, <1>d, <1>s DEF SaveCall, Knows
<1>7. ASSUME NEW r \in Requests, CallSaveThrows(r)
      PROVE  SerialInv' /\ Kept
  <2>1. UNCHANGED call /\ Done(r)
    BY <1>7 DEF CallSaveThrows
  <2>2. BusyUsersExcluded' /\ Kept
    BY <2>1, <1>c DEF BusyUsersExcluded
  <2> QED
    BY <2>1, <2>2, <1>d, <1>s DEF Knows
<1>8. ASSUME NEW c \in Calls, Heartbeat(c) \/ ExpireActive(c) \/ GrowsOld(c) \/ BeatAges(c)
      PROVE  SerialInv' /\ Kept
  <2>1. UNCHANGED requestVars
    BY <1>8 DEF Heartbeat, ExpireActive, GrowsOld, BeatAges
  <2>3. \A d \in Calls : call'[d] = call[d] \/ (call[d] = "active" /\ call'[d] = "failed")
    BY <1>8, <1>t DEF Heartbeat, ExpireActive, GrowsOld, BeatAges, CallsTypeOK, Silent
  <2>4. BusyUsersExcluded' /\ Kept /\ \A d : Blocking(d) = {} => Blocking(d)' = {}
    BY <2>3, <1>c, FewerOngoing DEF Final, Ongoing
  <2>5. ASSUME NEW q \in Requests PROVE Knows(q)'
    <3>1. reqPc[q] # "idle" => target[q] \in Calls
      BY <1>c DEF CallsInv
    <3>2. UNCHANGED <<reqPc, target, goal>> /\ Knows(q)
      BY <2>1, <1>c DEF requestVars
    <3>3. reqPc[q] = "insert" => Blocking(target[q]) = {}
      BY <3>2 DEF Knows
    <3>4. reqPc'[q] = "insert" => (Blocking(target[q]) = {})'
      BY <3>2, <3>3, <2>4 DEF Blocking
    <3>5. reqPc'[q] = "save" =>
            IF goal'[q] = "ended" THEN call'[target'[q]] \in {"active", "failed"}
                                 ELSE goal'[q] # "failed" /\ call'[target'[q]] = "ringing"
      BY <3>1, <3>2, <2>3 DEF Knows
    <3> QED
      BY <3>4, <3>5 DEF Knows
  <2> QED
    BY <2>4, <2>5, <1>s
<1>9. ASSUME Restart
      PROVE  SerialInv' /\ Kept
  <2>1. UNCHANGED call /\ \A q \in Requests : reqPc'[q] = "idle"
    BY <1>9 DEF Restart
  <2>2. BusyUsersExcluded' /\ Kept
    BY <2>1, <1>c DEF BusyUsersExcluded
  <2> QED
    BY <2>1, <2>2, <1>s DEF Knows
<1>10. CASE UNCHANGED callVars
  <2>1. BusyUsersExcluded' /\ Kept /\ \A q \in Requests : Knows(q)'
    BY <1>10, <1>c DEF callVars, requestVars, BusyUsersExcluded, Knows, Blocking
  <2> QED
    BY <2>1, <1>s
<1> QED
  BY <1>1, <1>2, <1>3, <1>4, <1>5, <1>6, <1>7, <1>8, <1>9, <1>10 DEF CallsNext, RequestStep

\* With one request at a time no user is in two calls, and a call that is over
\* keeps its outcome, whatever timers, expiries, restarts and failed saves do.
THEOREM SerialCallsAreSoundAlways ==
  ASSUME \A r, q \in Requests : r = q
  PROVE  CallsSpec => SerialCallsAreSound
<1>1. CallsInit => SerialInv
  BY CallsInitInv DEF CallsInit, SerialInv, BusyUsersExcluded, Ongoing
<1>2. SerialInv /\ [CallsNext]_callVars => SerialInv'
  BY SerialStep
<1>3. SerialInv /\ [CallsNext]_callVars =>
        [\A c \in Calls :
           call[c] \in Final =>
             call'[c] = call[c] \/ (call[c] = "failed" /\ call'[c] = "ended")]_callVars
  BY SerialStep
<1>4. SerialInv => BusyUsersExcluded
  BY DEF SerialInv
<1> QED
  BY <1>1, <1>2, <1>3, <1>4, PTL DEF CallsSpec, SerialCallsAreSound, FinalIsFinal

-----------------------------------------------------------------------------
(* StoreWallet: credits, spending and reversals add up.                        *)

\* An order whose read no commit followed holds the row it will save, with what
\* it adds or takes; only one spender holds the row, as it is.
WalletInv ==
  /\ WalletConsistent
  /\ \A s \in Spenders : locked[s] => read[s] = balance
  /\ \A s, t \in Spenders : locked[s] /\ locked[t] => s = t
  /\ \A o \in Orders :
       phase[o] \in Reading /\ ~touched[o] =>
         \A r \in Resources :
           /\ copy[o][r] = IF phase[o] \in {"granting", "grantSaving"} THEN balance[r] + Gives[o][r]
                                                                      ELSE balance[r] - reversed[o][r]
           /\ phase[o] \in {"grantSaving", "reverseSaving"} =>
                (r \in differs[o] <=> copy[o][r] # balance[r])

LEMMA ZeroTyped == Zero \in [Resources -> Nat] /\ Zero \in [Resources -> Int] /\ \A r \in Resources : Zero[r] = 0
  BY DEF Zero

LEMMA WalletInitInv == WalletInit => WalletInv
<1> SUFFICES ASSUME WalletInit PROVE WalletInv
  OBVIOUS
<1>1. WalletTypeOK
  BY ZeroTyped DEF WalletInit, WalletTypeOK, Phases
<1>2. \A r \in Resources : balance[r] = 0 /\ spent[r] = 0 /\ returned[r] = 0 /\ credited[r] = 0
  BY ZeroTyped DEF WalletInit
<1>3. ConservedUnlessOverlapped
  <2>1. \A r \in Resources : balance[r] + spent[r] + returned[r] = credited[r]
    <3> TAKE r \in Resources
    <3>1. 0 + 0 + 0 = 0
      BY SMT
    <3> QED
      BY <1>2, <3>1, Zenon
  <2> QED
    BY <2>1 DEF ConservedUnlessOverlapped
<1> QED
  BY <1>1, <1>3 DEF WalletInit, WalletInv, WalletConsistent, Reading

\* A commit is seen by every open transaction but those of the orders excepted.
LEMMA Touched ==
  ASSUME WalletTypeOK, NEW except, TouchOthers(except)
  PROVE  /\ touched' \in [Orders -> BOOLEAN]
         /\ \A o \in Orders : touched'[o] <=> o \notin except /\ (touched[o] \/ phase[o] \in Reading)
<1>1. \A o \in Orders : touched[o] \in BOOLEAN /\ (phase[o] \in Reading) \in BOOLEAN
  BY DEF WalletTypeOK
<1>2. \A o \in Orders : (IF o \in except THEN FALSE ELSE touched[o] \/ phase[o] \in Reading) \in BOOLEAN
  OBVIOUS
<1>3. touched' \in [Orders -> BOOLEAN]
  BY <1>2 DEF TouchOthers
<1> QED
  BY <1>3 DEF TouchOthers

\* Compare leaves the row as it is.
LEMMA CompareStep ==
  ASSUME WalletInv, NEW o \in Orders, NEW from \in Phases, NEW to \in Phases, Compare(o, from, to),
         <<from, to>> \in {<<"granting", "grantSaving">>, <<"reversing", "reverseSaving">>}
  PROVE  WalletInv'
<1>t. WalletTypeOK
  BY DEF WalletInv, WalletConsistent
<1>1. UNCHANGED <<balance, spenderVars, copy, touched, overlap, reversed, totals>>
  BY DEF Compare
<1>2. /\ phase[o] = from
      /\ phase' \in [Orders -> Phases] /\ phase'[o] = to
      /\ \A p \in Orders \ {o} : phase'[p] = phase[p]
  BY <1>t DEF Compare, WalletTypeOK
<1>3. /\ differs' \in [Orders -> SUBSET Resources]
      /\ differs'[o] = {r \in Resources : copy[o][r] # balance[r]}
      /\ \A p \in Orders \ {o} : differs'[p] = differs[p]
  BY <1>t DEF Compare, WalletTypeOK
<1>4. WalletTypeOK'
  BY <1>t, <1>1, <1>2, <1>3 DEF WalletTypeOK, spenderVars, totals
<1>5. ConservedUnlessOverlapped'
  BY <1>1 DEF WalletInv, WalletConsistent, ConservedUnlessOverlapped, totals
<1>6. ASSUME NEW p \in Orders, phase'[p] \in Reading, ~touched'[p], NEW r \in Resources
      PROVE  /\ copy'[p][r] = IF phase'[p] \in {"granting", "grantSaving"} THEN balance'[r] + Gives[p][r]
                                                                      ELSE balance'[r] - reversed'[p][r]
             /\ phase'[p] \in {"grantSaving", "reverseSaving"} =>
                (r \in differs'[p] <=> copy'[p][r] # balance'[r])
  <2>1. CASE p = o
    BY <2>1, <1>1, <1>2, <1>3, <1>6 DEF WalletInv, Reading
  <2>2. CASE p # o
    BY <2>2, <1>1, <1>2, <1>3, <1>6 DEF WalletInv
  <2> QED
    BY <2>1, <2>2
<1> QED
  BY <1>1, <1>4, <1>5, <1>6 DEF WalletInv, WalletConsistent, spenderVars

\* A save puts the copy in place when nothing was committed since its read.
LEMMA SaveStep ==
  ASSUME WalletInv, NEW o \in Orders, NEW from \in Phases, NEW to \in Phases, Save(o, from, to),
         from \in {"grantSaving", "reverseSaving"}, to \notin Reading,
         totals' \in [Resources -> Int] \X [Resources -> Int] \X [Resources -> Int],
         from = "grantSaving" => \A r \in Resources :
           /\ credited'[r] = credited[r] + Gives[o][r]
           /\ spent'[r] = spent[r] /\ returned'[r] = returned[r],
         from = "reverseSaving" => \A r \in Resources :
           /\ returned'[r] = returned[r] + reversed[o][r]
           /\ spent'[r] = spent[r] /\ credited'[r] = credited[r]
  PROVE  WalletInv'
<1> USE WalletAssumption, ZeroTyped
<1>t. WalletTypeOK
  BY DEF WalletInv, WalletConsistent
<1>1. UNCHANGED <<spenderVars, reversed>> /\ Unlocked /\ phase[o] = from /\ overlap' = (overlap \/ touched[o])
  BY DEF Save
<1>2. /\ phase' \in [Orders -> Phases] /\ phase'[o] = to
      /\ \A p \in Orders \ {o} : phase'[p] = phase[p]
  BY <1>t DEF Save, WalletTypeOK
<1>3. /\ differs' \in [Orders -> SUBSET Resources]
      /\ copy' \in [Orders -> [Resources -> Nat]]
  <2>1. {} \in SUBSET Resources
    OBVIOUS
  <2> QED
    BY <2>1, <1>t DEF Save, WalletTypeOK
<1>4. /\ touched' \in [Orders -> BOOLEAN]
      /\ \A p \in Orders : touched'[p] <=> p # o /\ (touched[p] \/ phase[p] \in Reading)
  BY <1>t, Touched DEF Save
<1>5. balance' \in [Resources -> Nat]
      /\ \A r \in Resources : balance'[r] = IF r \in differs[o] THEN copy[o][r] ELSE balance[r]
  BY <1>t DEF Save, WalletTypeOK
<1>6. WalletTypeOK'
  BY <1>t, <1>1, <1>2, <1>3, <1>4, <1>5 DEF WalletTypeOK, spenderVars, totals
<1>7. ConservedUnlessOverlapped'
  <2> SUFFICES ASSUME ~overlap', NEW r \in Resources
               PROVE  balance'[r] + spent'[r] + returned'[r] = credited'[r]
    BY DEF ConservedUnlessOverlapped
  <2>1. ~overlap /\ ~touched[o]
    BY <1>1, <1>t DEF WalletTypeOK
  <2>2. balance[r] + spent[r] + returned[r] = credited[r]
    BY <2>1 DEF WalletInv, WalletConsistent, ConservedUnlessOverlapped
  <2>3. balance'[r] = copy[o][r]
    BY <2>1, <1>1, <1>5 DEF WalletInv, Reading
  <2>4. copy[o][r] = IF from = "grantSaving" THEN balance[r] + Gives[o][r] ELSE balance[r] - reversed[o][r]
    BY <2>1, <1>1 DEF WalletInv, Reading
  <2>5. /\ balance[r] \in Int /\ spent[r] \in Int /\ returned[r] \in Int /\ credited[r] \in Int
        /\ Gives[o][r] \in Int /\ reversed[o][r] \in Int
    BY <1>t DEF WalletTypeOK
  <2> QED
    BY <2>2, <2>3, <2>4, <2>5
<1>8. \A s \in Spenders : ~locked'[s]
  BY <1>1 DEF Unlocked, spenderVars
<1>9. \A p \in Orders : phase'[p] \in Reading => touched'[p]
  BY <1>2, <1>4
<1> QED
  BY <1>6, <1>7, <1>8, <1>9 DEF WalletInv, WalletConsistent

\* A spender's commit: every open transaction of an order has lost its race.
LEMMA SpendStep ==
  ASSUME WalletInv, NEW s \in Spenders, NEW r \in Resources, NEW d \in {1, -1},
         locked[s], read[s][r] - d \in Nat, taken[s][r] + d \in Nat,
         balance' = [read[s] EXCEPT ![r] = @ - d],
         taken' = [taken EXCEPT ![s][r] = @ + d],
         spent' = [spent EXCEPT ![r] = @ + d],
         Unlock(s), TouchOthers({}), UNCHANGED <<phase, copy, differs, overlap, reversed, credited, returned>>
  PROVE  WalletInv'
<1> USE ZeroTyped
<1>t. WalletTypeOK
  BY DEF WalletInv, WalletConsistent
<1>1. read[s] = balance /\ \A t \in Spenders : locked[t] => t = s
  BY DEF WalletInv
<1>2. balance' \in [Resources -> Nat]
      /\ \A q \in Resources : balance'[q] = IF q = r THEN balance[q] - d ELSE balance[q]
  BY <1>1, <1>t DEF WalletTypeOK
<1>3. spent' \in [Resources -> Int]
      /\ \A q \in Resources : spent'[q] = IF q = r THEN spent[q] + d ELSE spent[q]
  BY <1>t DEF WalletTypeOK
<1>4. taken' \in [Spenders -> [Resources -> Nat]]
  <2>1. taken \in [Spenders -> [Resources -> Nat]] /\ taken[s] \in [Resources -> Nat]
    BY <1>t DEF WalletTypeOK
  <2>2. [taken[s] EXCEPT ![r] = @ + d] \in [Resources -> Nat]
    BY <2>1
  <2> QED
    BY <2>1, <2>2
<1>5. /\ locked' \in [Spenders -> BOOLEAN]
      /\ read' \in [Spenders -> [Resources -> Nat]]
      /\ \A t \in Spenders : ~locked'[t]
  BY <1>1, <1>t DEF Unlock, WalletTypeOK
<1>6. touched' \in [Orders -> BOOLEAN] /\ \A o \in Orders : touched'[o] <=> touched[o] \/ phase[o] \in Reading
  BY <1>t, Touched
<1>7. WalletTypeOK'
  BY <1>t, <1>2, <1>3, <1>4, <1>5, <1>6 DEF WalletTypeOK
<1>8. ASSUME ~overlap', NEW q \in Resources
      PROVE  balance'[q] + spent'[q] + returned'[q] = credited'[q]
  <2>1. balance[q] + spent[q] + returned[q] = credited[q]
    BY <1>8 DEF WalletInv, WalletConsistent, ConservedUnlessOverlapped
  <2>2. balance[q] \in Int /\ spent[q] \in Int /\ returned[q] \in Int /\ credited[q] \in Int
    BY <1>t DEF WalletTypeOK
  <2> QED
    BY <2>1, <2>2, <1>2, <1>3
<1> QED
  BY <1>5, <1>6, <1>7, <1>8 DEF WalletInv, WalletConsistent, ConservedUnlessOverlapped

LEMMA WalletStep == WalletInv /\ [WalletNext]_walletVars => WalletInv'
<1> SUFFICES ASSUME WalletInv, [WalletNext]_walletVars PROVE WalletInv'
  OBVIOUS
<1> USE WalletAssumption, ZeroTyped
<1>t. WalletTypeOK
  BY DEF WalletInv, WalletConsistent
<1>1. ASSUME NEW s \in Spenders, Lock(s) PROVE WalletInv'
  <2>1. \A t \in Spenders : ~locked[t]
    BY <1>1 DEF Lock, Unlocked
  <2>2. /\ locked' \in [Spenders -> BOOLEAN] /\ read' \in [Spenders -> [Resources -> Nat]]
        /\ \A t \in Spenders : locked'[t] <=> t = s
        /\ read'[s] = balance
    BY <1>1, <2>1, <1>t DEF Lock, WalletTypeOK
  <2>3. UNCHANGED <<balance, taken, orderVars, totals>>
    BY <1>1 DEF Lock
  <2>4. WalletTypeOK'
    BY <2>2, <2>3, <1>t DEF WalletTypeOK, orderVars, totals
  <2> QED
    BY <2>2, <2>3, <2>4 DEF WalletInv, WalletConsistent, ConservedUnlessOverlapped, orderVars, totals
<1>2. ASSUME NEW s \in Spenders, Release(s) PROVE WalletInv'
  <2>2. /\ locked' \in [Spenders -> BOOLEAN] /\ read' \in [Spenders -> [Resources -> Nat]]
        /\ \A t \in Spenders : locked'[t] => locked[t] /\ read'[t] = read[t]
    BY <1>2, <1>t DEF Release, Unlock, WalletTypeOK
  <2>3. UNCHANGED <<balance, taken, orderVars, totals>>
    BY <1>2 DEF Release
  <2>4. WalletTypeOK'
    BY <2>2, <2>3, <1>t DEF WalletTypeOK, orderVars, totals
  <2> QED
    BY <2>2, <2>3, <2>4 DEF WalletInv, WalletConsistent, ConservedUnlessOverlapped, orderVars, totals
<1>3. ASSUME NEW s \in Spenders, NEW r \in Resources, Consume(s, r) PROVE WalletInv'
  <2>1. read[s][r] - 1 \in Nat /\ taken[s][r] + 1 \in Nat
    BY <1>3, <1>t DEF Consume, WalletTypeOK
  <2> QED
    BY <1>3, <2>1, SpendStep DEF Consume
<1>4. ASSUME NEW s \in Spenders, NEW r \in Resources, GiveBack(s, r) PROVE WalletInv'
  <2>1. /\ read[s][r] - (-1) \in Nat /\ taken[s][r] + (-1) \in Nat
        /\ read[s][r] + 1 = read[s][r] - (-1) /\ taken[s][r] - 1 = taken[s][r] + (-1)
        /\ spent[r] - 1 = spent[r] + (-1)
    BY <1>4, <1>t DEF GiveBack, WalletTypeOK
  <2>2. /\ balance' = [read[s] EXCEPT ![r] = @ - (-1)]
        /\ taken' = [taken EXCEPT ![s][r] = @ + (-1)]
        /\ spent' = [spent EXCEPT ![r] = @ + (-1)]
    BY <1>4, <2>1 DEF GiveBack
  <2>3. -1 \in {1, -1}
    OBVIOUS
  <2> QED
    BY <1>4, <2>1, <2>2, <2>3, SpendStep DEF GiveBack
<1>5. ASSUME NEW o \in Orders, GrantRead(o) \/ ReverseRead(o) PROVE WalletInv'
  <2> DEFINE back == [r \in Resources |-> Lesser(balance[r], Gives[o][r])]
  <2>1. \A r \in Resources : back[r] \in Nat /\ balance[r] - back[r] \in Nat /\ balance[r] + Gives[o][r] \in Nat
    BY <1>t DEF WalletTypeOK, Lesser
  <2>2. /\ UNCHANGED <<balance, spenderVars, differs, overlap, totals>>
        /\ touched' = [touched EXCEPT ![o] = FALSE]
    BY <1>5 DEF GrantRead, ReverseRead
  <2>3. touched' \in [Orders -> BOOLEAN] /\ \A p \in Orders \ {o} : touched'[p] = touched[p]
    BY <2>2, <1>t DEF WalletTypeOK
  <2>4. back \in [Resources -> Nat]
    BY <2>1
  <2> HIDE DEF back
  <2>5. /\ phase' \in [Orders -> Phases]
        /\ phase'[o] \in {"granting", "reversing"}
        /\ \A p \in Orders \ {o} : phase'[p] = phase[p]
    <3>1. PICK step \in {"granting", "reversing"} : phase' = [phase EXCEPT ![o] = step]
      BY <1>5 DEF GrantRead, ReverseRead
    <3>2. step \in Phases /\ phase \in [Orders -> Phases]
      BY <1>t DEF WalletTypeOK, Phases
    <3> QED
      BY <3>1, <3>2
  <2>6. copy' \in [Orders -> [Resources -> Nat]] /\ reversed' \in [Orders -> [Resources -> Nat]]
        /\ (\A p \in Orders \ {o} : copy'[p] = copy[p] /\ reversed'[p] = reversed[p])
        /\ \A r \in Resources :
             copy'[o][r] = IF phase'[o] \in {"granting", "grantSaving"} THEN balance[r] + Gives[o][r]
                                                                      ELSE balance[r] - reversed'[o][r]
    <3>1. CASE GrantRead(o)
      <4>1. copy' = [copy EXCEPT ![o] = [r \in Resources |-> balance[r] + Gives[o][r]]] /\ reversed' = reversed
            /\ phase'[o] = "granting"
        BY <3>1, <1>t DEF GrantRead, WalletTypeOK
      <4>2. [r \in Resources |-> balance[r] + Gives[o][r]] \in [Resources -> Nat]
        BY <2>1
      <4> QED
        BY <4>1, <4>2, <1>t DEF WalletTypeOK
    <3>2. CASE ReverseRead(o)
      <4>1. /\ copy' = [copy EXCEPT ![o] = [r \in Resources |-> balance[r] - back[r]]]
            /\ reversed' = [reversed EXCEPT ![o] = back]
            /\ phase'[o] = "reversing"
        BY <3>2, <1>t DEF ReverseRead, WalletTypeOK, back
      <4>2. [r \in Resources |-> balance[r] - back[r]] \in [Resources -> Nat]
        BY <2>1
      <4> QED
        BY <4>1, <4>2, <2>4, <1>t DEF WalletTypeOK
    <3> QED
      BY <1>5, <3>1, <3>2
  <2>7. WalletTypeOK'
    BY <1>t, <2>2, <2>3, <2>5, <2>6 DEF WalletTypeOK, spenderVars, totals
  <2>8. ConservedUnlessOverlapped'
    BY <2>2 DEF WalletInv, WalletConsistent, ConservedUnlessOverlapped, totals
  <2>9. ASSUME NEW p \in Orders, phase'[p] \in Reading, ~touched'[p], NEW r \in Resources
        PROVE  /\ copy'[p][r] = IF phase'[p] \in {"granting", "grantSaving"} THEN balance'[r] + Gives[p][r]
                                                                      ELSE balance'[r] - reversed'[p][r]
               /\ phase'[p] \in {"grantSaving", "reverseSaving"} =>
                  (r \in differs'[p] <=> copy'[p][r] # balance'[r])
    <3>1. CASE p = o
      BY <3>1, <2>2, <2>5, <2>6
    <3>2. CASE p # o
      <4>1. /\ phase'[p] = phase[p] /\ touched'[p] = touched[p] /\ copy'[p] = copy[p]
            /\ reversed'[p] = reversed[p] /\ balance' = balance /\ differs' = differs
        BY <3>2, <2>2, <2>3, <2>5, <2>6
      <4>2. phase[p] \in Reading /\ ~touched[p]
        BY <4>1, <2>9
      <4> QED
        BY <4>1, <4>2 DEF WalletInv
    <3> QED
      BY <3>1, <3>2
  <2> QED
    BY <2>2, <2>7, <2>8, <2>9 DEF WalletInv, WalletConsistent, spenderVars
<1>6. ASSUME NEW o \in Orders, GrantCompare(o) \/ ReverseCompare(o) PROVE WalletInv'
  BY <1>6, CompareStep DEF GrantCompare, ReverseCompare, Phases
<1>7. ASSUME NEW o \in Orders, GrantSave(o) PROVE WalletInv'
  <2>1. /\ credited' = [r \in Resources |-> credited[r] + Gives[o][r]]
        /\ UNCHANGED <<spent, returned>> /\ Save(o, "grantSaving", "granted")
    BY <1>7 DEF GrantSave
  <2>2. totals' \in [Resources -> Int] \X [Resources -> Int] \X [Resources -> Int]
    BY <2>1, <1>t DEF totals, WalletTypeOK
  <2>3. /\ "grantSaving" \in Phases /\ "granted" \in Phases /\ "granted" \notin Reading
    BY DEF Phases, Reading
  <2> QED
    BY <2>1, <2>2, <2>3, SaveStep
<1>8. ASSUME NEW o \in Orders, ReverseSave(o) PROVE WalletInv'
  <2>1. /\ returned' = [r \in Resources |-> returned[r] + reversed[o][r]]
        /\ UNCHANGED <<spent, credited>> /\ Save(o, "reverseSaving", "reversed")
    BY <1>8 DEF ReverseSave
  <2>2. totals' \in [Resources -> Int] \X [Resources -> Int] \X [Resources -> Int]
    BY <2>1, <1>t DEF totals, WalletTypeOK
  <2>3. /\ "reverseSaving" \in Phases /\ "reversed" \in Phases /\ "reversed" \notin Reading
    BY DEF Phases, Reading
  <2> QED
    BY <2>1, <2>2, <2>3, SaveStep
<1>9. CASE UNCHANGED walletVars
  <2>1. WalletTypeOK' /\ ConservedUnlessOverlapped'
    BY <1>9, <1>t DEF walletVars, orderVars, spenderVars, totals, WalletTypeOK, WalletInv, WalletConsistent,
        ConservedUnlessOverlapped
  <2> QED
    BY <2>1, <1>9 DEF walletVars, orderVars, spenderVars, totals, WalletInv, WalletConsistent
<1> QED
  BY <1>1, <1>2, <1>3, <1>4, <1>5, <1>6, <1>7, <1>8, <1>9 DEF WalletNext

\* No balance can be overdrawn, and the balances are what was credited less what
\* was spent and taken back, until a save overwrites a row it had not read.
THEOREM WalletIsConsistent == WalletSpec => []WalletConsistent
<1>1. WalletInit => WalletInv
  BY WalletInitInv
<1>2. WalletInv /\ [WalletNext]_walletVars => WalletInv'
  BY WalletStep
<1>3. WalletInv => WalletConsistent
  BY DEF WalletInv
<1> QED
  BY <1>1, <1>2, <1>3, PTL DEF WalletSpec

-----------------------------------------------------------------------------
(* The messages.                                                               *)

RequestPcs ==
  {"idle", "pair", "participants", "number", "insert", "last", "queue", "count", "target", "save"}
RequestRecords ==
  [pc : RequestPcs, m : ChatMessages \union {NoMessage}, u : Members \union {NoMessage}, seq : Nat]
JobStatuses == {"NONE", "PENDING", "PROCESSING", "COMPLETED", "FAILED"}
JobRecords == [status : JobStatuses, tries : Nat]
Tallies == UNION {[S -> Nat] : S \in SUBSET ChatMessages}
PassRecords ==
  [pc : {"idle", "next", "send", "receipt"}, jobs : SUBSET ChatMessages, tries : Tallies,
   m : ChatMessages \union {NoMessage}]

ChatTyped ==
  /\ direct \in {"NONE", "PAIR", "JOINED"}
  /\ sequence \in [ChatMessages -> Nat] /\ lastMessage \in ChatMessages \union {NoMessage}
  /\ job \in [ChatMessages -> JobRecords] /\ receipt \in [ChatMessages -> BOOLEAN]
  /\ unread \in [Members -> Nat] /\ lastRead \in [Members -> Nat] /\ furthestRead \in [Members -> Nat]
  /\ chatRequest \in [ChatRequests -> RequestRecords] /\ pass \in [Passes -> PassRecords]
  /\ counted \in [ChatMessages -> Nat] /\ chatFaults \in Nat
  /\ countedLate \in BOOLEAN /\ readOvertaken \in BOOLEAN /\ passesMet \in BOOLEAN

\* The sequence numbers of the saved messages are 1 to their number.
Numbered ==
  /\ IsFiniteSet(SavedMessages)
  /\ \A m \in ChatMessages : sequence[m] <= Cardinality(SavedMessages)
  /\ \A i \in 1..Cardinality(SavedMessages) : \E m \in ChatMessages : sequence[m] = i
  /\ \A m, n \in SavedMessages : m # n => sequence[m] # sequence[n]
  /\ lastMessage \in SavedMessages \union {NoMessage}

\* What a request may still rely on.
RequestSound(c) ==
  /\ c.pc \in {"number", "insert"} => c.m \in ChatMessages
  /\ c.pc = "insert" => c.seq \in 1..(Cardinality(SavedMessages) + 1)
  /\ c.pc \in {"last", "queue", "count", "save"} => c.m \in SavedMessages
  /\ c.pc = "target" => c.m \in SavedMessages \union {NoMessage}
  /\ c.pc \in {"target", "save"} => c.u \in Members
  /\ c.pc = "save" => c.seq < sequence[c.m]
  /\ c.pc = "count" => Queued(c.m) /\ counted[c.m] = 0
RequestsSound ==
  /\ \A r \in ChatRequests : RequestSound(chatRequest[r])
  /\ \A r, s \in ChatRequests :
       chatRequest[r].pc = "count" /\ chatRequest[s].pc = "count" /\ chatRequest[r].m = chatRequest[s].m =>
         r = s

CountedOnce ==
  \A m \in ChatMessages : counted[m] <= 1 /\ (counted[m] > 0 => Queued(m) /\ m \in SavedMessages)
ReadsGoForward == ~readOvertaken => \A u \in Members : lastRead[u] = furthestRead[u]
UnreadBounded == ~countedLate => \A u \in Members : unread[u] <= UnreadAtMost(u)

\* What a pass holds.
PassSound(c) ==
  /\ c.pc = "idle" => c.jobs = {}
  /\ c.pc \in {"idle", "next"} => c.m = NoMessage
  /\ c.pc \in {"send", "receipt"} => c.m \in c.jobs
  /\ \A n \in c.jobs : Queued(n) /\ c.tries[n] \in Nat
\* Nobody else holds it.
HeldAlone(c) ==
  \A n \in c.jobs :
    /\ ~receipt[n] /\ c.tries[n] = job[n].tries /\ c.tries[n] <= RetryLimit
    /\ n # c.m => job[n].status = "PENDING"
    /\ n = c.m /\ c.pc = "receipt" => job[n].status = "COMPLETED"
JobSound(m) ==
  /\ receipt[m] => job[m].status = "COMPLETED"
  /\ job[m].status = "FAILED" => job[m].tries = RetryLimit + 1
  /\ job[m].status = "PENDING" => job[m].tries <= RetryLimit
PassesSound ==
  /\ \A p \in Passes : PassSound(pass[p])
  /\ ~passesMet =>
       /\ \A p, q \in Passes : p # q => pass[p].jobs \intersect pass[q].jobs = {}
       /\ \A p \in Passes : HeldAlone(pass[p])
       /\ \A m \in ChatMessages : JobSound(m)

Joining ==
  chatFaults = 0 /\ direct = "PAIR" => \E r \in ChatRequests : chatRequest[r].pc = "participants"
Sending ==
  chatFaults = 0 => \A m \in ChatMessages :
    job[m].status = "PROCESSING" => \E p \in Passes : pass[p].pc = "send" /\ pass[p].m = m

ChatInv ==
  /\ ChatTyped /\ Numbered /\ RequestsSound /\ CountedOnce /\ ReadsGoForward /\ UnreadBounded
  /\ PassesSound /\ Joining /\ Sending

\* The highest of finitely many numbers that are 1 to n.
LEMMA MaxIs == ASSUME NEW S \in SUBSET Nat, NEW n \in S, \A x \in S : x <= n PROVE Max(S) = n
<1>1. \A x \in S : x \in Nat
  OBVIOUS
<1>2. \A y \in S : (\A x \in S : y >= x) => y = n
  BY <1>1
<1>3. \E y \in S : \A x \in S : y >= x
  BY <1>1
<1> QED
  BY <1>2, <1>3 DEF Max

\* A request goes on.
LEMMA AskingMoves ==
  ASSUME ChatTyped, NEW r \in ChatRequests, NEW c \in RequestRecords,
         chatRequest' = [chatRequest EXCEPT ![r] = c]
  PROVE  /\ chatRequest' \in [ChatRequests -> RequestRecords] /\ chatRequest'[r] = c
         /\ \A s \in ChatRequests \ {r} : chatRequest'[s] = chatRequest[s]
BY DEF ChatTyped

\* What Then leaves of a request.
LEMMA ThenIs ==
  ASSUME ChatTyped, NEW r \in ChatRequests, NEW x \in RequestPcs, Then(r, x)
  PROVE  \E c, d \in RequestRecords :
           /\ d = chatRequest[r] /\ c.pc = x /\ c.m = d.m /\ c.u = d.u /\ c.seq = d.seq
           /\ chatRequest' = [chatRequest EXCEPT ![r] = c]
<1>1. PICK d \in RequestRecords : d = chatRequest[r]
  BY DEF ChatTyped
<1> DEFINE c == [d EXCEPT !.pc = x]
<1>2. c \in RequestRecords /\ c.pc = x /\ c.m = d.m /\ c.u = d.u /\ c.seq = d.seq
  BY DEF RequestRecords
<1>3. chatRequest' = [chatRequest EXCEPT ![r] = c]
  BY <1>1 DEF Then
<1> HIDE DEF c
<1> QED
  BY <1>1, <1>2, <1>3

\* A request that has ended.
LEMMA UnaskedIs ==
  /\ Unasked \in RequestRecords /\ Unasked.pc = "idle"
  /\ RequestSound(Unasked)
<1>1. Unasked \in RequestRecords /\ Unasked.pc = "idle"
  BY DEF Unasked, RequestRecords, RequestPcs
<1> QED
  BY <1>1 DEF RequestSound

\* What a request knows stays true.
LEMMA RequestStaysSound ==
  ASSUME NEW c \in RequestRecords, RequestSound(c),
         SavedMessages \subseteq SavedMessages',
         \A m \in SavedMessages : sequence'[m] = sequence[m],
         Cardinality(SavedMessages) \in Nat, Cardinality(SavedMessages') \in Nat,
         Cardinality(SavedMessages) <= Cardinality(SavedMessages'),
         \A m \in ChatMessages : Queued(m) => Queued(m)',
         c.pc = "count" => counted'[c.m] = counted[c.m]
  PROVE  RequestSound(c)'
<1>1. c.pc = "insert" => c.seq \in 1..(Cardinality(SavedMessages') + 1)
  BY DEF RequestSound
<1>2. c.pc = "save" => c.m \in SavedMessages /\ c.seq < sequence'[c.m]
  BY DEF RequestSound
<1>3. SavedMessages \subseteq ChatMessages
  BY DEF SavedMessages
<1>4. c.pc = "count" => Queued(c.m)' /\ counted'[c.m] = 0
  BY <1>3 DEF RequestSound
<1>5. /\ c.pc \in {"number", "insert"} => c.m \in ChatMessages
      /\ c.pc \in {"last", "queue", "count", "save"} => c.m \in SavedMessages'
      /\ c.pc = "target" => c.m \in SavedMessages' \union {NoMessage}
      /\ c.pc \in {"target", "save"} => c.u \in Members
  BY DEF RequestSound
<1> QED
  BY <1>1, <1>2, <1>4, <1>5 DEF RequestSound

\* What the requests know stays true when one of them goes on.
LEMMA RequestsStaySound ==
  ASSUME ChatTyped, RequestsSound, NEW r \in ChatRequests, NEW c \in RequestRecords,
         chatRequest' = [chatRequest EXCEPT ![r] = c], RequestSound(c)',
         SavedMessages \subseteq SavedMessages',
         \A m \in SavedMessages : sequence'[m] = sequence[m],
         Cardinality(SavedMessages) \in Nat, Cardinality(SavedMessages') \in Nat,
         Cardinality(SavedMessages) <= Cardinality(SavedMessages'),
         \A m \in ChatMessages : Queued(m) => Queued(m)',
         \A m \in ChatMessages :
           counted'[m] = counted[m] \/ (chatRequest[r].pc = "count" /\ chatRequest[r].m = m),
         c.pc = "count" =>
           \A s \in ChatRequests \ {r} : chatRequest[s].pc = "count" => chatRequest[s].m # c.m
  PROVE  RequestsSound'
<1>1. /\ chatRequest'[r] = c
      /\ \A s \in ChatRequests \ {r} : chatRequest'[s] = chatRequest[s]
  BY AskingMoves
<1>2. ASSUME NEW s \in ChatRequests PROVE RequestSound(chatRequest[s])'
  <2>1. CASE s = r
    BY <1>1, <2>1 DEF RequestSound
  <2>2. CASE s # r
    <3>1. PICK d \in RequestRecords : d = chatRequest[s]
      BY DEF ChatTyped
    <3>2. RequestSound(d) /\ chatRequest'[s] = d
      BY <1>1, <2>2, <3>1 DEF RequestsSound
    <3>3. d.pc = "count" => d.m \in ChatMessages /\ counted'[d.m] = counted[d.m]
      BY <2>2, <3>1, <3>2 DEF RequestsSound, RequestSound, SavedMessages
    <3>4. RequestSound(d)'
      BY <3>2, <3>3, RequestStaysSound
    <3> QED
      BY <3>2, <3>4 DEF RequestSound
  <2> QED
    BY <2>1, <2>2
<1>3. \A s, t \in ChatRequests :
        chatRequest'[s].pc = "count" /\ chatRequest'[t].pc = "count" /\ chatRequest'[s].m = chatRequest'[t].m =>
          s = t
  BY <1>1 DEF RequestsSound
<1> QED
  BY <1>2, <1>3 DEF RequestsSound

\* What the deliveries know does not depend on the requests.
LEMMA DeliveryStays ==
  ASSUME PassesSound, Sending, UNCHANGED delivery, chatFaults' = 0 => chatFaults = 0
  PROVE  PassesSound' /\ Sending'
<1>1. UNCHANGED <<job, receipt, pass, passesMet>>
  BY DEF delivery
<1>2. PassesSound'
  BY <1>1 DEF PassesSound, PassSound, HeldAlone, JobSound, Queued
<1>3. Sending'
  BY <1>1 DEF Sending
<1> QED
  BY <1>2, <1>3

\* Nor do places and counters, as long as no message is saved or read.
LEMMA PlacesStay ==
  ASSUME UNCHANGED sequence
  PROVE  SavedMessages' = SavedMessages
BY DEF SavedMessages

\* Nor do the counters when nobody reads or counts.
LEMMA PositionStays ==
  ASSUME UNCHANGED <<sequence, position>>, CountedOnce, ReadsGoForward, UnreadBounded,
         \A m \in ChatMessages : Queued(m) => Queued(m)'
  PROVE  CountedOnce' /\ ReadsGoForward' /\ UnreadBounded'
<1>1. SavedMessages' = SavedMessages /\ UNCHANGED <<unread, lastRead, counted, countedLate, furthestRead, readOvertaken>>
  BY PlacesStay DEF position
<1>2. CountedOnce'
  BY <1>1 DEF CountedOnce
<1>3. ReadsGoForward'
  BY <1>1 DEF ReadsGoForward
<1>4. UnreadBounded'
  <2>1. ASSUME NEW u \in Members PROVE UnreadAtMost(u)' = UnreadAtMost(u)
    BY <1>1 DEF UnreadAtMost, Receiver
  <2> QED
    BY <1>1, <2>1 DEF UnreadBounded
<1> QED
  BY <1>2, <1>3, <1>4

\* A request that changes nothing but the conversation goes on.
LEMMA QuietInv ==
  ASSUME ChatInv, NEW r \in ChatRequests, NEW c \in RequestRecords,
         chatRequest' = [chatRequest EXCEPT ![r] = c], RequestSound(c), c.pc # "count",
         UNCHANGED <<sequence, lastMessage, delivery, position>>,
         direct' \in {"NONE", "PAIR", "JOINED"}, chatFaults' \in Nat, chatFaults' = 0 => chatFaults = 0,
         chatFaults' = 0 /\ direct' = "PAIR" =>
           c.pc = "participants" \/ (direct = "PAIR" /\ chatRequest[r].pc # "participants")
  PROVE  ChatInv'
<1>t. /\ ChatTyped /\ Numbered /\ RequestsSound /\ CountedOnce /\ ReadsGoForward /\ UnreadBounded
      /\ PassesSound /\ Joining /\ Sending
  BY DEF ChatInv
<1>1. /\ chatRequest' \in [ChatRequests -> RequestRecords] /\ chatRequest'[r] = c
      /\ \A s \in ChatRequests \ {r} : chatRequest'[s] = chatRequest[s]
  BY <1>t, AskingMoves
<1>2. UNCHANGED <<job, receipt, pass, passesMet, unread, lastRead, counted, countedLate, furthestRead, readOvertaken>>
  BY DEF delivery, position
<1>3. SavedMessages' = SavedMessages
  BY PlacesStay
<1>4. ChatTyped'
  BY <1>t, <1>1, <1>2 DEF ChatTyped
<1>5. Numbered'
  BY <1>t, <1>3 DEF Numbered
<1>6. \A m \in ChatMessages : Queued(m) => Queued(m)'
  BY <1>2 DEF Queued
<1>7. RequestsSound'
  <2>1. Cardinality(SavedMessages) \in Nat
    BY <1>t, FS_CardinalityType DEF Numbered
  <2>2. RequestSound(c)'
    BY <1>2, <1>3, <1>6, <2>1, RequestStaysSound
  <2>3. /\ SavedMessages \subseteq SavedMessages' /\ \A m \in SavedMessages : sequence'[m] = sequence[m]
        /\ Cardinality(SavedMessages') \in Nat /\ Cardinality(SavedMessages) <= Cardinality(SavedMessages')
        /\ \A m \in ChatMessages : counted'[m] = counted[m]
    BY <1>2, <1>3, <2>1
  <2> QED
    BY <1>t, <1>6, <2>1, <2>2, <2>3, RequestsStaySound
<1>8. CountedOnce' /\ ReadsGoForward' /\ UnreadBounded'
  BY <1>t, <1>6, PositionStays
<1>9. PassesSound' /\ Sending'
  BY <1>t, DeliveryStays
<1>10. Joining'
  <2>1. ASSUME chatFaults' = 0, direct' = "PAIR" PROVE \E s \in ChatRequests : chatRequest'[s].pc = "participants"
    <3>1. CASE c.pc = "participants"
      BY <1>1, <3>1
    <3>2. CASE direct = "PAIR" /\ chatRequest[r].pc # "participants"
      <4>1. PICK s \in ChatRequests : chatRequest[s].pc = "participants"
        BY <1>t, <2>1, <3>2 DEF Joining
      <4> QED
        BY <1>1, <3>2, <4>1
    <3> QED
      BY <2>1, <3>1, <3>2
  <2> QED
    BY <2>1 DEF Joining
<1> QED
  BY <1>4, <1>5, <1>7, <1>8, <1>9, <1>10 DEF ChatInv

\* The requests that only ask, look, or open the conversation.
LEMMA AskingInv ==
  ASSUME ChatInv, NEW r \in ChatRequests,
         \/ CreateDirect(r) \/ SaveDirect(r) \/ SaveParticipants(r) \/ GetNextSequenceNo(r)
         \/ FindTarget(r) \/ ChatRequestDies(r) \/ \E m \in ChatMessages : SendMessage(r, m)
         \/ \E u \in Members, m \in ChatMessages \union {NoMessage} : LoadParticipant(r, u, m)
  PROVE  ChatInv'
<1>t. /\ ChatTyped /\ Numbered /\ RequestsSound
  BY DEF ChatInv
<1>d. /\ direct \in {"NONE", "PAIR", "JOINED"} /\ chatFaults \in Nat
  BY <1>t DEF ChatTyped
<1>r. PICK d \in RequestRecords : d = chatRequest[r] /\ RequestSound(d)
  BY <1>t DEF ChatTyped, RequestsSound
<1>u. PICK e \in RequestRecords : e = Unasked /\ e.pc = "idle" /\ RequestSound(e)
  BY UnaskedIs
<1>1. CASE CreateDirect(r)
  <2>1. PICK c \in RequestRecords : c = [Unasked EXCEPT !.pc = "pair"] /\ c.pc = "pair"
    <3> DEFINE c == [e EXCEPT !.pc = "pair"]
    <3>1. c \in RequestRecords /\ c.pc = "pair"
      BY DEF RequestRecords, RequestPcs
    <3> QED
      BY <1>u, <3>1
  <2>2. /\ chatRequest' = [chatRequest EXCEPT ![r] = c] /\ chatRequest[r].pc = "idle"
        /\ UNCHANGED <<sequence, lastMessage, direct, delivery, position, chatFaults>>
    BY <1>1, <2>1 DEF CreateDirect, Ask, rows
  <2>3. RequestSound(c)
    BY <2>1 DEF RequestSound
  <2> QED
    BY <1>d, <2>1, <2>2, <2>3, QuietInv
<1>2. CASE SaveDirect(r)
  <2>1. /\ chatRequest[r].pc = "pair" /\ UNCHANGED <<sequence, lastMessage, delivery, position, chatFaults>>
    BY <1>2 DEF SaveDirect, At
  <2>2. CASE direct = "NONE"
    <3>1. direct' = "PAIR" /\ Then(r, "participants")
      BY <1>2, <2>2 DEF SaveDirect
    <3>2. PICK c \in RequestRecords : c.pc = "participants" /\ chatRequest' = [chatRequest EXCEPT ![r] = c]
      BY <1>t, <3>1, ThenIs DEF RequestPcs
    <3>3. RequestSound(c)
      BY <3>2 DEF RequestSound
    <3> QED
      BY <1>d, <2>1, <3>1, <3>2, <3>3, QuietInv
  <2>3. CASE direct # "NONE"
    <3>1. direct' = direct /\ chatRequest' = [chatRequest EXCEPT ![r] = e]
      BY <1>2, <1>u, <2>3 DEF SaveDirect, Answer
    <3> QED
      BY <1>d, <1>u, <2>1, <3>1, QuietInv
  <2> QED
    BY <2>2, <2>3
<1>3. CASE SaveParticipants(r)
  <2>1. /\ chatRequest' = [chatRequest EXCEPT ![r] = e] /\ direct' = "JOINED"
        /\ UNCHANGED <<sequence, lastMessage, delivery, position, chatFaults>>
    BY <1>3, <1>u DEF SaveParticipants, At, Answer
  <2> QED
    BY <1>d, <1>u, <2>1, QuietInv
<1>4. CASE \E m \in ChatMessages : SendMessage(r, m)
  <2>1. PICK m \in ChatMessages : SendMessage(r, m)
    BY <1>4
  <2>2. PICK x \in {"queue", "number"} : x = IF sequence[m] > 0 THEN "queue" ELSE "number"
    OBVIOUS
  <2>3. PICK c \in RequestRecords : c = [Unasked EXCEPT !.pc = x, !.m = m] /\ c.pc = x /\ c.m = m
    <3> DEFINE c == [e EXCEPT !.pc = x, !.m = m]
    <3>1. c \in RequestRecords /\ c.pc = x /\ c.m = m
      BY DEF RequestRecords, RequestPcs
    <3> QED
      BY <1>u, <3>1
  <2>4. /\ chatRequest' = [chatRequest EXCEPT ![r] = c] /\ direct = "JOINED"
        /\ UNCHANGED <<sequence, lastMessage, direct, delivery, position, chatFaults>>
    BY <2>1, <2>2, <2>3 DEF SendMessage, Ask, rows
  <2>5. RequestSound(c)
    BY <2>2, <2>3 DEF RequestSound, SavedMessages
  <2> QED
    BY <1>d, <2>3, <2>4, <2>5, QuietInv
<1>5. CASE GetNextSequenceNo(r)
  <2> DEFINE numbers == {0} \union {sequence[m] : m \in ChatMessages}
             n == Cardinality(SavedMessages)
  <2>1. numbers \in SUBSET Nat /\ n \in Nat
    BY <1>t, FS_CardinalityType DEF ChatTyped, Numbered
  <2>2. n \in numbers /\ \A x \in numbers : x <= n
    <3>1. n \in numbers
      <4>1. CASE n = 0
        BY <4>1
      <4>2. CASE n # 0
        BY <1>t, <2>1, <4>2 DEF Numbered
      <4> QED
        BY <4>1, <4>2
    <3>2. \A x \in numbers : x <= n
      BY <1>t, <2>1 DEF Numbered
    <3> QED
      BY <3>1, <3>2
  <2>3. Max(numbers) = n
    <3> HIDE DEF numbers, n
    <3> QED
      BY <2>1, <2>2, MaxIs
  <2>4. PICK c \in RequestRecords :
          c = [d EXCEPT !.pc = "insert", !.seq = 1 + n] /\ c.pc = "insert" /\ c.seq = 1 + n /\ c.m = d.m
    <3> HIDE DEF n
    <3>1. 1 + n \in Nat
      BY <2>1
    <3> DEFINE c == [d EXCEPT !.pc = "insert", !.seq = 1 + n]
    <3>2. c \in RequestRecords /\ c.pc = "insert" /\ c.seq = 1 + n /\ c.m = d.m
      BY <3>1 DEF RequestRecords, RequestPcs
    <3> QED
      BY <3>2
  <2>5. /\ chatRequest' = [chatRequest EXCEPT ![r] = c] /\ chatRequest[r].pc = "number"
        /\ UNCHANGED <<sequence, lastMessage, direct, delivery, position, chatFaults>>
    <3>1. chatRequest' = [chatRequest EXCEPT ![r].pc = "insert", ![r].seq = 1 + Max(numbers)]
      BY <1>5 DEF GetNextSequenceNo
    <3> HIDE DEF n, numbers
    <3>2. chatRequest' = [chatRequest EXCEPT ![r] = c]
      BY <1>r, <2>3, <2>4, <3>1
    <3> QED
      BY <1>5, <3>2 DEF GetNextSequenceNo, At, rows
  <2>6. RequestSound(c)
    <3>1. c.m \in ChatMessages /\ c.seq \in 1..(n + 1)
      BY <1>r, <2>1, <2>4, <2>5 DEF RequestSound
    <3> QED
      BY <2>4, <3>1 DEF RequestSound
  <2> QED
    BY <1>d, <2>4, <2>5, <2>6, QuietInv
<1>6. CASE \E u \in Members, m \in ChatMessages \union {NoMessage} : LoadParticipant(r, u, m)
  <2>1. PICK u \in Members, m \in ChatMessages \union {NoMessage} : LoadParticipant(r, u, m)
    BY <1>6
  <2>2. PICK c \in RequestRecords :
          c = [pc |-> "target", m |-> m, u |-> u, seq |-> lastRead[u]] /\ c.pc = "target" /\ c.m = m /\ c.u = u
    <3>1. lastRead[u] \in Nat
      BY <1>t DEF ChatTyped
    <3> DEFINE c == [pc |-> "target", m |-> m, u |-> u, seq |-> lastRead[u]]
    <3>2. c \in RequestRecords /\ c.pc = "target" /\ c.m = m /\ c.u = u
      BY <3>1 DEF RequestRecords, RequestPcs
    <3> QED
      BY <3>2
  <2>3. /\ chatRequest' = [chatRequest EXCEPT ![r] = c] /\ direct = "JOINED"
        /\ m # NoMessage => sequence[m] > 0
        /\ UNCHANGED <<sequence, lastMessage, direct, delivery, position, chatFaults>>
    BY <2>1, <2>2 DEF LoadParticipant, Ask, rows
  <2>4. RequestSound(c)
    BY <2>2, <2>3 DEF RequestSound, SavedMessages
  <2> QED
    BY <1>d, <2>2, <2>3, <2>4, QuietInv
<1>7. CASE FindTarget(r)
  <2>1. /\ d.pc = "target" /\ UNCHANGED <<sequence, lastMessage, direct, delivery, position, chatFaults>>
    BY <1>7, <1>r DEF FindTarget, At, rows
  <2>2. PICK named \in SavedMessages \union {NoMessage} :
          named = IF d.m # NoMessage THEN d.m ELSE lastMessage
    BY <1>t, <1>r, <2>1 DEF RequestSound, Numbered
  <2> DEFINE to == IF named = NoMessage THEN 0 ELSE sequence[named]
  <2>3. CASE d.seq < to
    <3>1. named \in SavedMessages /\ to = sequence[named]
      BY <2>2, <2>3 DEF RequestRecords
    <3>2. named \in ChatMessages
      BY <3>1 DEF SavedMessages
    <3>3. PICK c \in RequestRecords : /\ c = [d EXCEPT !.pc = "save", !.m = named]
                                      /\ c.pc = "save" /\ c.m = named /\ c.u = d.u /\ c.seq = d.seq
      <4> DEFINE c == [d EXCEPT !.pc = "save", !.m = named]
      <4>1. c \in RequestRecords /\ c.pc = "save" /\ c.m = named /\ c.u = d.u /\ c.seq = d.seq
        BY <3>2 DEF RequestRecords, RequestPcs
      <4> QED
        BY <4>1
    <3>4. chatRequest' = [chatRequest EXCEPT ![r] = c]
      BY <1>7, <1>r, <2>2, <2>3, <3>3 DEF FindTarget, MovesForward
    <3>5. RequestSound(c)
      BY <1>r, <2>1, <2>3, <3>1, <3>3 DEF RequestSound
    <3>6. chatRequest[r].pc # "participants"
      BY <1>r, <2>1
    <3> QED
      BY <1>d, <2>1, <3>3, <3>4, <3>5, <3>6, QuietInv
  <2>4. CASE ~(d.seq < to)
    <3>1. chatRequest' = [chatRequest EXCEPT ![r] = e]
      BY <1>7, <1>r, <1>u, <2>2, <2>4 DEF FindTarget, MovesForward, Answer
    <3>2. chatRequest[r].pc # "participants"
      BY <1>r, <2>1
    <3> QED
      BY <1>d, <1>u, <2>1, <3>1, <3>2, QuietInv
  <2> QED
    BY <2>3, <2>4
<1>8. CASE ChatRequestDies(r)
  <2>1. /\ chatRequest' = [chatRequest EXCEPT ![r] = e] /\ chatFaults' = chatFaults + 1
        /\ UNCHANGED <<sequence, lastMessage, direct, delivery, position>>
    BY <1>8, <1>u DEF ChatRequestDies, Answer, rows
  <2>2. chatFaults' \in Nat /\ chatFaults' # 0
    BY <1>d, <2>1
  <2> QED
    BY <1>d, <1>u, <2>1, <2>2, QuietInv
<1> QED
  BY <1>1, <1>2, <1>3, <1>4, <1>5, <1>6, <1>7, <1>8

\* What none of the requests below does.
LEMMA JoiningStays ==
  ASSUME ChatTyped, Joining, NEW r \in ChatRequests, NEW c \in RequestRecords,
         chatRequest' = [chatRequest EXCEPT ![r] = c], chatRequest[r].pc # "participants",
         UNCHANGED <<direct, chatFaults>>
  PROVE  Joining'
<1>1. \A s \in ChatRequests \ {r} : chatRequest'[s] = chatRequest[s]
  BY AskingMoves
<1> QED
  BY <1>1 DEF Joining

\* The counters, when no step touches them.
LEMMA UnreadKept ==
  ASSUME UnreadBounded, UNCHANGED <<unread, countedLate>>,
         \A u \in Members : UnreadAtMost(u)' = UnreadAtMost(u)
  PROVE  UnreadBounded'
BY DEF UnreadBounded

\* A message is saved: it gets the next number.
LEMMA SaveMessageInv == ASSUME ChatInv, NEW r \in ChatRequests, SaveMessage(r) PROVE ChatInv'
<1>t. /\ ChatTyped /\ Numbered /\ RequestsSound /\ CountedOnce /\ ReadsGoForward /\ UnreadBounded
      /\ PassesSound /\ Joining /\ Sending
  BY DEF ChatInv
<1>1. PICK d \in RequestRecords : d = chatRequest[r] /\ RequestSound(d)
  BY <1>t DEF ChatTyped, RequestsSound
<1>2. /\ d.pc = "insert" /\ d.m \in ChatMessages /\ d.seq \in 1..(Cardinality(SavedMessages) + 1)
      /\ UNCHANGED <<lastMessage, direct, delivery, position, chatFaults>>
  BY <1>1 DEF SaveMessage, At, RequestSound
<1>3. CASE ~MessageFits(d.m, d.seq)
  <2>1. PICK e \in RequestRecords : e = Unasked /\ e.pc = "idle" /\ RequestSound(e)
    BY UnaskedIs
  <2>2. chatRequest' = [chatRequest EXCEPT ![r] = e] /\ UNCHANGED sequence
    BY <1>1, <1>3, <2>1 DEF SaveMessage, Answer
  <2> QED
    BY <1>t, <1>1, <1>2, <2>1, <2>2, QuietInv DEF ChatTyped
<1>4. CASE MessageFits(d.m, d.seq)
  <2> DEFINE m == d.m
             n == Cardinality(SavedMessages)
  <2>1. sequence' = [sequence EXCEPT ![m] = d.seq] /\ Then(r, "last")
    BY <1>1, <1>4 DEF SaveMessage
  <2>2. PICK c \in RequestRecords : c.pc = "last" /\ c.m = m /\ chatRequest' = [chatRequest EXCEPT ![r] = c]
    BY <1>t, <1>1, <2>1, ThenIs DEF RequestPcs
  <2>3. IsFiniteSet(SavedMessages) /\ n \in Nat
    BY <1>t, FS_CardinalityType DEF Numbered
  <2>4. m \in ChatMessages /\ m \notin SavedMessages /\ \A o \in SavedMessages : sequence[o] # d.seq
    BY <1>2, <1>4 DEF MessageFits, SavedMessages
  <2>5. d.seq = n + 1
    <3>1. ASSUME d.seq \in 1..n PROVE FALSE
      <4>1. PICK o \in ChatMessages : sequence[o] = d.seq
        BY <1>t, <3>1 DEF Numbered
      <4>2. o \in SavedMessages
        BY <3>1, <4>1 DEF SavedMessages
      <4> QED
        BY <2>4, <4>1, <4>2
    <3> HIDE DEF n
    <3>2. d.seq \in 1..(n + 1)
      BY <1>2 DEF n
    <3> QED
      BY <2>3, <3>1, <3>2
  <2>6. /\ sequence' \in [ChatMessages -> Nat] /\ sequence'[m] = n + 1
        /\ \A o \in ChatMessages \ {m} : sequence'[o] = sequence[o]
    BY <1>t, <2>1, <2>3, <2>4, <2>5 DEF ChatTyped
  <2>7. SavedMessages' = SavedMessages \union {m}
    BY <2>3, <2>4, <2>6 DEF SavedMessages
  <2>8. IsFiniteSet(SavedMessages') /\ Cardinality(SavedMessages') = n + 1
    BY <2>3, <2>4, <2>7, FS_AddElement
  <2>9. UNCHANGED <<job, receipt, pass, passesMet, unread, lastRead, counted, countedLate, furthestRead, readOvertaken>>
    BY <1>2 DEF delivery, position
  <2>10. \A o \in SavedMessages : o \in ChatMessages /\ o # m
    BY <2>4 DEF SavedMessages
  <2> HIDE DEF m, n
  <2>11. ChatTyped'
    <3>1. chatRequest' \in [ChatRequests -> RequestRecords]
      BY <1>t, <2>2, AskingMoves
    <3> QED
      BY <1>t, <1>2, <2>6, <2>9, <3>1 DEF ChatTyped
  <2>12. Numbered'
    <3>1. \A o \in ChatMessages : sequence'[o] <= n + 1
      <4>1. \A o \in ChatMessages : sequence[o] <= n /\ sequence[o] \in Nat
        BY <1>t DEF Numbered, ChatTyped, n
      <4> QED
        BY <2>3, <2>6, <4>1
    <3>2. ASSUME NEW i \in 1..(n + 1) PROVE \E o \in ChatMessages : sequence'[o] = i
      <4>1. CASE i = n + 1
        BY <2>4, <2>6, <4>1
      <4>2. CASE i # n + 1
        <5>1. i \in 1..n
          BY <2>3, <4>2
        <5>2. PICK o \in ChatMessages : sequence[o] = i
          BY <1>t, <5>1 DEF Numbered, n
        <5>3. o \in SavedMessages
          BY <5>1, <5>2 DEF SavedMessages
        <5> QED
          BY <2>6, <2>10, <5>2, <5>3
      <4> QED
        BY <4>1, <4>2
    <3>3. \A o, p \in SavedMessages' : o # p => sequence'[o] # sequence'[p]
      <4>1. \A o \in SavedMessages : sequence'[o] = sequence[o] /\ sequence'[o] # sequence'[m]
        BY <2>4, <2>5, <2>6, <2>10
      <4> QED
        BY <1>t, <2>7, <4>1 DEF Numbered
    <3>4. lastMessage' \in SavedMessages' \union {NoMessage}
      BY <1>t, <1>2, <2>7 DEF Numbered
    <3> QED
      BY <2>8, <3>1, <3>2, <3>3, <3>4 DEF Numbered
  <2>13. RequestsSound'
    <3>1. RequestSound(c)'
      BY <2>2, <2>7 DEF RequestSound
    <3>2. /\ SavedMessages \subseteq SavedMessages' /\ \A o \in SavedMessages : sequence'[o] = sequence[o]
          /\ Cardinality(SavedMessages) \in Nat /\ Cardinality(SavedMessages') \in Nat
          /\ Cardinality(SavedMessages) <= Cardinality(SavedMessages')
      BY <2>3, <2>6, <2>7, <2>8, <2>10 DEF n
    <3>3. /\ \A o \in ChatMessages : Queued(o) => Queued(o)'
          /\ \A o \in ChatMessages : counted'[o] = counted[o]
      BY <2>9 DEF Queued
    <3> QED
      BY <1>t, <2>2, <3>1, <3>2, <3>3, RequestsStaySound
  <2>14. CountedOnce'
    BY <1>t, <2>7, <2>9 DEF CountedOnce, Queued
  <2>15. ReadsGoForward'
    BY <1>t, <2>9 DEF ReadsGoForward
  <2>16. UnreadBounded'
    <3>1. counted[m] = 0
      BY <1>t, <2>4 DEF CountedOnce, ChatTyped
    <3>2. ASSUME NEW u \in Members PROVE UnreadAtMost(u)' = UnreadAtMost(u)
      <4>1. {o \in SavedMessages : Receiver(o) = u /\ counted[o] > 0 /\ sequence[o] > lastRead[u]}' =
            {o \in SavedMessages : Receiver(o) = u /\ counted[o] > 0 /\ sequence[o] > lastRead[u]}
        BY <2>6, <2>7, <2>9, <2>10, <3>1 DEF Receiver
      <4> QED
        BY <4>1 DEF UnreadAtMost
    <3> QED
      BY <1>t, <2>9, <3>2, UnreadKept
  <2>17. PassesSound' /\ Sending'
    BY <1>t, <1>2, DeliveryStays
  <2>18. Joining'
    BY <1>t, <1>1, <1>2, <2>2, JoiningStays
  <2> QED
    BY <2>11, <2>12, <2>13, <2>14, <2>15, <2>16, <2>17, <2>18 DEF ChatInv
<1> QED
  BY <1>3, <1>4

\* The conversation's last message is set.
LEMMA UpdateLastMessageInv == ASSUME ChatInv, NEW r \in ChatRequests, UpdateLastMessage(r) PROVE ChatInv'
<1>t. /\ ChatTyped /\ Numbered /\ RequestsSound /\ CountedOnce /\ ReadsGoForward /\ UnreadBounded
      /\ PassesSound /\ Joining /\ Sending
  BY DEF ChatInv
<1>1. PICK c \in RequestRecords, d \in RequestRecords :
        /\ d = chatRequest[r] /\ c.pc = "queue" /\ c.m = d.m
        /\ chatRequest' = [chatRequest EXCEPT ![r] = c]
  BY <1>t, ThenIs DEF UpdateLastMessage, RequestPcs
<1>2. /\ d.pc = "last" /\ d.m \in SavedMessages /\ lastMessage' = d.m
      /\ UNCHANGED <<sequence, direct, delivery, position, chatFaults>>
  BY <1>t, <1>1 DEF UpdateLastMessage, At, RequestsSound, RequestSound
<1>3. UNCHANGED <<job, receipt, pass, passesMet, unread, lastRead, counted, countedLate, furthestRead, readOvertaken>>
  BY <1>2 DEF delivery, position
<1>4. SavedMessages' = SavedMessages
  BY <1>2, PlacesStay
<1>5. ChatTyped'
  <2>1. chatRequest' \in [ChatRequests -> RequestRecords]
    BY <1>t, <1>1, AskingMoves
  <2>2. lastMessage' \in ChatMessages \union {NoMessage}
    BY <1>2 DEF SavedMessages
  <2> QED
    BY <1>t, <1>2, <1>3, <2>1, <2>2 DEF ChatTyped
<1>6. Numbered'
  BY <1>t, <1>2, <1>4 DEF Numbered
<1>7. \A m \in ChatMessages : Queued(m) => Queued(m)'
  BY <1>3 DEF Queued
<1>8. RequestsSound'
  <2>1. RequestSound(c)'
    BY <1>1, <1>2, <1>4 DEF RequestSound
  <2>2. /\ SavedMessages \subseteq SavedMessages' /\ \A o \in SavedMessages : sequence'[o] = sequence[o]
        /\ Cardinality(SavedMessages) \in Nat /\ Cardinality(SavedMessages') \in Nat
        /\ Cardinality(SavedMessages) <= Cardinality(SavedMessages')
        /\ \A o \in ChatMessages : counted'[o] = counted[o]
    BY <1>t, <1>2, <1>3, <1>4, FS_CardinalityType DEF Numbered
  <2> QED
    BY <1>t, <1>1, <1>7, <2>1, <2>2, RequestsStaySound
<1>9. CountedOnce' /\ ReadsGoForward' /\ UnreadBounded'
  BY <1>t, <1>2, <1>7, PositionStays
<1>10. PassesSound' /\ Sending'
  BY <1>t, <1>2, DeliveryStays
<1>11. Joining'
  BY <1>t, <1>1, <1>2, JoiningStays
<1> QED
  BY <1>5, <1>6, <1>8, <1>9, <1>10, <1>11 DEF ChatInv

\* A message is queued for delivery, once.
LEMMA CreateDeliveryJobsInv == ASSUME ChatInv, NEW r \in ChatRequests, CreateDeliveryJobs(r) PROVE ChatInv'
<1>t. /\ ChatTyped /\ Numbered /\ RequestsSound /\ CountedOnce /\ ReadsGoForward /\ UnreadBounded
      /\ PassesSound /\ Joining /\ Sending
  BY DEF ChatInv
<1>1. PICK d \in RequestRecords : d = chatRequest[r] /\ RequestSound(d)
  BY <1>t DEF ChatTyped, RequestsSound
<1>2. /\ d.pc = "queue" /\ d.m \in SavedMessages /\ d.m \in ChatMessages
      /\ UNCHANGED <<sequence, lastMessage, direct, receipt, pass, passesMet, position, chatFaults>>
  BY <1>1 DEF CreateDeliveryJobs, At, RequestSound, rows, SavedMessages
<1>3. CASE Queued(d.m)
  <2>1. PICK e \in RequestRecords : e = Unasked /\ e.pc = "idle" /\ RequestSound(e)
    BY UnaskedIs
  <2>2. chatRequest' = [chatRequest EXCEPT ![r] = e] /\ UNCHANGED job
    BY <1>1, <1>3, <2>1 DEF CreateDeliveryJobs, Answer
  <2>3. UNCHANGED delivery
    BY <1>2, <2>2 DEF delivery
  <2> QED
    BY <1>t, <1>1, <1>2, <2>1, <2>2, <2>3, QuietInv DEF ChatTyped
<1>4. CASE ~Queued(d.m)
  <2>1. PICK m \in ChatMessages : m = d.m
    BY <1>2
  <2>2. /\ job' = [job EXCEPT ![m] = [status |-> "PENDING", tries |-> 0]] /\ Then(r, "count")
        /\ ~Queued(m)
    BY <1>1, <1>4, <2>1 DEF CreateDeliveryJobs
  <2>3. PICK c \in RequestRecords : c.pc = "count" /\ c.m = m /\ chatRequest' = [chatRequest EXCEPT ![r] = c]
    BY <1>t, <1>1, <2>1, <2>2, ThenIs DEF RequestPcs
  <2>4. UNCHANGED <<unread, lastRead, counted, countedLate, furthestRead, readOvertaken>>
    BY <1>2 DEF position
  <2>5. PICK new \in JobRecords : new = [status |-> "PENDING", tries |-> 0] /\ new.status = "PENDING" /\ new.tries = 0
    <3> DEFINE new == [status |-> "PENDING", tries |-> 0]
    <3>1. new \in JobRecords /\ new.status = "PENDING" /\ new.tries = 0
      BY DEF JobRecords, JobStatuses
    <3> QED
      BY <3>1
  <2>6. /\ job' \in [ChatMessages -> JobRecords] /\ job'[m] = new
        /\ \A n \in ChatMessages \ {m} : job'[n] = job[n]
    BY <1>t, <2>2, <2>5 DEF ChatTyped
  <2>7. \A n \in ChatMessages : Queued(n) => Queued(n)' /\ n # m
    BY <2>2, <2>6 DEF Queued
  <2>8. Queued(m)'
    BY <2>5, <2>6 DEF Queued
  <2>9. SavedMessages' = SavedMessages
    BY <1>2, PlacesStay
  <2>10. ChatTyped'
    <3>1. chatRequest' \in [ChatRequests -> RequestRecords]
      BY <1>t, <2>3, AskingMoves
    <3> QED
      BY <1>t, <1>2, <2>4, <2>6, <3>1 DEF ChatTyped
  <2>11. Numbered'
    BY <1>t, <1>2, <2>9 DEF Numbered
  <2>12. RequestsSound'
    <3>1. counted'[m] = 0
      BY <1>t, <2>2, <2>4 DEF CountedOnce, ChatTyped
    <3>2. RequestSound(c)'
      BY <1>2, <2>1, <2>3, <2>8, <2>9, <3>1 DEF RequestSound
    <3>3. \A s \in ChatRequests \ {r} : chatRequest[s].pc = "count" => chatRequest[s].m # c.m
      BY <1>t, <2>2, <2>3 DEF RequestsSound, RequestSound
    <3>4. /\ SavedMessages \subseteq SavedMessages' /\ \A o \in SavedMessages : sequence'[o] = sequence[o]
          /\ Cardinality(SavedMessages) \in Nat /\ Cardinality(SavedMessages') \in Nat
          /\ Cardinality(SavedMessages) <= Cardinality(SavedMessages')
          /\ \A o \in ChatMessages : counted'[o] = counted[o]
      BY <1>t, <1>2, <2>4, <2>9, FS_CardinalityType DEF Numbered
    <3> QED
      BY <1>t, <2>3, <2>7, <3>2, <3>3, <3>4, RequestsStaySound
  <2>13. CountedOnce' /\ ReadsGoForward' /\ UnreadBounded'
    BY <1>t, <1>2, <2>7, PositionStays
  <2>14. PassesSound'
    <3>1. ASSUME NEW p \in Passes PROVE PassSound(pass[p])' /\ m \notin pass[p].jobs /\ pass[p].jobs \subseteq ChatMessages
      <4>1. PICK h \in PassRecords : h = pass[p]
        BY <1>t DEF ChatTyped
      <4>2. PassSound(h) /\ h.jobs \subseteq ChatMessages
        BY <1>t, <4>1 DEF PassesSound, PassRecords
      <4>3. m \notin h.jobs
        BY <2>2, <4>2 DEF PassSound
      <4>4. PassSound(h)'
        BY <2>7, <4>2 DEF PassSound
      <4> QED
        BY <1>2, <4>1, <4>2, <4>3, <4>4 DEF PassSound
    <3>2. ASSUME ~passesMet'
          PROVE  /\ \A p, q \in Passes : p # q => pass'[p].jobs \intersect pass'[q].jobs = {}
                 /\ \A p \in Passes : HeldAlone(pass[p])'
                 /\ \A n \in ChatMessages : JobSound(n)'
      <4>1. ~passesMet
        BY <1>2, <3>2
      <4>2. \A p, q \in Passes : p # q => pass'[p].jobs \intersect pass'[q].jobs = {}
        BY <1>t, <1>2, <4>1 DEF PassesSound
      <4>3. ASSUME NEW p \in Passes PROVE HeldAlone(pass[p])'
        <5>1. HeldAlone(pass[p])
          BY <1>t, <4>1 DEF PassesSound
        <5>2. \A n \in pass[p].jobs : job'[n] = job[n]
          BY <2>6, <3>1
        <5> QED
          BY <1>2, <5>1, <5>2 DEF HeldAlone
      <4>4. ASSUME NEW n \in ChatMessages PROVE JobSound(n)'
        <5>1. JobSound(n)
          BY <1>t, <4>1 DEF PassesSound
        <5>2. CASE n = m
          <6>1. ~receipt[m]
            BY <2>2, <5>1, <5>2 DEF Queued, JobSound
          <6> QED
            BY <1>2, <2>5, <2>6, <5>2, <6>1, ChatAssumption DEF JobSound
        <5>3. CASE n # m
          BY <1>2, <2>6, <5>1, <5>3 DEF JobSound
        <5> QED
          BY <5>2, <5>3
      <4> QED
        BY <4>2, <4>3, <4>4
    <3> QED
      BY <3>1, <3>2 DEF PassesSound
  <2>15. Sending'
    <3>1. \A n \in ChatMessages : job'[n].status = "PROCESSING" => job[n].status = "PROCESSING"
      BY <2>5, <2>6
    <3> QED
      BY <1>t, <1>2, <3>1 DEF Sending
  <2>16. Joining'
    BY <1>t, <1>1, <1>2, <2>3, JoiningStays
  <2> QED
    BY <2>10, <2>11, <2>12, <2>13, <2>14, <2>15, <2>16 DEF ChatInv
<1> QED
  BY <1>3, <1>4

\* A message is counted as unread.
LEMMA IncrementUnreadInv == ASSUME ChatInv, NEW r \in ChatRequests, IncrementUnread(r) PROVE ChatInv'
<1>t. /\ ChatTyped /\ Numbered /\ RequestsSound /\ CountedOnce /\ ReadsGoForward /\ UnreadBounded
      /\ PassesSound /\ Joining /\ Sending
  BY DEF ChatInv
<1>1. PICK d \in RequestRecords : d = chatRequest[r] /\ RequestSound(d)
  BY <1>t DEF ChatTyped, RequestsSound
<1>2. PICK m \in ChatMessages : m = d.m /\ m \in SavedMessages /\ Queued(m) /\ counted[m] = 0 /\ d.pc = "count"
  BY <1>1 DEF IncrementUnread, At, RequestSound, SavedMessages
<1>3. PICK v \in Members : v = Receiver(m)
  <2>1. AuthorOf[m] \in Members
    BY ChatAssumption
  <2>2. \E v \in Members : v # AuthorOf[m]
    BY <2>1, ChatAssumption
  <2> QED
    BY <2>2 DEF Receiver
<1>4. PICK c \in RequestRecords : c = Unasked /\ c.pc = "idle" /\ RequestSound(c)
  BY UnaskedIs
<1>5. /\ unread' = [unread EXCEPT ![v] = @ + 1]
      /\ counted' = [counted EXCEPT ![m] = @ + 1]
      /\ countedLate' = (countedLate \/ sequence[m] <= lastRead[v])
      /\ chatRequest' = [chatRequest EXCEPT ![r] = c]
      /\ UNCHANGED <<sequence, lastMessage, direct, delivery, lastRead, furthestRead, readOvertaken, chatFaults>>
  BY <1>1, <1>2, <1>3, <1>4 DEF IncrementUnread, At, Answer, rows
<1>6. UNCHANGED <<job, receipt, pass, passesMet>>
  BY <1>5 DEF delivery
<1>7. /\ counted' \in [ChatMessages -> Nat] /\ counted'[m] = 1
      /\ \A n \in ChatMessages \ {m} : counted'[n] = counted[n]
  BY <1>t, <1>2, <1>5 DEF ChatTyped
<1>8. /\ unread' \in [Members -> Nat] /\ unread'[v] = unread[v] + 1
      /\ \A u \in Members \ {v} : unread'[u] = unread[u]
  BY <1>t, <1>5 DEF ChatTyped
<1>9. SavedMessages' = SavedMessages /\ IsFiniteSet(SavedMessages) /\ Cardinality(SavedMessages) \in Nat
  BY <1>t, <1>5, PlacesStay, FS_CardinalityType DEF Numbered
<1>10. ChatTyped'
  <2>1. chatRequest' \in [ChatRequests -> RequestRecords]
    BY <1>t, <1>5, AskingMoves
  <2>2. countedLate' \in BOOLEAN
    BY <1>t, <1>5 DEF ChatTyped
  <2> QED
    BY <1>t, <1>5, <1>6, <1>7, <1>8, <2>1, <2>2 DEF ChatTyped
<1>11. Numbered'
  BY <1>t, <1>5, <1>9 DEF Numbered
<1>12. \A n \in ChatMessages : Queued(n) => Queued(n)'
  BY <1>6 DEF Queued
<1>13. RequestsSound'
  <2>1. RequestSound(c)'
    BY <1>4 DEF RequestSound
  <2>2. /\ SavedMessages \subseteq SavedMessages' /\ \A o \in SavedMessages : sequence'[o] = sequence[o]
        /\ Cardinality(SavedMessages) \in Nat /\ Cardinality(SavedMessages') \in Nat
        /\ Cardinality(SavedMessages) <= Cardinality(SavedMessages')
    BY <1>5, <1>9
  <2>3. \A n \in ChatMessages :
          counted'[n] = counted[n] \/ (chatRequest[r].pc = "count" /\ chatRequest[r].m = n)
    BY <1>1, <1>2, <1>7
  <2> QED
    BY <1>t, <1>4, <1>5, <1>12, <2>1, <2>2, <2>3, RequestsStaySound
<1>14. CountedOnce'
  BY <1>t, <1>2, <1>7, <1>9, <1>12 DEF CountedOnce
<1>15. ReadsGoForward'
  BY <1>t, <1>5 DEF ReadsGoForward
<1>16. UnreadBounded'
  <2> DEFINE Waiting(u) == {o \in SavedMessages : Receiver(o) = u /\ counted[o] > 0 /\ sequence[o] > lastRead[u]}
  <2>1. ASSUME ~countedLate', NEW u \in Members PROVE unread'[u] <= UnreadAtMost(u)'
    <3>1. ~countedLate /\ ~(sequence[m] <= lastRead[v])
      BY <1>5, <2>1
    <3>2. unread[u] <= Cardinality(Waiting(u)) /\ IsFiniteSet(Waiting(u)) /\ Cardinality(Waiting(u)) \in Nat
      <4>1. IsFiniteSet(Waiting(u))
        BY <1>9, FS_Subset
      <4> QED
        BY <1>t, <3>1, <4>1, FS_CardinalityType DEF UnreadBounded, UnreadAtMost
    <3>3. CASE u = v
      <4>1. sequence[m] > lastRead[v]
        BY <1>t, <3>1 DEF ChatTyped
      <4>2. PICK W : W = Waiting(v)
        OBVIOUS
      <4>3. PICK V : V = Waiting(v)'
        OBVIOUS
      <4>5. m \notin W
        BY <1>2, <4>2
      <4>6. m \in V
        <5>1. Receiver(m)' = v
          BY <1>3 DEF Receiver
        <5> QED
          BY <1>2, <1>5, <1>7, <1>9, <4>1, <4>3, <5>1
      <4>7. ASSUME NEW o \in SavedMessages, o # m PROVE o \in V <=> o \in W
        <5>1. Receiver(o)' = Receiver(o)
          BY DEF Receiver
        <5>2. counted'[o] = counted[o] /\ sequence' = sequence /\ lastRead' = lastRead
          BY <1>5, <1>7, <4>7 DEF SavedMessages
        <5> QED
          BY <1>9, <4>2, <4>3, <4>7, <5>1, <5>2
      <4>8. W \subseteq SavedMessages /\ V \subseteq SavedMessages
        BY <1>9, <4>2, <4>3
      <4>9. V = W \union {m}
        BY <4>5, <4>6, <4>7, <4>8
      <4>10. Cardinality(V) = Cardinality(W) + 1
        <5>1. IsFiniteSet(W)
          BY <3>2, <3>3, <4>2
        <5> HIDE DEF Waiting
        <5> QED
          BY <4>5, <4>9, <5>1, FS_AddElement
      <4>4. unread[v] \in Nat
        BY <1>t DEF ChatTyped
      <4>11. unread[v] <= Cardinality(W) /\ Cardinality(W) \in Nat
        BY <3>2, <3>3, <4>2
      <4>12. unread'[v] <= Cardinality(V)
        BY <1>8, <4>4, <4>10, <4>11
      <4>13. UnreadAtMost(v)' = Cardinality(V)
        BY <4>3 DEF UnreadAtMost
      <4> QED
        BY <3>3, <4>12, <4>13
    <3>4. CASE u # v
      <4>1. Waiting(u)' = Waiting(u)
        BY <1>3, <1>5, <1>7, <1>9, <3>4 DEF Receiver, SavedMessages
      <4> QED
        BY <1>8, <3>2, <3>4, <4>1 DEF UnreadAtMost
    <3> QED
      BY <3>3, <3>4
  <2> QED
    BY <2>1 DEF UnreadBounded
<1>17. PassesSound' /\ Sending'
  BY <1>t, <1>5, DeliveryStays
<1>18. Joining'
  BY <1>t, <1>1, <1>2, <1>5, JoiningStays
<1> QED
  BY <1>10, <1>11, <1>13, <1>14, <1>15, <1>16, <1>17, <1>18 DEF ChatInv

\* The copy of the participant is saved, read up to a message.
LEMMA SaveReadInv == ASSUME ChatInv, NEW r \in ChatRequests, SaveRead(r) PROVE ChatInv'
<1>t. /\ ChatTyped /\ Numbered /\ RequestsSound /\ CountedOnce /\ ReadsGoForward /\ UnreadBounded
      /\ PassesSound /\ Joining /\ Sending
  BY DEF ChatInv
<1>1. PICK d \in RequestRecords : d = chatRequest[r] /\ RequestSound(d)
  BY <1>t DEF ChatTyped, RequestsSound
<1>2. PICK v \in Members, to \in Nat : /\ v = d.u /\ to = sequence[d.m] /\ d.seq < to /\ d.pc = "save"
  BY <1>t, <1>1 DEF SaveRead, At, RequestSound, SavedMessages, ChatTyped
<1>4. PICK c \in RequestRecords : c = Unasked /\ c.pc = "idle" /\ RequestSound(c)
  BY UnaskedIs
<1>5. /\ lastRead' = [lastRead EXCEPT ![v] = to]
      /\ unread' = [unread EXCEPT ![v] = 0]
      /\ furthestRead' = [furthestRead EXCEPT ![v] = Max({@, to})]
      /\ readOvertaken' = (readOvertaken \/ lastRead[v] # d.seq)
      /\ chatRequest' = [chatRequest EXCEPT ![r] = c]
      /\ UNCHANGED <<sequence, lastMessage, direct, delivery, counted, countedLate, chatFaults>>
  BY <1>1, <1>2, <1>4 DEF SaveRead, At, Answer, rows
<1>6. UNCHANGED <<job, receipt, pass, passesMet>>
  BY <1>5 DEF delivery
<1>7. /\ unread' \in [Members -> Nat] /\ lastRead' \in [Members -> Nat]
      /\ unread'[v] = 0 /\ lastRead'[v] = to
      /\ \A u \in Members \ {v} : unread'[u] = unread[u] /\ lastRead'[u] = lastRead[u]
  BY <1>t, <1>5 DEF ChatTyped
<1>8. /\ furthestRead' \in [Members -> Nat]
      /\ furthestRead[v] <= to => furthestRead'[v] = to
      /\ \A u \in Members \ {v} : furthestRead'[u] = furthestRead[u]
  <2>1. PICK f \in Nat : f = furthestRead[v]
    BY <1>t DEF ChatTyped
  <2>2. PICK g \in Nat : g = Max({f, to}) /\ (f <= to => g = to)
    <3>1. CASE f <= to
      <4>1. Max({f, to}) = to
        BY <3>1, MaxIs
      <4> QED
        BY <4>1
    <3>2. CASE ~(f <= to)
      <4>1. Max({f, to}) = f
        <5>1. to <= f /\ f <= f
          BY <3>2
        <5> QED
          BY <5>1, MaxIs
      <4> QED
        BY <3>2, <4>1
    <3> QED
      BY <3>1, <3>2
  <2>3. furthestRead' = [furthestRead EXCEPT ![v] = g]
    BY <1>5, <2>1, <2>2
  <2> QED
    BY <1>t, <2>1, <2>2, <2>3 DEF ChatTyped
<1>9. SavedMessages' = SavedMessages /\ IsFiniteSet(SavedMessages) /\ Cardinality(SavedMessages) \in Nat
  BY <1>t, <1>5, PlacesStay, FS_CardinalityType DEF Numbered
<1>10. ChatTyped'
  <2>1. chatRequest' \in [ChatRequests -> RequestRecords]
    BY <1>t, <1>5, AskingMoves
  <2>2. readOvertaken' \in BOOLEAN
    BY <1>t, <1>5 DEF ChatTyped
  <2> QED
    BY <1>t, <1>5, <1>6, <1>7, <1>8, <2>1, <2>2 DEF ChatTyped
<1>11. Numbered'
  BY <1>t, <1>5, <1>9 DEF Numbered
<1>12. \A n \in ChatMessages : Queued(n) => Queued(n)'
  BY <1>6 DEF Queued
<1>13. RequestsSound'
  <2>1. RequestSound(c)'
    BY <1>4 DEF RequestSound
  <2>2. /\ SavedMessages \subseteq SavedMessages' /\ \A o \in SavedMessages : sequence'[o] = sequence[o]
        /\ Cardinality(SavedMessages) \in Nat /\ Cardinality(SavedMessages') \in Nat
        /\ Cardinality(SavedMessages) <= Cardinality(SavedMessages')
        /\ \A o \in ChatMessages : counted'[o] = counted[o]
    BY <1>5, <1>9
  <2> QED
    BY <1>t, <1>4, <1>5, <1>12, <2>1, <2>2, RequestsStaySound
<1>14. CountedOnce'
  BY <1>t, <1>5, <1>9, <1>12 DEF CountedOnce
<1>15. ReadsGoForward'
  <2>1. ASSUME ~readOvertaken', NEW u \in Members PROVE lastRead'[u] = furthestRead'[u]
    <3>1. ~readOvertaken /\ lastRead[v] = d.seq /\ lastRead[u] = furthestRead[u] /\ lastRead[v] = furthestRead[v]
      BY <1>t, <1>5, <2>1 DEF ReadsGoForward
    <3>2. CASE u = v
      <4>1. furthestRead[v] <= to
        <5>1. d.seq \in Nat /\ furthestRead[v] = d.seq
          BY <1>1, <3>1 DEF RequestRecords
        <5> QED
          BY <1>2, <5>1
      <4> QED
        BY <1>7, <1>8, <3>2, <4>1
    <3>3. CASE u # v
      BY <1>7, <1>8, <3>1, <3>3
    <3> QED
      BY <3>2, <3>3
  <2> QED
    BY <2>1 DEF ReadsGoForward
<1>16. UnreadBounded'
  <2> DEFINE Waiting(u) == {o \in SavedMessages : Receiver(o) = u /\ counted[o] > 0 /\ sequence[o] > lastRead[u]}
  <2>1. ASSUME ~countedLate', NEW u \in Members PROVE unread'[u] <= UnreadAtMost(u)'
    <3>1. CASE u = v
      <4>1. IsFiniteSet(Waiting(u)')
        BY <1>9, FS_Subset
      <4>2. Cardinality(Waiting(u)') \in Nat
        BY <4>1, FS_CardinalityType
      <4>3. Cardinality(Waiting(u)') >= 0
        BY <4>2
      <4> QED
        BY <1>7, <3>1, <4>3 DEF UnreadAtMost
    <3>2. CASE u # v
      <4>1. Waiting(u)' = Waiting(u)
        BY <1>5, <1>7, <1>9, <3>2 DEF Receiver, SavedMessages
      <4>2. unread[u] <= Cardinality(Waiting(u))
        BY <1>t, <1>5, <2>1 DEF UnreadBounded, UnreadAtMost
      <4> QED
        BY <1>7, <3>2, <4>1, <4>2 DEF UnreadAtMost
    <3> QED
      BY <3>1, <3>2
  <2> QED
    BY <2>1 DEF UnreadBounded
<1>17. PassesSound' /\ Sending'
  BY <1>t, <1>5, DeliveryStays
<1>18. Joining'
  BY <1>t, <1>1, <1>2, <1>5, JoiningStays
<1> QED
  BY <1>10, <1>11, <1>13, <1>14, <1>15, <1>16, <1>17, <1>18 DEF ChatInv

\* A pass goes on.
LEMMA PassMoves ==
  ASSUME ChatTyped, NEW p \in Passes, NEW c \in PassRecords, pass' = [pass EXCEPT ![p] = c]
  PROVE  /\ pass' \in [Passes -> PassRecords] /\ pass'[p] = c
         /\ \A q \in Passes \ {p} : pass'[q] = pass[q]
BY DEF ChatTyped

\* What a pass has loaded stays queued.
LEMMA PassStaysSound ==
  ASSUME NEW c \in PassRecords, PassSound(c), \A n \in ChatMessages : Queued(n) => Queued(n)'
  PROVE  PassSound(c)'
<1>1. c.jobs \subseteq ChatMessages
  BY DEF PassRecords
<1> QED
  BY <1>1 DEF PassSound

\* What the other passes hold stays theirs when a pass changes only what it alone holds.
LEMMA PassesStaySound ==
  ASSUME ChatTyped, PassesSound, NEW p \in Passes, NEW c \in PassRecords,
         pass' = [pass EXCEPT ![p] = c], PassSound(c)',
         \A n \in ChatMessages : Queued(n) => Queued(n)',
         passesMet => passesMet',
         ~passesMet' =>
           /\ HeldAlone(c)'
           /\ \A q \in Passes \ {p} : c.jobs \intersect pass[q].jobs = {}
           /\ \A n \in ChatMessages :
                \/ job'[n] = job[n] /\ receipt'[n] = receipt[n]
                \/ JobSound(n)' /\ \A q \in Passes \ {p} : n \notin pass[q].jobs
  PROVE  PassesSound'
<1>1. pass'[p] = c /\ \A q \in Passes \ {p} : pass'[q] = pass[q]
  BY PassMoves
<1>2. ASSUME NEW q \in Passes PROVE PassSound(pass[q])'
  <2>1. CASE q = p
    BY <1>1, <2>1 DEF PassSound
  <2>2. CASE q # p
    <3>1. PICK d \in PassRecords : d = pass[q] /\ PassSound(d)
      BY DEF ChatTyped, PassesSound
    <3>2. PassSound(d)'
      BY <3>1, PassStaysSound
    <3> QED
      BY <1>1, <2>2, <3>1, <3>2 DEF PassSound
  <2> QED
    BY <2>1, <2>2
<1>3. ASSUME ~passesMet'
      PROVE  /\ \A q, s \in Passes : q # s => pass'[q].jobs \intersect pass'[s].jobs = {}
             /\ \A q \in Passes : HeldAlone(pass[q])'
             /\ \A n \in ChatMessages : JobSound(n)'
  <2>1. ~passesMet
    BY <1>3
  <2>2. /\ HeldAlone(c)'
        /\ \A q \in Passes \ {p} : c.jobs \intersect pass[q].jobs = {}
        /\ \A n \in ChatMessages :
             \/ job'[n] = job[n] /\ receipt'[n] = receipt[n]
             \/ JobSound(n)' /\ \A q \in Passes \ {p} : n \notin pass[q].jobs
    BY <1>3
  <2>3. \A q, s \in Passes : q # s => pass[q].jobs \intersect pass[s].jobs = {}
    BY <2>1 DEF PassesSound
  <2>4. \A q, s \in Passes : q # s => pass'[q].jobs \intersect pass'[s].jobs = {}
    BY <1>1, <2>2, <2>3
  <2>5. ASSUME NEW q \in Passes PROVE HeldAlone(pass[q])'
    <3>1. CASE q = p
      BY <1>1, <2>2, <3>1 DEF HeldAlone
    <3>2. CASE q # p
      <4>1. PICK d \in PassRecords : d = pass[q] /\ HeldAlone(d)
        BY <2>1 DEF ChatTyped, PassesSound
      <4>2. \A n \in d.jobs : job'[n] = job[n] /\ receipt'[n] = receipt[n]
        BY <2>2, <3>2, <4>1 DEF PassRecords
      <4>3. HeldAlone(d)'
        BY <4>1, <4>2 DEF HeldAlone
      <4> QED
        BY <1>1, <3>2, <4>1, <4>3 DEF HeldAlone
    <3> QED
      BY <3>1, <3>2
  <2>6. ASSUME NEW n \in ChatMessages PROVE JobSound(n)'
    <3>1. CASE job'[n] = job[n] /\ receipt'[n] = receipt[n]
      BY <2>1, <3>1 DEF PassesSound, JobSound
    <3> QED
      BY <2>2, <3>1
  <2> QED
    BY <2>4, <2>5, <2>6
<1> QED
  BY <1>2, <1>3 DEF PassesSound

\* A job saved as PROCESSING stays in the hands of a pass.
LEMMA SendingStays ==
  ASSUME ChatTyped, Sending, NEW p \in Passes, NEW c \in PassRecords,
         pass' = [pass EXCEPT ![p] = c], chatFaults' = 0 => chatFaults = 0,
         \A n \in ChatMessages : job'[n].status = "PROCESSING" =>
           \/ c.pc = "send" /\ c.m = n
           \/ job[n].status = "PROCESSING" /\ ~(pass[p].pc = "send" /\ pass[p].m = n)
  PROVE  Sending'
<1>1. pass'[p] = c /\ \A q \in Passes \ {p} : pass'[q] = pass[q]
  BY PassMoves
<1>2. ASSUME chatFaults' = 0, NEW n \in ChatMessages, job'[n].status = "PROCESSING"
      PROVE  \E q \in Passes : pass'[q].pc = "send" /\ pass'[q].m = n
  <2>1. CASE c.pc = "send" /\ c.m = n
    BY <1>1, <2>1
  <2>2. CASE job[n].status = "PROCESSING" /\ ~(pass[p].pc = "send" /\ pass[p].m = n)
    <3>1. PICK q \in Passes : pass[q].pc = "send" /\ pass[q].m = n
      BY <1>2, <2>2 DEF Sending
    <3>2. q # p
      BY <2>2, <3>1
    <3> QED
      BY <1>1, <3>1, <3>2
  <2> QED
    BY <1>2, <2>1, <2>2
<1> QED
  BY <1>2 DEF Sending

\* A pass changes nothing the requests know.
LEMMA PassInv ==
  ASSUME ChatInv, NEW p \in Passes, NEW c \in PassRecords,
         UNCHANGED <<rows, position, chatRequest>>, pass' = [pass EXCEPT ![p] = c],
         job' \in [ChatMessages -> JobRecords], receipt' \in [ChatMessages -> BOOLEAN],
         passesMet' \in BOOLEAN, chatFaults' \in Nat, chatFaults' = 0 => chatFaults = 0,
         \A n \in ChatMessages : Queued(n) => Queued(n)',
         PassesSound', Sending'
  PROVE  ChatInv'
<1>t. /\ ChatTyped /\ Numbered /\ RequestsSound /\ CountedOnce /\ ReadsGoForward /\ UnreadBounded /\ Joining
  BY DEF ChatInv
<1>1. /\ UNCHANGED <<sequence, lastMessage, direct>>
      /\ UNCHANGED <<unread, lastRead, counted, countedLate, furthestRead, readOvertaken>>
  BY DEF rows, position
<1>2. SavedMessages' = SavedMessages /\ Cardinality(SavedMessages) \in Nat
  BY <1>t, <1>1, PlacesStay, FS_CardinalityType DEF Numbered
<1>3. ChatTyped'
  BY <1>t, <1>1, PassMoves DEF ChatTyped
<1>4. Numbered'
  BY <1>t, <1>1, <1>2 DEF Numbered
<1>5. RequestsSound'
  <2>1. ASSUME NEW r \in ChatRequests PROVE RequestSound(chatRequest[r])'
    <3>1. PICK d \in RequestRecords : d = chatRequest[r] /\ RequestSound(d)
      BY <1>t DEF ChatTyped, RequestsSound
    <3>2. RequestSound(d)'
      BY <1>1, <1>2, <3>1, RequestStaysSound
    <3> QED
      BY <3>1, <3>2 DEF RequestSound
  <2> QED
    BY <1>t, <2>1 DEF RequestsSound
<1>6. CountedOnce' /\ ReadsGoForward' /\ UnreadBounded'
  BY <1>t, <1>1, PositionStays
<1>7. Joining'
  BY <1>t, <1>1 DEF Joining
<1> QED
  BY <1>3, <1>4, <1>5, <1>6, <1>7 DEF ChatInv

\* A job saved from a pass's copy.
LEMMA JobIsSaved ==
  ASSUME ChatTyped, NEW p, NEW m \in ChatMessages, NEW s \in JobStatuses, s # "NONE", NEW t \in Nat,
         SaveJob(p, m, s, t)
  PROVE  /\ job' \in [ChatMessages -> JobRecords] /\ job'[m].status = s /\ job'[m].tries = t
         /\ \A n \in ChatMessages \ {m} : job'[n] = job[n]
         /\ \A n \in ChatMessages : Queued(n) => Queued(n)'
<1>1. PICK new \in JobRecords : new = [status |-> s, tries |-> t] /\ new.status = s /\ new.tries = t
  <2> DEFINE new == [status |-> s, tries |-> t]
  <2>1. new \in JobRecords /\ new.status = s /\ new.tries = t
    BY DEF JobRecords
  <2> QED
    BY <2>1
<1>2. job' = [job EXCEPT ![m] = new]
  BY <1>1 DEF SaveJob
<1>3. /\ job' \in [ChatMessages -> JobRecords] /\ job'[m] = new
      /\ \A n \in ChatMessages \ {m} : job'[n] = job[n]
  BY <1>2 DEF ChatTyped
<1> QED
  BY <1>1, <1>3 DEF Queued

\* A pass is done with the job it was at.
LEMMA JobIsLeft ==
  ASSUME ChatTyped, NEW p \in Passes, PassSound(pass[p]), LeaveJob(p)
  PROVE  \E c, d \in PassRecords :
           /\ d = pass[p] /\ c.pc \in {"idle", "next"} /\ c.jobs = d.jobs \ {d.m} /\ c.m = NoMessage
           /\ (c.pc = "idle" => c.jobs = {}) /\ (\A n \in c.jobs : c.tries[n] = d.tries[n])
           /\ pass' = [pass EXCEPT ![p] = c]
<1>1. PICK d \in PassRecords : d = pass[p] /\ PassSound(d)
  BY DEF ChatTyped
<1>2. PICK left \in SUBSET ChatMessages : left = d.jobs \ {d.m}
  BY <1>1 DEF PassRecords
<1>3. PICK tries \in Tallies : tries = [m \in left |-> d.tries[m]]
  <2>1. \A m \in left : d.tries[m] \in Nat
    BY <1>1, <1>2 DEF PassSound
  <2>2. [m \in left |-> d.tries[m]] \in [left -> Nat]
    BY <2>1
  <2> QED
    BY <2>2 DEF Tallies
<1>4. \A n \in left : tries[n] = d.tries[n]
  BY <1>3
<1>5. PICK pc \in {"idle", "next"} : pc = IF left = {} THEN "idle" ELSE "next"
  OBVIOUS
<1>6. pc = "idle" => left = {}
  BY <1>5
<1> DEFINE c == [pc |-> pc, jobs |-> left, tries |-> tries, m |-> NoMessage]
<1>7. c \in PassRecords /\ c.pc = pc /\ c.jobs = left /\ c.tries = tries /\ c.m = NoMessage
  BY DEF PassRecords
<1>8. pass' = [pass EXCEPT ![p] = c]
  BY <1>1, <1>2, <1>3, <1>5 DEF LeaveJob
<1> HIDE DEF c
<1> QED
  BY <1>1, <1>2, <1>4, <1>6, <1>7, <1>8

\* A pass loads the jobs that are due.
LEMMA FindJobsInv == ASSUME ChatInv, NEW p \in Passes, FindJobs(p) PROVE ChatInv'
<1>t. ChatTyped /\ PassesSound /\ Sending
  BY DEF ChatInv
<1>1. PICK d \in PassRecords : d = pass[p] /\ PassSound(d) /\ d.pc = "idle" /\ d.jobs = {}
  BY <1>t DEF ChatTyped, PassesSound, PassSound, FindJobs, InPass
<1>2. PICK due \in SUBSET {m \in ChatMessages : job[m].status = "PENDING"} :
        /\ pass' = [pass EXCEPT ![p] =
             [pc |-> "next", jobs |-> due, tries |-> [m \in due |-> job[m].tries], m |-> NoMessage]]
        /\ passesMet' = (passesMet \/ \E q \in Passes \ {p} : pass[q].jobs \intersect due # {})
        /\ due # {}
  BY DEF FindJobs
<1>3. /\ UNCHANGED <<rows, position, chatRequest>> /\ UNCHANGED <<job, receipt, chatFaults>>
  BY DEF FindJobs, InPass
<1>4. due \subseteq ChatMessages /\ \A n \in due : job[n].status = "PENDING" /\ job[n].tries \in Nat
  BY <1>t, <1>2 DEF ChatTyped, JobRecords
<1>5. PICK tries \in Tallies : tries = [m \in due |-> job[m].tries]
  <2>1. [m \in due |-> job[m].tries] \in [due -> Nat]
    BY <1>4
  <2> QED
    BY <1>4, <2>1 DEF Tallies
<1>6. PICK c \in PassRecords : /\ c.pc = "next" /\ c.jobs = due /\ c.tries = tries /\ c.m = NoMessage
                               /\ pass' = [pass EXCEPT ![p] = c]
  <2> DEFINE c == [pc |-> "next", jobs |-> due, tries |-> tries, m |-> NoMessage]
  <2>1. c \in PassRecords /\ c.pc = "next" /\ c.jobs = due /\ c.tries = tries /\ c.m = NoMessage
    BY <1>4 DEF PassRecords
  <2>2. pass' = [pass EXCEPT ![p] = c]
    BY <1>2, <1>5
  <2> HIDE DEF c
  <2> QED
    BY <2>1, <2>2
<1>7. \A n \in due : tries[n] = job[n].tries
  BY <1>5
<1>8. \A n \in ChatMessages : Queued(n) => Queued(n)'
  BY <1>3 DEF Queued
<1>9. PassSound(c)'
  <2>1. PassSound(c)
    BY <1>4, <1>6, <1>7 DEF PassSound, Queued
  <2> QED
    BY <1>8, <2>1, PassStaysSound
<1>10. ASSUME ~passesMet'
       PROVE  /\ HeldAlone(c)'
              /\ \A q \in Passes \ {p} : c.jobs \intersect pass[q].jobs = {}
  <2>1. ~passesMet /\ \A q \in Passes \ {p} : c.jobs \intersect pass[q].jobs = {}
    BY <1>2, <1>6, <1>10
  <2>2. \A n \in due : JobSound(n)
    BY <1>t, <1>4, <2>1 DEF PassesSound
  <2>3. \A n \in due : ~receipt[n] /\ job[n].tries <= RetryLimit
    BY <1>4, <2>2 DEF JobSound
  <2>4. HeldAlone(c)
    BY <1>4, <1>6, <1>7, <2>3 DEF HeldAlone
  <2> QED
    BY <1>3, <2>1, <2>4 DEF HeldAlone
<1>11. PassesSound'
  <2>1. passesMet => passesMet'
    BY <1>2
  <2>2. \A n \in ChatMessages : job'[n] = job[n] /\ receipt'[n] = receipt[n]
    BY <1>3
  <2> QED
    BY <1>t, <1>6, <1>8, <1>9, <1>10, <2>1, <2>2, PassesStaySound
<1>12. Sending'
  <2>1. \A n \in ChatMessages : job'[n].status = "PROCESSING" =>
          job[n].status = "PROCESSING" /\ ~(pass[p].pc = "send" /\ pass[p].m = n)
    BY <1>1, <1>3
  <2> QED
    BY <1>t, <1>3, <1>6, <2>1, SendingStays
<1>13. /\ job' \in [ChatMessages -> JobRecords] /\ receipt' \in [ChatMessages -> BOOLEAN]
       /\ passesMet' \in BOOLEAN /\ chatFaults' \in Nat /\ (chatFaults' = 0 => chatFaults = 0)
  BY <1>t, <1>2, <1>3 DEF ChatTyped
<1> QED
  BY <1>3, <1>6, <1>8, <1>11, <1>12, <1>13, PassInv

\* A pass begins one of its jobs.
LEMMA TakeJobInv == ASSUME ChatInv, NEW p \in Passes, NEW m \in ChatMessages, TakeJob(p, m) PROVE ChatInv'
<1>t. ChatTyped /\ PassesSound /\ Sending
  BY DEF ChatInv
<1>1. PICK d \in PassRecords : d = pass[p] /\ PassSound(d) /\ d.pc = "next" /\ m \in d.jobs
  BY <1>t DEF ChatTyped, PassesSound, TakeJob, InPass
<1>2. d.m = NoMessage /\ d.jobs \subseteq ChatMessages /\ d.tries[m] \in Nat
  BY <1>1 DEF PassSound, PassRecords
<1>3. /\ UNCHANGED <<rows, position, chatRequest>> /\ UNCHANGED <<receipt, passesMet, chatFaults>>
      /\ SaveJob(p, m, "PROCESSING", d.tries[m])
  BY <1>1 DEF TakeJob, InPass
<1>4. PICK c \in PassRecords : /\ c.pc = "send" /\ c.jobs = d.jobs /\ c.tries = d.tries /\ c.m = m
                               /\ pass' = [pass EXCEPT ![p] = c]
  <2> DEFINE c == [d EXCEPT !.pc = "send", !.m = m]
  <2>1. c \in PassRecords /\ c.pc = "send" /\ c.jobs = d.jobs /\ c.tries = d.tries /\ c.m = m
    BY DEF PassRecords
  <2>2. pass' = [pass EXCEPT ![p] = c]
    BY <1>t, <1>1 DEF TakeJob, ChatTyped
  <2> HIDE DEF c
  <2> QED
    BY <2>1, <2>2
<1>5. /\ job' \in [ChatMessages -> JobRecords] /\ job'[m].status = "PROCESSING" /\ job'[m].tries = d.tries[m]
      /\ \A n \in ChatMessages \ {m} : job'[n] = job[n]
      /\ \A n \in ChatMessages : Queued(n) => Queued(n)'
  <2>1. "PROCESSING" \in JobStatuses /\ "PROCESSING" # "NONE"
    BY DEF JobStatuses
  <2> QED
    BY <1>t, <1>2, <1>3, <2>1, JobIsSaved
<1>6. PassSound(c)'
  <2>1. PassSound(c)
    BY <1>1, <1>4 DEF PassSound
  <2> QED
    BY <1>5, <2>1, PassStaysSound
<1>7. ASSUME ~passesMet'
      PROVE  /\ HeldAlone(c)'
             /\ \A q \in Passes \ {p} : c.jobs \intersect pass[q].jobs = {}
             /\ \A n \in ChatMessages :
                  \/ job'[n] = job[n] /\ receipt'[n] = receipt[n]
                  \/ JobSound(n)' /\ \A q \in Passes \ {p} : n \notin pass[q].jobs
  <2>1. ~passesMet
    BY <1>3, <1>7
  <2>2. HeldAlone(d) /\ \A q \in Passes \ {p} : d.jobs \intersect pass[q].jobs = {}
    BY <1>t, <1>1, <2>1 DEF PassesSound
  <2>3. ~receipt[m] /\ \A q \in Passes \ {p} : m \notin pass[q].jobs
    BY <1>1, <2>2 DEF HeldAlone
  <2>4. JobSound(m)'
    BY <1>3, <1>5, <2>3 DEF JobSound
  <2>5. ASSUME NEW n \in d.jobs
        PROVE  /\ ~receipt'[n] /\ c.tries[n] = job'[n].tries /\ c.tries[n] <= RetryLimit
               /\ n # m => job'[n].status = "PENDING"
    <3>1. n \in ChatMessages /\ n # d.m
      BY <1>2, ChatAssumption
    <3>2. /\ ~receipt[n] /\ d.tries[n] = job[n].tries /\ d.tries[n] <= RetryLimit
          /\ job[n].status = "PENDING"
      BY <2>2, <3>1 DEF HeldAlone
    <3> QED
      BY <1>3, <1>4, <1>5, <3>1, <3>2
  <2>6. HeldAlone(c)'
    BY <1>4, <2>5 DEF HeldAlone
  <2>7. \A n \in ChatMessages :
          \/ job'[n] = job[n] /\ receipt'[n] = receipt[n]
          \/ JobSound(n)' /\ \A q \in Passes \ {p} : n \notin pass[q].jobs
    BY <1>3, <1>5, <2>3, <2>4
  <2> QED
    BY <1>4, <2>2, <2>6, <2>7
<1>8. PassesSound'
  <2>1. passesMet => passesMet'
    BY <1>3
  <2> QED
    BY <1>t, <1>4, <1>5, <1>6, <1>7, <2>1, PassesStaySound
<1>9. Sending'
  <2>1. \A n \in ChatMessages : job'[n].status = "PROCESSING" =>
          \/ c.pc = "send" /\ c.m = n
          \/ job[n].status = "PROCESSING" /\ ~(pass[p].pc = "send" /\ pass[p].m = n)
    BY <1>1, <1>4, <1>5
  <2> QED
    BY <1>t, <1>3, <1>4, <2>1, SendingStays
<1>10. /\ job' \in [ChatMessages -> JobRecords] /\ receipt' \in [ChatMessages -> BOOLEAN]
       /\ passesMet' \in BOOLEAN /\ chatFaults' \in Nat /\ (chatFaults' = 0 => chatFaults = 0)
  BY <1>t, <1>3, <1>5 DEF ChatTyped
<1> QED
  BY <1>3, <1>4, <1>5, <1>8, <1>9, <1>10, PassInv

\* The receiver is away: the job waits to be tried again, or is given up.
LEMMA AwayInv ==
  ASSUME ChatInv, NEW p \in Passes, SendToUser(p, FALSE) PROVE ChatInv'
<1>t. ChatTyped /\ PassesSound /\ Sending
  BY DEF ChatInv
<1>1. PICK c, d \in PassRecords :
        /\ d = pass[p] /\ c.pc \in {"idle", "next"} /\ c.jobs = d.jobs \ {d.m} /\ c.m = NoMessage
        /\ (c.pc = "idle" => c.jobs = {}) /\ (\A n \in c.jobs : c.tries[n] = d.tries[n])
        /\ pass' = [pass EXCEPT ![p] = c]
  <2>1. PassSound(pass[p]) /\ LeaveJob(p)
    BY <1>t DEF PassesSound, SendToUser
  <2> QED
    BY <1>t, <2>1, JobIsLeft
<1>2. PassSound(d) /\ d.pc = "send" /\ d.m \in d.jobs /\ d.jobs \subseteq ChatMessages
  BY <1>t, <1>1 DEF PassesSound, SendToUser, InPass, PassSound, PassRecords
<1>3. PICK m \in ChatMessages, t \in Nat : m = d.m /\ t = d.tries[m]
  BY <1>2 DEF PassSound
<1>4. PICK given : given = StatusUnsent(t + 1)
  OBVIOUS
<1>5. /\ given \in {"FAILED", "PENDING"} /\ RetryLimit \in Nat
      /\ given = "FAILED" => t + 1 > RetryLimit
      /\ given = "PENDING" => t + 1 <= RetryLimit
  BY <1>4, ChatAssumption DEF StatusUnsent
<1>6. /\ UNCHANGED <<rows, position, chatRequest>> /\ UNCHANGED <<receipt, passesMet, chatFaults>>
      /\ SaveJob(p, m, given, t + 1)
  BY <1>1, <1>3, <1>4 DEF SendToUser, InPass
<1>7. /\ job' \in [ChatMessages -> JobRecords] /\ job'[m].status = given /\ job'[m].tries = t + 1
      /\ \A n \in ChatMessages \ {m} : job'[n] = job[n]
      /\ \A n \in ChatMessages : Queued(n) => Queued(n)'
  <2>1. given \in JobStatuses /\ given # "NONE" /\ t + 1 \in Nat
    BY <1>5 DEF JobStatuses
  <2> QED
    BY <1>t, <1>6, <2>1, JobIsSaved
<1>8. PassSound(c)'
  <2>1. PassSound(c)
    BY <1>1, <1>2 DEF PassSound
  <2> QED
    BY <1>7, <2>1, PassStaysSound
<1>9. ASSUME ~passesMet'
      PROVE  /\ HeldAlone(c)'
             /\ \A q \in Passes \ {p} : c.jobs \intersect pass[q].jobs = {}
             /\ \A n \in ChatMessages :
                  \/ job'[n] = job[n] /\ receipt'[n] = receipt[n]
                  \/ JobSound(n)' /\ \A q \in Passes \ {p} : n \notin pass[q].jobs
  <2>1. ~passesMet
    BY <1>6, <1>9
  <2>2. HeldAlone(d) /\ \A q \in Passes \ {p} : d.jobs \intersect pass[q].jobs = {}
    BY <1>t, <1>1, <2>1 DEF PassesSound
  <2>3. ~receipt[m] /\ t <= RetryLimit /\ \A q \in Passes \ {p} : m \notin pass[q].jobs
    BY <1>2, <1>3, <2>2 DEF HeldAlone
  <2>4. JobSound(m)'
    <3>1. given = "FAILED" => t + 1 = RetryLimit + 1
      BY <1>5, <2>3
    <3>2. ~receipt'[m]
      BY <1>6, <2>3
    <3> QED
      BY <1>5, <1>7, <3>1, <3>2 DEF JobSound
  <2>5. ASSUME NEW n \in c.jobs
        PROVE  /\ ~receipt'[n] /\ c.tries[n] = job'[n].tries /\ c.tries[n] <= RetryLimit
               /\ job'[n].status = "PENDING"
    <3>1. n \in d.jobs /\ n \in ChatMessages /\ n # d.m
      BY <1>1, <1>2
    <3>2. /\ ~receipt[n] /\ d.tries[n] = job[n].tries /\ d.tries[n] <= RetryLimit
          /\ job[n].status = "PENDING"
      BY <2>2, <3>1 DEF HeldAlone
    <3> QED
      BY <1>1, <1>3, <1>6, <1>7, <3>1, <3>2
  <2>6. HeldAlone(c)'
    BY <1>1, <2>5 DEF HeldAlone
  <2>7. \A n \in ChatMessages :
          \/ job'[n] = job[n] /\ receipt'[n] = receipt[n]
          \/ JobSound(n)' /\ \A q \in Passes \ {p} : n \notin pass[q].jobs
    BY <1>6, <1>7, <2>3, <2>4
  <2> QED
    BY <1>1, <2>2, <2>6, <2>7
<1>10. PassesSound'
  <2>1. passesMet => passesMet'
    BY <1>6
  <2> QED
    BY <1>t, <1>1, <1>7, <1>8, <1>9, <2>1, PassesStaySound
<1>11. Sending'
  <2>1. ASSUME NEW n \in ChatMessages, job'[n].status = "PROCESSING"
        PROVE  job[n].status = "PROCESSING" /\ ~(pass[p].pc = "send" /\ pass[p].m = n)
    <3>1. n # m
      BY <1>5, <1>7, <2>1
    <3> QED
      BY <1>1, <1>3, <1>7, <2>1, <3>1
  <2> QED
    BY <1>t, <1>1, <1>6, <2>1, SendingStays
<1>12. /\ job' \in [ChatMessages -> JobRecords] /\ receipt' \in [ChatMessages -> BOOLEAN]
       /\ passesMet' \in BOOLEAN /\ chatFaults' \in Nat /\ (chatFaults' = 0 => chatFaults = 0)
  BY <1>t, <1>6, <1>7 DEF ChatTyped
<1> QED
  BY <1>1, <1>6, <1>7, <1>10, <1>11, <1>12, PassInv

\* The receiver has it: the job is saved as COMPLETED, the receipt comes next.
LEMMA ThereInv ==
  ASSUME ChatInv, NEW p \in Passes, SendToUser(p, TRUE) PROVE ChatInv'
<1>t. ChatTyped /\ PassesSound /\ Sending
  BY DEF ChatInv
<1>1. PICK d \in PassRecords : d = pass[p] /\ PassSound(d) /\ d.pc = "send" /\ d.m \in d.jobs
  BY <1>t DEF ChatTyped, PassesSound, PassSound, SendToUser, InPass
<1>2. PICK m \in ChatMessages, t \in Nat : m = d.m /\ t = d.tries[m] /\ d.jobs \subseteq ChatMessages
  BY <1>1 DEF PassSound, PassRecords
<1>3. /\ UNCHANGED <<rows, position, chatRequest>> /\ UNCHANGED <<receipt, passesMet, chatFaults>>
      /\ SaveJob(p, m, "COMPLETED", t)
  BY <1>1, <1>2 DEF SendToUser, InPass
<1>4. PICK c \in PassRecords : /\ c.pc = "receipt" /\ c.jobs = d.jobs /\ c.tries = d.tries /\ c.m = m
                               /\ pass' = [pass EXCEPT ![p] = c]
  <2> DEFINE c == [d EXCEPT !.pc = "receipt"]
  <2>1. c \in PassRecords /\ c.pc = "receipt" /\ c.jobs = d.jobs /\ c.tries = d.tries /\ c.m = m
    BY <1>2 DEF PassRecords
  <2>2. pass' = [pass EXCEPT ![p] = c]
    BY <1>t, <1>1 DEF SendToUser, ChatTyped
  <2> HIDE DEF c
  <2> QED
    BY <2>1, <2>2
<1>5. /\ job' \in [ChatMessages -> JobRecords] /\ job'[m].status = "COMPLETED" /\ job'[m].tries = t
      /\ \A n \in ChatMessages \ {m} : job'[n] = job[n]
      /\ \A n \in ChatMessages : Queued(n) => Queued(n)'
  <2>1. "COMPLETED" \in JobStatuses /\ "COMPLETED" # "NONE"
    BY DEF JobStatuses
  <2> QED
    BY <1>t, <1>3, <2>1, JobIsSaved
<1>6. PassSound(c)'
  <2>1. PassSound(c)
    BY <1>1, <1>2, <1>4 DEF PassSound
  <2> QED
    BY <1>5, <2>1, PassStaysSound
<1>7. ASSUME ~passesMet'
      PROVE  /\ HeldAlone(c)'
             /\ \A q \in Passes \ {p} : c.jobs \intersect pass[q].jobs = {}
             /\ \A n \in ChatMessages :
                  \/ job'[n] = job[n] /\ receipt'[n] = receipt[n]
                  \/ JobSound(n)' /\ \A q \in Passes \ {p} : n \notin pass[q].jobs
  <2>1. ~passesMet
    BY <1>3, <1>7
  <2>2. HeldAlone(d) /\ \A q \in Passes \ {p} : d.jobs \intersect pass[q].jobs = {}
    BY <1>t, <1>1, <2>1 DEF PassesSound
  <2>3. \A q \in Passes \ {p} : m \notin pass[q].jobs
    BY <1>1, <1>2, <2>2
  <2>4. JobSound(m)'
    BY <1>5 DEF JobSound
  <2>5. ASSUME NEW n \in d.jobs
        PROVE  /\ ~receipt'[n] /\ c.tries[n] = job'[n].tries /\ c.tries[n] <= RetryLimit
               /\ n # m => job'[n].status = "PENDING"
    <3>1. n \in ChatMessages
      BY <1>2
    <3>2. /\ ~receipt[n] /\ d.tries[n] = job[n].tries /\ d.tries[n] <= RetryLimit
          /\ n # m => job[n].status = "PENDING"
      BY <1>2, <2>2, <3>1 DEF HeldAlone
    <3> QED
      BY <1>2, <1>3, <1>4, <1>5, <3>1, <3>2
  <2>6. HeldAlone(c)'
    BY <1>4, <1>5, <2>5 DEF HeldAlone
  <2>7. \A n \in ChatMessages :
          \/ job'[n] = job[n] /\ receipt'[n] = receipt[n]
          \/ JobSound(n)' /\ \A q \in Passes \ {p} : n \notin pass[q].jobs
    BY <1>3, <1>5, <2>3, <2>4
  <2> QED
    BY <1>4, <2>2, <2>6, <2>7
<1>8. PassesSound'
  <2>1. passesMet => passesMet'
    BY <1>3
  <2> QED
    BY <1>t, <1>4, <1>5, <1>6, <1>7, <2>1, PassesStaySound
<1>9. Sending'
  <2>1. ASSUME NEW n \in ChatMessages, job'[n].status = "PROCESSING"
        PROVE  job[n].status = "PROCESSING" /\ ~(pass[p].pc = "send" /\ pass[p].m = n)
    <3>1. n # m
      BY <1>5, <2>1
    <3> QED
      BY <1>1, <1>2, <1>5, <2>1, <3>1
  <2> QED
    BY <1>t, <1>3, <1>4, <2>1, SendingStays
<1>10. /\ job' \in [ChatMessages -> JobRecords] /\ receipt' \in [ChatMessages -> BOOLEAN]
       /\ passesMet' \in BOOLEAN /\ chatFaults' \in Nat /\ (chatFaults' = 0 => chatFaults = 0)
  BY <1>t, <1>3, <1>5 DEF ChatTyped
<1> QED
  BY <1>3, <1>4, <1>5, <1>8, <1>9, <1>10, PassInv

\* The receipt is saved, or the second receipt throws.
LEMMA SaveReceiptInv == ASSUME ChatInv, NEW p \in Passes, SaveReceipt(p) PROVE ChatInv'
<1>t. ChatTyped /\ PassesSound /\ Sending
  BY DEF ChatInv
<1>1. PICK c, d \in PassRecords :
        /\ d = pass[p] /\ c.pc \in {"idle", "next"} /\ c.jobs = d.jobs \ {d.m} /\ c.m = NoMessage
        /\ (c.pc = "idle" => c.jobs = {}) /\ (\A n \in c.jobs : c.tries[n] = d.tries[n])
        /\ pass' = [pass EXCEPT ![p] = c]
  <2>1. PassSound(pass[p]) /\ LeaveJob(p)
    BY <1>t DEF PassesSound, SaveReceipt
  <2> QED
    BY <1>t, <2>1, JobIsLeft
<1>2. PassSound(d) /\ d.pc = "receipt" /\ d.m \in d.jobs /\ d.jobs \subseteq ChatMessages
  BY <1>t, <1>1 DEF PassesSound, SaveReceipt, InPass, PassSound, PassRecords
<1>3. PICK m \in ChatMessages, t \in Nat : m = d.m /\ t = d.tries[m]
  BY <1>2 DEF PassSound
<1>4. /\ UNCHANGED <<rows, position, chatRequest>> /\ UNCHANGED <<passesMet, chatFaults>>
      /\ receipt' = [receipt EXCEPT ![m] = TRUE]
      /\ receipt[m] => SaveJob(p, m, "FAILED", t)
      /\ ~receipt[m] => UNCHANGED job
  BY <1>1, <1>3 DEF SaveReceipt, InPass
<1>5. /\ receipt' \in [ChatMessages -> BOOLEAN]
      /\ \A n \in ChatMessages \ {m} : receipt'[n] = receipt[n]
  BY <1>t, <1>4 DEF ChatTyped
<1>6. /\ job' \in [ChatMessages -> JobRecords]
      /\ \A n \in ChatMessages \ {m} : job'[n] = job[n]
      /\ \A n \in ChatMessages : Queued(n) => Queued(n)'
      /\ \A n \in ChatMessages : job'[n].status = "PROCESSING" => job[n].status = "PROCESSING"
  <2>1. CASE receipt[m]
    <3>1. "FAILED" \in JobStatuses /\ "FAILED" # "NONE"
      BY DEF JobStatuses
    <3>2. /\ job' \in [ChatMessages -> JobRecords] /\ job'[m].status = "FAILED"
          /\ \A n \in ChatMessages \ {m} : job'[n] = job[n]
          /\ \A n \in ChatMessages : Queued(n) => Queued(n)'
      BY <1>t, <1>4, <2>1, <3>1, JobIsSaved
    <3> QED
      BY <3>2
  <2>2. CASE ~receipt[m]
    <3>1. UNCHANGED job
      BY <1>4, <2>2
    <3> QED
      BY <1>t, <3>1 DEF ChatTyped, Queued
  <2> QED
    BY <2>1, <2>2
<1>7. PassSound(c)'
  <2>1. PassSound(c)
    BY <1>1, <1>2 DEF PassSound
  <2> QED
    BY <1>6, <2>1, PassStaysSound
<1>8. ASSUME ~passesMet'
      PROVE  /\ HeldAlone(c)'
             /\ \A q \in Passes \ {p} : c.jobs \intersect pass[q].jobs = {}
             /\ \A n \in ChatMessages :
                  \/ job'[n] = job[n] /\ receipt'[n] = receipt[n]
                  \/ JobSound(n)' /\ \A q \in Passes \ {p} : n \notin pass[q].jobs
  <2>1. ~passesMet
    BY <1>4, <1>8
  <2>2. HeldAlone(d) /\ \A q \in Passes \ {p} : d.jobs \intersect pass[q].jobs = {}
    BY <1>t, <1>1, <2>1 DEF PassesSound
  <2>3. /\ ~receipt[m] /\ job[m].status = "COMPLETED"
        /\ \A q \in Passes \ {p} : m \notin pass[q].jobs
    BY <1>2, <1>3, <2>2 DEF HeldAlone
  <2>4. UNCHANGED job
    BY <1>4, <2>3
  <2>5. JobSound(m)'
    BY <2>3, <2>4 DEF JobSound
  <2>6. ASSUME NEW n \in c.jobs
        PROVE  /\ ~receipt'[n] /\ c.tries[n] = job'[n].tries /\ c.tries[n] <= RetryLimit
               /\ job'[n].status = "PENDING"
    <3>1. n \in d.jobs /\ n \in ChatMessages /\ n # d.m
      BY <1>1, <1>2
    <3>2. /\ ~receipt[n] /\ d.tries[n] = job[n].tries /\ d.tries[n] <= RetryLimit
          /\ job[n].status = "PENDING"
      BY <2>2, <3>1 DEF HeldAlone
    <3> QED
      BY <1>1, <1>3, <1>5, <2>4, <3>1, <3>2
  <2>7. HeldAlone(c)'
    BY <1>1, <2>6 DEF HeldAlone
  <2>8. \A n \in ChatMessages :
          \/ job'[n] = job[n] /\ receipt'[n] = receipt[n]
          \/ JobSound(n)' /\ \A q \in Passes \ {p} : n \notin pass[q].jobs
    BY <1>5, <2>3, <2>4, <2>5
  <2> QED
    BY <1>1, <2>2, <2>7, <2>8
<1>9. PassesSound'
  <2>1. passesMet => passesMet'
    BY <1>4
  <2> QED
    BY <1>t, <1>1, <1>6, <1>7, <1>8, <2>1, PassesStaySound
<1>10. Sending'
  <2>1. \A n \in ChatMessages : job'[n].status = "PROCESSING" =>
          job[n].status = "PROCESSING" /\ ~(pass[p].pc = "send" /\ pass[p].m = n)
    BY <1>1, <1>2, <1>6
  <2> QED
    BY <1>t, <1>1, <1>4, <2>1, SendingStays
<1>11. passesMet' \in BOOLEAN /\ chatFaults' \in Nat /\ (chatFaults' = 0 => chatFaults = 0)
  BY <1>t, <1>4 DEF ChatTyped
<1> QED
  BY <1>1, <1>4, <1>5, <1>6, <1>9, <1>10, <1>11, PassInv

\* The server stops in the middle of a pass.
LEMMA PassDiesInv == ASSUME ChatInv, NEW p \in Passes, PassDies(p) PROVE ChatInv'
<1>t. ChatTyped /\ PassesSound /\ Sending
  BY DEF ChatInv
<1>1. /\ UNCHANGED <<rows, position, chatRequest>> /\ UNCHANGED <<job, receipt, passesMet>>
      /\ chatFaults' = chatFaults + 1
      /\ pass' = [pass EXCEPT ![p] = [pc |-> "idle", jobs |-> {}, tries |-> NoTries, m |-> NoMessage]]
  BY DEF PassDies
<1>2. PICK none \in Tallies : none = NoTries
  <2>1. NoTries \in [{} -> Nat]
    BY DEF NoTries
  <2> QED
    BY <2>1 DEF Tallies
<1>3. PICK c \in PassRecords : c.pc = "idle" /\ c.jobs = {} /\ c.m = NoMessage /\ pass' = [pass EXCEPT ![p] = c]
  <2> DEFINE c == [pc |-> "idle", jobs |-> {}, tries |-> none, m |-> NoMessage]
  <2>1. c \in PassRecords /\ c.pc = "idle" /\ c.jobs = {} /\ c.m = NoMessage
    BY DEF PassRecords
  <2>2. pass' = [pass EXCEPT ![p] = c]
    BY <1>1, <1>2
  <2> HIDE DEF c
  <2> QED
    BY <2>1, <2>2
<1>4. \A n \in ChatMessages : Queued(n) => Queued(n)'
  BY <1>1 DEF Queued
<1>5. PassSound(c)' /\ HeldAlone(c)'
  BY <1>3 DEF PassSound, HeldAlone
<1>6. chatFaults' \in Nat /\ chatFaults' # 0
  BY <1>t, <1>1 DEF ChatTyped
<1>7. PassesSound'
  <2>1. \A n \in ChatMessages : job'[n] = job[n] /\ receipt'[n] = receipt[n]
    BY <1>1
  <2>2. \A q \in Passes \ {p} : c.jobs \intersect pass[q].jobs = {}
    BY <1>3
  <2>3. passesMet => passesMet'
    BY <1>1
  <2> QED
    BY <1>t, <1>3, <1>4, <1>5, <2>1, <2>2, <2>3, PassesStaySound
<1>8. Sending'
  BY <1>6 DEF Sending
<1>9. /\ job' \in [ChatMessages -> JobRecords] /\ receipt' \in [ChatMessages -> BOOLEAN]
      /\ passesMet' \in BOOLEAN
  BY <1>t, <1>1 DEF ChatTyped
<1> QED
  BY <1>1, <1>3, <1>4, <1>6, <1>7, <1>8, <1>9, PassInv

\* It holds at the start.
LEMMA ChatStarts == ChatInit => ChatInv
<1> SUFFICES ASSUME ChatInit PROVE ChatInv
  OBVIOUS
<1>1. SavedMessages = {}
  BY DEF ChatInit, SavedMessages
<1>2. IsFiniteSet(SavedMessages) /\ Cardinality(SavedMessages) = 0
  BY <1>1, FS_EmptySet
<1>3. PICK e \in RequestRecords : e = Unasked /\ e.pc = "idle" /\ RequestSound(e)
  BY UnaskedIs
<1>4. PICK none \in Tallies : none = NoTries
  <2>1. NoTries \in [{} -> Nat]
    BY DEF NoTries
  <2> QED
    BY <2>1 DEF Tallies
<1>5. PICK c \in PassRecords : /\ c.pc = "idle" /\ c.jobs = {} /\ c.m = NoMessage
                               /\ pass = [p \in Passes |-> c]
  <2> DEFINE c == [pc |-> "idle", jobs |-> {}, tries |-> none, m |-> NoMessage]
  <2>1. c \in PassRecords /\ c.pc = "idle" /\ c.jobs = {} /\ c.m = NoMessage
    BY DEF PassRecords
  <2>2. pass = [p \in Passes |-> c]
    BY <1>4 DEF ChatInit
  <2> HIDE DEF c
  <2> QED
    BY <2>1, <2>2
<1>6. PICK j \in JobRecords : j.status = "NONE" /\ j.tries = 0 /\ job = [m \in ChatMessages |-> j]
  <2> DEFINE j == [status |-> "NONE", tries |-> 0]
  <2>1. j \in JobRecords /\ j.status = "NONE" /\ j.tries = 0
    BY DEF JobRecords, JobStatuses
  <2>2. job = [m \in ChatMessages |-> j]
    BY DEF ChatInit
  <2> HIDE DEF j
  <2> QED
    BY <2>1, <2>2
<1>7. chatRequest = [r \in ChatRequests |-> e]
  BY <1>3 DEF ChatInit
<1>8. ChatTyped
  BY <1>5, <1>6, <1>7 DEF ChatInit, ChatTyped
<1>9. Numbered
  BY <1>1, <1>2 DEF ChatInit, Numbered
<1>10. RequestsSound
  BY <1>3, <1>7 DEF RequestsSound
<1>11. CountedOnce /\ ReadsGoForward
  BY DEF ChatInit, CountedOnce, ReadsGoForward
<1>12. UnreadBounded
  <2>1. ASSUME NEW u \in Members PROVE unread[u] <= UnreadAtMost(u)
    <3>1. {m \in SavedMessages : Receiver(m) = u /\ counted[m] > 0 /\ sequence[m] > lastRead[u]} = {}
      BY <1>1
    <3>2. UnreadAtMost(u) = 0 /\ unread[u] = 0
      BY <3>1, FS_EmptySet DEF UnreadAtMost, ChatInit
    <3> QED
      BY <3>2
  <2> QED
    BY <2>1 DEF UnreadBounded
<1>13. PassesSound
  <2>1. PassSound(c) /\ HeldAlone(c)
    BY <1>5 DEF PassSound, HeldAlone
  <2>2. \A m \in ChatMessages : JobSound(m)
    BY <1>6 DEF ChatInit, JobSound
  <2> QED
    BY <1>5, <2>1, <2>2 DEF PassesSound
<1>14. Joining /\ Sending
  BY <1>6 DEF ChatInit, Joining, Sending
<1> QED
  BY <1>8, <1>9, <1>10, <1>11, <1>12, <1>13, <1>14 DEF ChatInv

\* Every step keeps it.
LEMMA ChatStepInv == ChatInv /\ [ChatNext]_chatVars => ChatInv'
<1> SUFFICES ASSUME ChatInv, [ChatNext]_chatVars PROVE ChatInv'
  OBVIOUS
<1>1. ASSUME NEW r \in ChatRequests,
             \/ CreateDirect(r) \/ SaveDirect(r) \/ SaveParticipants(r) \/ GetNextSequenceNo(r)
             \/ FindTarget(r) \/ ChatRequestDies(r) \/ \E m \in ChatMessages : SendMessage(r, m)
             \/ \E u \in Members, m \in ChatMessages \union {NoMessage} : LoadParticipant(r, u, m)
      PROVE  ChatInv'
  BY <1>1, AskingInv
<1>2. ASSUME NEW r \in ChatRequests,
             \/ SaveMessage(r) \/ UpdateLastMessage(r) \/ CreateDeliveryJobs(r)
             \/ IncrementUnread(r) \/ SaveRead(r)
      PROVE  ChatInv'
  BY <1>2, SaveMessageInv, UpdateLastMessageInv, CreateDeliveryJobsInv, IncrementUnreadInv, SaveReadInv
<1>3. ASSUME NEW p \in Passes,
             \/ FindJobs(p) \/ SaveReceipt(p) \/ PassDies(p) \/ \E m \in ChatMessages : TakeJob(p, m)
      PROVE  ChatInv'
  BY <1>3, FindJobsInv, SaveReceiptInv, PassDiesInv, TakeJobInv
<1>4. ASSUME NEW p \in Passes, NEW online \in BOOLEAN, SendToUser(p, online) PROVE ChatInv'
  <2>1. CASE online = TRUE
    BY <1>4, <2>1, ThereInv
  <2>2. CASE online = FALSE
    BY <1>4, <2>2, AwayInv
  <2> QED
    BY <2>1, <2>2
<1>5. CASE UNCHANGED chatVars
  <2>1. UNCHANGED <<sequence, lastMessage, direct, delivery, position, chatRequest, chatFaults>>
    BY <1>5 DEF chatVars, rows
  <2>2. /\ UNCHANGED <<job, receipt, pass, passesMet>>
        /\ UNCHANGED <<unread, lastRead, counted, countedLate, furthestRead, readOvertaken>>
    BY <2>1 DEF delivery, position
  <2>3. SavedMessages' = SavedMessages
    BY <2>1, PlacesStay
  <2>4. ChatTyped' /\ Numbered'
    BY <2>1, <2>2, <2>3 DEF ChatInv, ChatTyped, Numbered
  <2>5. RequestsSound'
    BY <2>1, <2>2, <2>3 DEF ChatInv, RequestsSound, RequestSound, Queued
  <2>6. CountedOnce' /\ ReadsGoForward' /\ UnreadBounded'
    <3>1. \A m \in ChatMessages : Queued(m) => Queued(m)'
      BY <2>2 DEF Queued
    <3> QED
      BY <2>1, <3>1, PositionStays DEF ChatInv
  <2>7. PassesSound' /\ Sending'
    BY <2>1, DeliveryStays DEF ChatInv
  <2>8. Joining'
    BY <2>1 DEF ChatInv, Joining
  <2> QED
    BY <2>4, <2>5, <2>6, <2>7, <2>8 DEF ChatInv
<1> QED
  BY <1>1, <1>2, <1>3, <1>4, <1>5 DEF ChatNext

\* It says what is promised.
LEMMA ChatInvImplies == ChatInv => MessagesConsistent
<1> SUFFICES ASSUME ChatInv PROVE MessagesConsistent
  OBVIOUS
<1>t. /\ ChatTyped /\ Numbered /\ CountedOnce /\ ReadsGoForward /\ UnreadBounded
      /\ PassesSound /\ Joining /\ Sending
  BY DEF ChatInv
<1>1. ChatTypeOK
  <2>1. Cardinality(SavedMessages) \in Nat
    BY <1>t, FS_CardinalityType DEF Numbered
  <2>2. \A m \in ChatMessages : sequence[m] \in 0..Cardinality(SavedMessages)
    BY <1>t, <2>1 DEF ChatTyped, Numbered
  <2>3. sequence \in [ChatMessages -> 0..Cardinality(SavedMessages)]
    BY <1>t, <2>2 DEF ChatTyped
  <2>4. direct \in {"NONE", "PAIR", "JOINED"} /\ lastMessage \in SavedMessages \union {NoMessage}
    BY <1>t DEF ChatTyped, Numbered
  <2>5. job \in [ChatMessages ->
           [status : {"NONE", "PENDING", "PROCESSING", "COMPLETED", "FAILED"}, tries : Nat]]
    BY <1>t DEF ChatTyped, JobRecords, JobStatuses
  <2> QED
    BY <2>3, <2>4, <2>5 DEF ChatTypeOK
<1>2. \A m, n \in SavedMessages : m # n => sequence[m] # sequence[n]
  BY <1>t DEF Numbered
<1>3. \A m \in ChatMessages : counted[m] <= 1
  BY <1>t DEF CountedOnce
<1>4. ~readOvertaken => lastRead = furthestRead
  BY <1>t DEF ReadsGoForward, ChatTyped
<1>5. ~countedLate => \A u \in Members : unread[u] <= UnreadAtMost(u)
  BY <1>t DEF UnreadBounded
<1>6. ~passesMet => \A m \in ChatMessages :
        /\ receipt[m] => job[m].status = "COMPLETED"
        /\ job[m].status = "FAILED" => job[m].tries = RetryLimit + 1
  BY <1>t DEF PassesSound, JobSound
<1>7. chatFaults = 0 /\ direct = "PAIR" => \E r \in ChatRequests : chatRequest[r].pc = "participants"
  BY <1>t DEF Joining
<1>8. chatFaults = 0 => \A m \in ChatMessages :
        job[m].status = "PROCESSING" => \E p \in Passes : pass[p].m = m \/ m \in pass[p].jobs
  BY <1>t DEF Sending
<1> QED
  BY <1>1, <1>2, <1>3, <1>4, <1>5, <1>6, <1>7, <1>8 DEF MessagesConsistent

\* ChatMessages: however requests, retries and overlapping passes of any number
\* of messages interleave, a message has one place in the conversation, without
\* gaps, and is counted once, and what is said of the read position, the unread
\* counter and the delivery jobs holds unless the histories say what overlapped.
THEOREM MessagesStayConsistent == ChatSpec => []MessagesConsistent
<1>1. ChatInit => ChatInv
  BY ChatStarts
<1>2. ChatInv /\ [ChatNext]_chatVars => ChatInv'
  BY ChatStepInv
<1>3. ChatInv => MessagesConsistent
  BY ChatInvImplies
<1> QED
  BY <1>1, <1>2, <1>3, PTL DEF ChatSpec

-----------------------------------------------------------------------------
(* The seconds of the voice sessions.                                         *)

UsageRows ==
  [status : {"none", "pending", "active", "ended", "cancelled"}, allocated : 0..Ttl, used : 0..Ttl,
   beat : {"none", "fresh", "late"}, old : BOOLEAN, provider : BOOLEAN]
InsertRequests == [at : {"insert"}, session : VoiceSessions, allocated : 0..Ttl]
NamedRequests == [at : {"created", "answer", "beat"}, session : VoiceSessions]
CopyRequests == [at : {"activate", "end"}, session : VoiceSessions, copy : UsageRows]
RevokeRequests == [at : {"revoke"}]
SessionRequests == InsertRequests \union NamedRequests \union CopyRequests
VoiceWork == {Free} \union RevokeRequests \union SessionRequests

VoiceTyped ==
  /\ usage \in [VoiceSessions -> UsageRows] /\ voiceCredit \in 0..Credit /\ voiceConsent \in BOOLEAN
  /\ voiceReq \in [VoiceRequests -> VoiceWork]
  /\ charged \in [VoiceSessions -> Nat] /\ overwritten \subseteq VoiceSessions

\* What a session cost is in its row or was overwritten there when it was over;
\* nothing is charged before the provider gave a session.
SessionCharged(s) ==
  /\ usage[s].used <= charged[s] /\ charged[s] <= usage[s].allocated /\ usage[s].allocated <= Credit
  /\ s \notin overwritten => usage[s].used = charged[s]
  /\ s \in overwritten => usage[s].provider /\ usage[s].status \in {"ended", "cancelled"}
  /\ usage[s].status = "none" => usage[s] = NoUsage
  /\ usage[s].status \in {"active", "ended"} => usage[s].provider
  /\ ~usage[s].provider => charged[s] = 0

\* What a request may rely on: whoever starts a session is the only one that
\* has it, and the copy of one that ends is no further than the charges.
RequestKnows(c) ==
  LET s == c.session IN
  /\ c.at = "insert" => usage[s] = NoUsage /\ c.allocated <= Credit
  /\ c.at \in {"created", "activate"} => ~usage[s].provider /\ usage[s].status \in {"pending", "cancelled"}
  /\ c.at = "activate" => c.copy.used = 0 /\ c.copy.allocated = usage[s].allocated
  /\ c.at \in {"answer", "beat", "end"} => usage[s].provider
  /\ c.at = "end" =>
       c.copy.provider /\ c.copy.allocated = usage[s].allocated /\ c.copy.used <= charged[s]

Starting == {"insert", "created", "activate"}

VoiceInv ==
  /\ VoiceTyped
  /\ \A s \in VoiceSessions : SessionCharged(s)
  /\ \A r \in VoiceRequests, c \in SessionRequests : voiceReq[r] = c => RequestKnows(c)
  /\ \A r, q \in VoiceRequests :
       voiceReq[r].at \in Starting /\ voiceReq[q].at \in Starting
         /\ voiceReq[r].session = voiceReq[q].session => r = q

\* The fields of a request for a session.
LEMMA RequestIs ==
  ASSUME NEW c \in SessionRequests
  PROVE  /\ c.session \in VoiceSessions /\ c.at \in {"insert", "created", "answer", "beat", "activate", "end"}
         /\ c.at = "insert" => c \in InsertRequests /\ c.allocated \in 0..Ttl
         /\ c.at \in {"created", "answer", "beat"} => c \in NamedRequests
         /\ c.at \in {"activate", "end"} => c \in CopyRequests /\ c.copy \in UsageRows
BY DEF SessionRequests, InsertRequests, NamedRequests, CopyRequests

\* A request that is under way is free, revokes, or is for a session.
LEMMA WorkIs ==
  ASSUME VoiceTyped, NEW r \in VoiceRequests
  PROVE  /\ voiceReq[r].at \notin {"free", "revoke"} => voiceReq[r] \in SessionRequests
         /\ Free \in VoiceWork /\ Free.at = "free" /\ Free \notin SessionRequests
         /\ \A c \in RevokeRequests : c.at = "revoke" /\ c \notin SessionRequests
<1>1. Free.at = "free" /\ \A c \in RevokeRequests : c.at = "revoke"
  BY DEF Free, RevokeRequests
<1>2. Free \notin SessionRequests /\ \A c \in RevokeRequests : c \notin SessionRequests
  BY <1>1, RequestIs
<1> QED
  BY <1>1, <1>2 DEF VoiceTyped, VoiceWork

\* A row of which a request for its session may still rely on the same.
RowKeeps(s) ==
  /\ usage'[s].provider = usage[s].provider /\ usage'[s].allocated = usage[s].allocated
  /\ charged[s] <= charged'[s]
  /\ usage[s] = NoUsage => usage'[s] = NoUsage
  /\ ~usage[s].provider /\ usage[s].status \in {"pending", "cancelled"} =>
       usage'[s].status \in {"pending", "cancelled"}

\* One request goes on, and the rows keep what the others rely on.
LEMMA VoiceRequestMoves ==
  ASSUME VoiceInv, usage' \in [VoiceSessions -> UsageRows], voiceCredit' \in 0..Credit, voiceConsent' \in BOOLEAN,
         charged' \in [VoiceSessions -> Nat], overwritten' \subseteq VoiceSessions,
         \A s \in VoiceSessions : SessionCharged(s)',
         NEW r \in VoiceRequests, NEW c \in VoiceWork, Goes(r, c),
         \A q \in VoiceRequests \ {r}, d \in SessionRequests :
           voiceReq[q] = d => RowKeeps(d.session) \/ RequestKnows(d)',
         c \in SessionRequests => RequestKnows(c)',
         c.at \in Starting => \A q \in VoiceRequests \ {r} :
                                voiceReq[q].at \in Starting => voiceReq[q].session # c.session
  PROVE  VoiceInv'
<1>1. VoiceTyped /\ (\A q \in VoiceRequests, d \in SessionRequests : voiceReq[q] = d => RequestKnows(d))
  BY DEF VoiceInv
<1>2. voiceReq' = [voiceReq EXCEPT ![r] = c] /\ voiceReq \in [VoiceRequests -> VoiceWork]
  BY <1>1 DEF Goes, VoiceTyped
<1>3. voiceReq' \in [VoiceRequests -> VoiceWork] /\ voiceReq'[r] = c /\ \A q \in VoiceRequests \ {r} : voiceReq'[q] = voiceReq[q]
  BY <1>2
<1>4. VoiceTyped'
  BY <1>1, <1>3 DEF VoiceTyped
<1>5. ASSUME NEW q \in VoiceRequests, NEW d \in SessionRequests, voiceReq'[q] = d PROVE RequestKnows(d)'
  <2>1. CASE q = r
    BY <1>3, <1>5, <2>1
  <2>2. CASE q # r
    <3>1. voiceReq[q] = d /\ RequestKnows(d)
      BY <1>1, <1>3, <1>5, <2>2
    <3>2. CASE RowKeeps(d.session)
      <4>1. PICK s \in VoiceSessions : s = d.session
        BY RequestIs
      <4>2. charged[s] \in Nat /\ charged'[s] \in Nat /\ charged[s] <= charged'[s]
        BY <1>1, <3>2, <4>1 DEF RowKeeps, VoiceTyped
      <4>3. d.at = "end" => d.copy.used \in Nat
        BY RequestIs, VoiceAssumption DEF UsageRows
      <4>4. d.at = "end" => d.copy.used <= charged'[s]
        BY <3>1, <4>1, <4>2, <4>3 DEF RequestKnows
      <4> QED
        BY <3>1, <3>2, <4>1, <4>4 DEF RowKeeps, RequestKnows
    <3> QED
      BY <2>2, <3>1, <3>2
  <2> QED
    BY <2>1, <2>2
<1>6. ASSUME NEW q \in VoiceRequests, NEW p \in VoiceRequests,
             voiceReq'[q].at \in Starting, voiceReq'[p].at \in Starting, voiceReq'[q].session = voiceReq'[p].session
      PROVE  q = p
  BY <1>3, <1>6 DEF VoiceInv
<1>7. \A s \in VoiceSessions : SessionCharged(s)'
  OBVIOUS
<1>8. \A q \in VoiceRequests, d \in SessionRequests : voiceReq'[q] = d => RequestKnows(d)'
  BY <1>5
<1>9. \A q, p \in VoiceRequests :
        voiceReq'[q].at \in Starting /\ voiceReq'[p].at \in Starting
          /\ voiceReq'[q].session = voiceReq'[p].session => q = p
  BY <1>6
<1> QED
  BY <1>4, <1>7, <1>8, <1>9 DEF VoiceInv

\* Rows and charges stay as they are.
LEMMA QuietRequest ==
  ASSUME VoiceInv, UNCHANGED <<usage, voiceCredit, charged, overwritten>>, voiceConsent' \in BOOLEAN,
         NEW r \in VoiceRequests, NEW c \in VoiceWork, Goes(r, c),
         c \in SessionRequests => RequestKnows(c),
         c.at \in Starting => voiceReq[r].at \in Starting /\ c.session = voiceReq[r].session
  PROVE  VoiceInv'
<1>1. VoiceTyped /\ \A s \in VoiceSessions : SessionCharged(s)
  BY DEF VoiceInv
<1>2. \A s \in VoiceSessions : SessionCharged(s)'
  BY <1>1 DEF SessionCharged
<1>3. \A s \in VoiceSessions : RowKeeps(s)
  BY <1>1 DEF RowKeeps, VoiceTyped
<1>4. \A q \in VoiceRequests \ {r}, d \in SessionRequests : voiceReq[q] = d => RowKeeps(d.session) \/ RequestKnows(d)'
  BY <1>3, RequestIs
<1>5. c \in SessionRequests => RequestKnows(c)'
  BY DEF RequestKnows
<1>6. c.at \in Starting => \A q \in VoiceRequests \ {r} :
                                voiceReq[q].at \in Starting => voiceReq[q].session # c.session
  BY DEF VoiceInv
<1>7. /\ usage' \in [VoiceSessions -> UsageRows] /\ voiceCredit' \in 0..Credit
      /\ charged' \in [VoiceSessions -> Nat] /\ overwritten' \subseteq VoiceSessions
  BY <1>1 DEF VoiceTyped
<1> QED
  BY <1>2, <1>4, <1>5, <1>6, <1>7, VoiceRequestMoves

\* Numbers of a row.
LEMMA RowNumbers ==
  ASSUME VoiceTyped, NEW s \in VoiceSessions
  PROVE  /\ usage[s] \in UsageRows /\ usage[s].used \in Nat /\ usage[s].allocated \in Nat
         /\ usage[s].used \in 0..Ttl /\ usage[s].allocated \in 0..Ttl /\ charged[s] \in Nat
         /\ Credit \in Nat /\ Ttl \in Nat /\ voiceCredit \in Nat /\ voiceCredit <= Credit
<1>1. Credit \in Nat /\ Ttl \in Nat
  BY VoiceAssumption
<1>2. usage[s] \in UsageRows /\ charged[s] \in Nat
  BY DEF VoiceTyped
<1>3. usage[s].used \in 0..Ttl /\ usage[s].allocated \in 0..Ttl
  BY <1>2 DEF UsageRows
<1> QED
  BY <1>1, <1>2, <1>3 DEF VoiceTyped

\* A row that changes in its status only.
LEMMA StatusOnly ==
  ASSUME VoiceInv, NEW s \in VoiceSessions, usage'[s] \in UsageRows,
         usage'[s].provider = usage[s].provider, usage'[s].allocated = usage[s].allocated,
         usage'[s].used = usage[s].used, charged'[s] = charged[s], s \in overwritten' <=> s \in overwritten,
         \/ usage'[s].status = usage[s].status /\ (usage[s] = NoUsage => usage'[s] = NoUsage)
         \/ usage'[s].status = "ended" /\ usage[s].provider
         \/ usage'[s].status = "cancelled" /\ usage[s].status # "none"
  PROVE  SessionCharged(s)' /\ RowKeeps(s)
<1>1. SessionCharged(s) /\ VoiceTyped
  BY DEF VoiceInv
<1>2. charged[s] \in Nat
  BY <1>1, RowNumbers
<1>3. NoUsage.status = "none"
  BY DEF NoUsage
<1>4. SessionCharged(s)'
  BY <1>1, <1>3 DEF SessionCharged
<1>5. RowKeeps(s)
  <2>1. ~usage[s].provider /\ usage[s].status \in {"pending", "cancelled"} =>
          usage'[s].status \in {"pending", "cancelled"}
    OBVIOUS
  <2>2. usage[s] = NoUsage => usage'[s] = NoUsage
    BY <1>3, <1>1 DEF SessionCharged, NoUsage
  <2> QED
    BY <1>2, <2>1, <2>2 DEF RowKeeps
<1> QED
  BY <1>4, <1>5

\* A session begins; stale ones expire.
LEMMA BeginVoiceInv ==
  ASSUME VoiceInv, NEW r \in VoiceRequests, NEW s \in VoiceSessions, BeginVoiceSession(r, s) PROVE VoiceInv'
<1>1. VoiceTyped /\ \A t \in VoiceSessions : SessionCharged(t)
  BY DEF VoiceInv
<1>2. UNCHANGED <<voiceCredit, voiceConsent, charged, overwritten>> /\ usage' = [t \in VoiceSessions |-> Expired(t)]
  BY DEF BeginVoiceSession
<1>3. ASSUME NEW t \in VoiceSessions PROVE usage'[t] \in UsageRows /\ SessionCharged(t)' /\ RowKeeps(t)
  <2>1. usage[t] \in UsageRows
    BY <1>1 DEF VoiceTyped
  <2>2. /\ Expired(t) \in UsageRows /\ Expired(t).provider = usage[t].provider
        /\ Expired(t).allocated = usage[t].allocated /\ Expired(t).used = usage[t].used
        /\ \/ Expired(t) = usage[t]
           \/ Expired(t).status = "ended" /\ usage[t].status = "active"
           \/ Expired(t).status = "cancelled" /\ usage[t].status = "pending"
    BY <2>1 DEF Expired, UsageRows
  <2>3. usage[t].status = "active" => usage[t].provider
    BY <1>1 DEF SessionCharged
  <2>4. usage'[t] = Expired(t)
    BY <1>2
  <2> QED
    BY <1>2, <2>2, <2>3, <2>4, StatusOnly
<1>4. PICK c \in VoiceWork :
        /\ Goes(r, c)
        /\ c.at = "free" \/ (c.at = "insert" /\ c.session = s /\ c.allocated \in Nat /\ c.allocated <= Credit)
  <2>1. CASE voiceCredit = 0
    BY <1>1, <2>1, WorkIs DEF BeginVoiceSession
  <2>2. CASE voiceCredit # 0
    <3> DEFINE c == [at |-> "insert", session |-> s, allocated |-> Least(Ttl, voiceCredit)]
    <3>1. Least(Ttl, voiceCredit) \in 0..Ttl /\ Least(Ttl, voiceCredit) <= Credit
      BY <1>1, RowNumbers DEF Least
    <3>2. c \in InsertRequests
      BY <3>1 DEF InsertRequests
    <3>3. Goes(r, c)
      BY <2>2 DEF BeginVoiceSession
    <3>4. c \in VoiceWork /\ c.at = "insert" /\ c.session = s /\ c.allocated \in Nat /\ c.allocated <= Credit
      BY <3>1, <3>2, RowNumbers DEF VoiceWork, SessionRequests
    <3> HIDE DEF c
    <3> QED
      BY <3>3, <3>4
  <2> QED
    BY <2>1, <2>2
<1>5. usage[s] = NoUsage /\ \A q \in VoiceRequests : voiceReq[q].at = "insert" => voiceReq[q].session # s
  BY DEF BeginVoiceSession
<1>6. usage'[s] = NoUsage
  BY <1>3, <1>5 DEF RowKeeps
<1>7. c \in SessionRequests => RequestKnows(c)'
  BY <1>4, <1>6 DEF RequestKnows
<1>8. ASSUME NEW q \in VoiceRequests, voiceReq[q].at \in Starting PROVE voiceReq[q].session # s
  <2>1. NoUsage.status = "none"
    BY DEF NoUsage
  <2>2. CASE voiceReq[q].at = "insert"
    BY <1>5, <2>2
  <2>3. CASE voiceReq[q].at # "insert"
    <3>1. PICK d \in SessionRequests : d = voiceReq[q] /\ d.at \in {"created", "activate"} /\ RequestKnows(d)
      BY <1>1, <1>8, <2>3, WorkIs DEF Starting, VoiceInv
    <3> QED
      BY <1>5, <2>1, <3>1 DEF RequestKnows
  <2> QED
    BY <2>2, <2>3
<1>9. c.at \in Starting => \A q \in VoiceRequests \ {r} : voiceReq[q].at \in Starting => voiceReq[q].session # c.session
  BY <1>4, <1>8 DEF Starting
<1>10. \A q \in VoiceRequests \ {r}, d \in SessionRequests : voiceReq[q] = d => RowKeeps(d.session) \/ RequestKnows(d)'
  BY <1>3, RequestIs
<1>11. usage' \in [VoiceSessions -> UsageRows]
  BY <1>2, <1>3
<1>12. /\ voiceCredit' \in 0..Credit /\ voiceConsent' \in BOOLEAN
       /\ charged' \in [VoiceSessions -> Nat] /\ overwritten' \subseteq VoiceSessions
       /\ \A t \in VoiceSessions : SessionCharged(t)'
  BY <1>1, <1>2, <1>3 DEF VoiceTyped
<1> QED
  BY <1>4, <1>7, <1>9, <1>10, <1>11, <1>12, VoiceRequestMoves

\* What one request does to the row of its session.
LEMMA RowMoves ==
  ASSUME VoiceInv, NEW s \in VoiceSessions, NEW row \in UsageRows, usage' = [usage EXCEPT ![s] = row],
         voiceCredit' \in 0..Credit, voiceConsent' = voiceConsent,
         charged' \in [VoiceSessions -> Nat], \A t \in VoiceSessions \ {s} : charged'[t] = charged[t],
         overwritten' \subseteq VoiceSessions, \A t \in VoiceSessions \ {s} : t \in overwritten' <=> t \in overwritten,
         SessionCharged(s)',
         NEW r \in VoiceRequests, NEW c \in VoiceWork, Goes(r, c),
         \A q \in VoiceRequests \ {r}, d \in SessionRequests :
           voiceReq[q] = d /\ d.session = s => RowKeeps(s) \/ RequestKnows(d)',
         c \in SessionRequests => RequestKnows(c)',
         c.at \in Starting => voiceReq[r].at \in Starting /\ c.session = voiceReq[r].session
  PROVE  VoiceInv'
<1>1. VoiceTyped /\ \A t \in VoiceSessions : SessionCharged(t)
  BY DEF VoiceInv
<1>2. usage' \in [VoiceSessions -> UsageRows] /\ \A t \in VoiceSessions \ {s} : usage'[t] = usage[t]
  BY <1>1 DEF VoiceTyped
<1>3. ASSUME NEW t \in VoiceSessions PROVE SessionCharged(t)'
  BY <1>1, <1>2 DEF SessionCharged
<1>4. ASSUME NEW t \in VoiceSessions \ {s} PROVE RowKeeps(t)
  BY <1>1, <1>2, RowNumbers DEF RowKeeps
<1>5. \A q \in VoiceRequests \ {r}, d \in SessionRequests : voiceReq[q] = d => RowKeeps(d.session) \/ RequestKnows(d)'
  BY <1>4, RequestIs
<1>6. c.at \in Starting => \A q \in VoiceRequests \ {r} :
                                voiceReq[q].at \in Starting => voiceReq[q].session # c.session
  BY DEF VoiceInv
<1>7. voiceConsent' \in BOOLEAN /\ \A t \in VoiceSessions : SessionCharged(t)'
  BY <1>1, <1>3 DEF VoiceTyped
<1> QED
  BY <1>2, <1>5, <1>6, <1>7, VoiceRequestMoves

\* A request for a session and what it knows.
LEMMA InSession ==
  ASSUME VoiceInv, NEW r \in VoiceRequests, voiceReq[r].at \notin {"free", "revoke"}
  PROVE  \E c \in SessionRequests, s \in VoiceSessions : c = voiceReq[r] /\ s = c.session /\ RequestKnows(c)
BY WorkIs, RequestIs DEF VoiceInv

\* Requests with less to say.
LEMMA NamedIs ==
  ASSUME NEW at \in {"created", "answer", "beat"}, NEW s \in VoiceSessions
  PROVE  \E c \in SessionRequests : c = [at |-> at, session |-> s] /\ c.at = at /\ c.session = s /\ c \in VoiceWork
<1> DEFINE c == [at |-> at, session |-> s]
<1>1. c \in NamedRequests /\ c.at = at /\ c.session = s
  BY DEF NamedRequests
<1> HIDE DEF c
<1> QED
  BY <1>1 DEF SessionRequests, VoiceWork, c

LEMMA CopyIs ==
  ASSUME NEW at \in {"activate", "end"}, NEW s \in VoiceSessions, NEW row \in UsageRows
  PROVE  \E c \in SessionRequests : /\ c = [at |-> at, session |-> s, copy |-> row]
                                    /\ c.at = at /\ c.session = s /\ c.copy = row /\ c \in VoiceWork
<1> DEFINE c == [at |-> at, session |-> s, copy |-> row]
<1>1. c \in CopyRequests /\ c.at = at /\ c.session = s /\ c.copy = row
  BY DEF CopyRequests
<1> HIDE DEF c
<1> QED
  BY <1>1 DEF SessionRequests, VoiceWork, c

\* Steps that leave rows and charges alone.
LEMMA QuietVoiceInv ==
  ASSUME VoiceInv, NEW r \in VoiceRequests,
         \/ ActivateRead(r) \/ Answered(r) \/ WithdrawVoiceConsent(r) \/ RevocationFails(r)
         \/ \E s \in VoiceSessions : EndRead(r, s) \/ HeartbeatArrives(r, s)
  PROVE  VoiceInv'
<1>t. VoiceTyped /\ \A s \in VoiceSessions : SessionCharged(s)
  BY DEF VoiceInv
<1>f. Free \in VoiceWork /\ Free.at = "free" /\ Free \notin SessionRequests
  BY <1>t, WorkIs
<1>1. CASE ActivateRead(r)
  <2>1. PICK d \in SessionRequests, s \in VoiceSessions : d = voiceReq[r] /\ s = d.session /\ RequestKnows(d) /\ d.at = "created"
    BY <1>1, InSession DEF ActivateRead
  <2>2. usage[s] \in UsageRows
    BY <1>t DEF VoiceTyped
  <2>3. PICK c \in SessionRequests : /\ c = [at |-> "activate", session |-> s, copy |-> usage[s]]
                                     /\ c.at = "activate" /\ c.session = s /\ c.copy = usage[s] /\ c \in VoiceWork
    BY <2>2, CopyIs
  <2>4. Goes(r, c) /\ UNCHANGED <<usage, voiceCredit, charged, overwritten>> /\ voiceConsent' \in BOOLEAN
    BY <1>t, <1>1, <2>1, <2>3 DEF ActivateRead, VoiceTyped
  <2>5. ~usage[s].provider /\ usage[s].status \in {"pending", "cancelled"}
    BY <2>1 DEF RequestKnows
  <2>6. usage[s].used = 0
    <3>1. charged[s] = 0 /\ usage[s].used <= charged[s] /\ usage[s].used \in Nat
      BY <1>t, <2>5, RowNumbers DEF SessionCharged
    <3> QED
      BY <3>1
  <2>7. RequestKnows(c)
    BY <2>3, <2>5, <2>6 DEF RequestKnows
  <2>8. c.at \in Starting => voiceReq[r].at \in Starting /\ c.session = voiceReq[r].session
    BY <2>1, <2>3 DEF Starting
  <2> QED
    BY <2>3, <2>4, <2>7, <2>8, QuietRequest
<1>2. CASE Answered(r) \/ RevocationFails(r)
  <2>1. Goes(r, Free) /\ UNCHANGED <<usage, voiceCredit, charged, overwritten>> /\ voiceConsent' \in BOOLEAN
    BY <1>t, <1>2 DEF Answered, RevocationFails, VoiceTyped
  <2>2. Free.at \notin Starting
    BY <1>f DEF Starting
  <2> QED
    BY <1>f, <2>1, <2>2, QuietRequest
<1>3. CASE WithdrawVoiceConsent(r)
  <2>1. PICK c \in VoiceWork : c = [at |-> "revoke"] /\ c.at = "revoke" /\ c \notin SessionRequests
    <3>1. [at |-> "revoke"] \in RevokeRequests
      BY DEF RevokeRequests
    <3> QED
      BY <1>t, <3>1, WorkIs DEF VoiceWork
  <2>2. Goes(r, c) /\ UNCHANGED <<usage, voiceCredit, charged, overwritten>> /\ voiceConsent' \in BOOLEAN
    BY <1>3, <2>1 DEF WithdrawVoiceConsent
  <2>3. c.at \notin Starting
    BY <2>1 DEF Starting
  <2> QED
    BY <2>1, <2>2, <2>3, QuietRequest
<1>4. ASSUME NEW s \in VoiceSessions, EndRead(r, s) PROVE VoiceInv'
  <2>2. usage[s] \in UsageRows
    BY <1>t DEF VoiceTyped
  <2>3. PICK c \in SessionRequests : /\ c = [at |-> "end", session |-> s, copy |-> usage[s]]
                                     /\ c.at = "end" /\ c.session = s /\ c.copy = usage[s] /\ c \in VoiceWork
    BY <2>2, CopyIs
  <2>4. /\ Goes(r, c) /\ UNCHANGED <<usage, voiceCredit, charged, overwritten>> /\ voiceConsent' \in BOOLEAN
        /\ usage[s].provider
    BY <1>t, <1>4, <2>3 DEF EndRead, VoiceTyped
  <2>5. RequestKnows(c)
    BY <1>t, <2>3, <2>4 DEF RequestKnows, SessionCharged
  <2>6. c.at \notin Starting
    BY <2>3 DEF Starting
  <2> QED
    BY <2>3, <2>4, <2>5, <2>6, QuietRequest
<1>5. ASSUME NEW s \in VoiceSessions, HeartbeatArrives(r, s) PROVE VoiceInv'
  <2>3. PICK c \in SessionRequests : c = [at |-> "beat", session |-> s] /\ c.at = "beat" /\ c.session = s /\ c \in VoiceWork
    BY NamedIs
  <2>4. /\ Goes(r, c) /\ UNCHANGED <<usage, voiceCredit, charged, overwritten>> /\ voiceConsent' \in BOOLEAN
        /\ usage[s].provider
    BY <1>t, <1>5, <2>3 DEF HeartbeatArrives, VoiceTyped
  <2>5. RequestKnows(c)
    BY <2>3, <2>4 DEF RequestKnows
  <2>6. c.at \notin Starting
    BY <2>3 DEF Starting
  <2> QED
    BY <2>3, <2>4, <2>5, <2>6, QuietRequest
<1> QED
  BY <1>1, <1>2, <1>3, <1>4, <1>5

\* The session is inserted.
LEMMA InsertVoiceInv == ASSUME VoiceInv, NEW r \in VoiceRequests, InsertVoiceSession(r) PROVE VoiceInv'
<1>t. VoiceTyped /\ \A s \in VoiceSessions : SessionCharged(s)
  BY DEF VoiceInv
<1>1. PICK d \in SessionRequests, s \in VoiceSessions :
        d = voiceReq[r] /\ s = d.session /\ RequestKnows(d) /\ d.at = "insert" /\ d.allocated \in 0..Ttl
  BY InSession, RequestIs DEF InsertVoiceSession
<1>2. usage[s] = NoUsage /\ d.allocated <= Credit
  BY <1>1 DEF RequestKnows
<1>3. PICK row \in UsageRows :
        /\ row = [NoUsage EXCEPT !.status = "pending", !.allocated = d.allocated]
        /\ row.status = "pending" /\ row.allocated = d.allocated /\ row.used = 0 /\ row.provider = FALSE
  <2> DEFINE row == [NoUsage EXCEPT !.status = "pending", !.allocated = d.allocated]
  <2>0. 0 \in 0..Ttl
    BY VoiceAssumption
  <2>1. NoUsage \in UsageRows /\ NoUsage.used = 0 /\ NoUsage.provider = FALSE
    BY <2>0 DEF NoUsage, UsageRows
  <2>2. /\ row \in UsageRows
        /\ row.status = "pending" /\ row.allocated = d.allocated /\ row.used = 0 /\ row.provider = FALSE
    BY <1>1, <2>1 DEF UsageRows
  <2> HIDE DEF row
  <2> QED
    BY <2>2 DEF row
<1>4. PICK c \in SessionRequests : c = [at |-> "created", session |-> s] /\ c.at = "created" /\ c.session = s /\ c \in VoiceWork
  BY NamedIs
<1>5. /\ usage' = [usage EXCEPT ![s] = row] /\ Goes(r, c)
      /\ UNCHANGED <<voiceCredit, voiceConsent, charged, overwritten>>
  BY <1>1, <1>3, <1>4 DEF InsertVoiceSession
<1>6. usage'[s] = row
  BY <1>t, <1>5 DEF VoiceTyped
<1>7. charged[s] = 0 /\ s \notin overwritten
  BY <1>t, <1>2 DEF SessionCharged, NoUsage
<1>8. SessionCharged(s)'
  <2>1. d.allocated \in Nat /\ charged'[s] = 0 /\ s \notin overwritten'
    BY <1>1, <1>5, <1>7, VoiceAssumption
  <2> QED
    BY <1>2, <1>3, <1>6, <2>1 DEF SessionCharged
<1>9. ASSUME NEW q \in VoiceRequests \ {r}, NEW e \in SessionRequests, voiceReq[q] = e, e.session = s
      PROVE  RequestKnows(e)'
  <2>1. e.at \notin Starting
    BY <1>1, <1>9 DEF VoiceInv, Starting
  <2>2. RequestKnows(e) /\ e.at \in {"insert", "created", "answer", "beat", "activate", "end"}
    BY <1>9, RequestIs DEF VoiceInv
  <2>3. FALSE
    BY <1>2, <1>9, <2>1, <2>2 DEF RequestKnows, NoUsage, Starting
  <2> QED
    BY <2>3
<1>10. RequestKnows(c)'
  BY <1>3, <1>4, <1>6 DEF RequestKnows
<1>11. c.at \in Starting => voiceReq[r].at \in Starting /\ c.session = voiceReq[r].session
  BY <1>1, <1>4 DEF Starting
<1>12. voiceCredit' \in 0..Credit /\ charged' \in [VoiceSessions -> Nat] /\ overwritten' \subseteq VoiceSessions
  BY <1>t, <1>5 DEF VoiceTyped
<1>13. \A q \in VoiceRequests \ {r}, e \in SessionRequests :
         voiceReq[q] = e /\ e.session = s => RowKeeps(s) \/ RequestKnows(e)'
  BY <1>9
<1>14. \A t \in VoiceSessions \ {s} : charged'[t] = charged[t] /\ (t \in overwritten' <=> t \in overwritten)
  BY <1>5
<1> QED
  BY <1>4, <1>5, <1>8, <1>10, <1>11, <1>12, <1>13, <1>14, RowMoves

\* The copy of a session that starts is saved.
LEMMA ActivateSaveInv == ASSUME VoiceInv, NEW r \in VoiceRequests, ActivateSave(r) PROVE VoiceInv'
<1>t. VoiceTyped /\ \A s \in VoiceSessions : SessionCharged(s)
  BY DEF VoiceInv
<1>1. PICK d \in SessionRequests, s \in VoiceSessions :
        d = voiceReq[r] /\ s = d.session /\ RequestKnows(d) /\ d.at = "activate" /\ d.copy \in UsageRows
  BY InSession, RequestIs DEF ActivateSave
<1>2. ~usage[s].provider /\ d.copy.used = 0 /\ d.copy.allocated = usage[s].allocated
  BY <1>1 DEF RequestKnows
<1>3. PICK row \in UsageRows :
        /\ row = [d.copy EXCEPT !.status = "active", !.provider = TRUE, !.old = usage[s].old]
        /\ row.status = "active" /\ row.allocated = usage[s].allocated /\ row.used = 0 /\ row.provider = TRUE
  <2> DEFINE row == [d.copy EXCEPT !.status = "active", !.provider = TRUE, !.old = usage[s].old]
  <2>0. usage[s] \in UsageRows
    BY <1>t DEF VoiceTyped
  <2>1. /\ row \in UsageRows
        /\ row.status = "active" /\ row.allocated = usage[s].allocated /\ row.used = 0 /\ row.provider = TRUE
    BY <1>1, <1>2, <2>0 DEF UsageRows
  <2> HIDE DEF row
  <2> QED
    BY <2>1 DEF row
<1>4. PICK c \in SessionRequests : c = [at |-> "answer", session |-> s] /\ c.at = "answer" /\ c.session = s /\ c \in VoiceWork
  BY NamedIs
<1>5. /\ usage' = [usage EXCEPT ![s] = row] /\ Goes(r, c)
      /\ UNCHANGED <<voiceCredit, voiceConsent, charged, overwritten>>
  BY <1>1, <1>3, <1>4 DEF ActivateSave
<1>6. usage'[s] = row
  BY <1>t, <1>5 DEF VoiceTyped
<1>7. charged[s] = 0 /\ s \notin overwritten
  BY <1>t, <1>2 DEF SessionCharged
<1>8. SessionCharged(s)'
  BY <1>t, <1>3, <1>5, <1>6, <1>7 DEF SessionCharged
<1>9. ASSUME NEW q \in VoiceRequests \ {r}, NEW e \in SessionRequests, voiceReq[q] = e, e.session = s
      PROVE  RequestKnows(e)'
  <2>1. e.at \notin Starting
    BY <1>1, <1>9 DEF VoiceInv, Starting
  <2>2. RequestKnows(e) /\ e.at \in {"insert", "created", "answer", "beat", "activate", "end"}
    BY <1>9, RequestIs DEF VoiceInv
  <2>3. FALSE
    BY <1>2, <1>9, <2>1, <2>2 DEF RequestKnows, Starting
  <2> QED
    BY <2>3
<1>10. RequestKnows(c)'
  BY <1>3, <1>4, <1>6 DEF RequestKnows
<1>11. c.at \notin Starting
  BY <1>4 DEF Starting
<1>12. voiceCredit' \in 0..Credit /\ charged' \in [VoiceSessions -> Nat] /\ overwritten' \subseteq VoiceSessions
  BY <1>t, <1>5 DEF VoiceTyped
<1>13. \A q \in VoiceRequests \ {r}, e \in SessionRequests :
         voiceReq[q] = e /\ e.session = s => RowKeeps(s) \/ RequestKnows(e)'
  BY <1>9
<1>14. \A t \in VoiceSessions \ {s} : charged'[t] = charged[t] /\ (t \in overwritten' <=> t \in overwritten)
  BY <1>5
<1> QED
  BY <1>4, <1>5, <1>8, <1>10, <1>11, <1>12, <1>13, <1>14, RowMoves

\* The start fails.
LEMMA StartFailsInv == ASSUME VoiceInv, NEW r \in VoiceRequests, StartFails(r) PROVE VoiceInv'
<1>t. VoiceTyped /\ \A s \in VoiceSessions : SessionCharged(s)
  BY DEF VoiceInv
<1>1. PICK d \in SessionRequests, s \in VoiceSessions :
        d = voiceReq[r] /\ s = d.session /\ RequestKnows(d) /\ d.at \in {"created", "answer"}
  BY InSession DEF StartFails
<1>2. usage[s].status # "none"
  BY <1>t, <1>1 DEF RequestKnows, SessionCharged, NoUsage
<1>3. PICK row \in UsageRows :
        /\ row = [usage[s] EXCEPT !.status = "cancelled"] /\ row.status = "cancelled"
        /\ row.allocated = usage[s].allocated /\ row.used = usage[s].used /\ row.provider = usage[s].provider
  <2> DEFINE row == [usage[s] EXCEPT !.status = "cancelled"]
  <2>0. usage[s] \in UsageRows
    BY <1>t DEF VoiceTyped
  <2>1. /\ row \in UsageRows /\ row.status = "cancelled"
        /\ row.allocated = usage[s].allocated /\ row.used = usage[s].used /\ row.provider = usage[s].provider
    BY <2>0 DEF UsageRows
  <2> HIDE DEF row
  <2> QED
    BY <2>1 DEF row
<1>4. Free \in VoiceWork /\ Free.at = "free" /\ Free \notin SessionRequests
  BY <1>t, WorkIs
<1>5. /\ usage' = [usage EXCEPT ![s] = row] /\ Goes(r, Free)
      /\ UNCHANGED <<voiceCredit, voiceConsent, charged, overwritten>>
  BY <1>1, <1>3 DEF StartFails
<1>6. usage'[s] = row
  BY <1>t, <1>5 DEF VoiceTyped
<1>7. SessionCharged(s)' /\ RowKeeps(s)
  BY <1>2, <1>3, <1>5, <1>6, StatusOnly
<1>8. Free.at \notin Starting
  BY <1>4 DEF Starting
<1>9. voiceCredit' \in 0..Credit /\ charged' \in [VoiceSessions -> Nat] /\ overwritten' \subseteq VoiceSessions
  BY <1>t, <1>5 DEF VoiceTyped
<1> QED
  BY <1>4, <1>5, <1>7, <1>8, <1>9, RowMoves

\* A session ends with the copy that was read.
LEMMA EndSaveInv == ASSUME VoiceInv, NEW r \in VoiceRequests, EndSave(r) PROVE VoiceInv'
<1>t. VoiceTyped /\ \A s \in VoiceSessions : SessionCharged(s)
  BY DEF VoiceInv
<1>1. PICK d \in SessionRequests, s \in VoiceSessions :
        d = voiceReq[r] /\ s = d.session /\ RequestKnows(d) /\ d.at = "end" /\ d.copy \in UsageRows
  BY InSession, RequestIs DEF EndSave
<1>2. usage[s].provider = TRUE /\ d.copy.provider = TRUE /\ d.copy.allocated = usage[s].allocated /\ d.copy.used <= charged[s]
  <2>1. usage[s].provider \in BOOLEAN /\ d.copy.provider \in BOOLEAN
    BY <1>t, <1>1 DEF VoiceTyped, UsageRows
  <2> QED
    BY <1>1, <2>1 DEF RequestKnows
<1>3. PICK row \in UsageRows :
        /\ row = EndedCopy(r) /\ row.status = "ended" /\ row.allocated = usage[s].allocated
        /\ row.used = d.copy.used /\ row.provider = TRUE /\ row.used \in Nat
  <2> DEFINE row == [d.copy EXCEPT !.status = "ended", !.old = usage[s].old]
  <2>0. usage[s] \in UsageRows /\ Ttl \in Nat
    BY <1>t, RowNumbers DEF VoiceTyped
  <2>1. /\ row \in UsageRows /\ row.status = "ended" /\ row.allocated = usage[s].allocated
        /\ row.used = d.copy.used /\ row.provider = TRUE /\ row.used \in 0..Ttl
    BY <1>1, <1>2, <2>0 DEF UsageRows
  <2>2. row = EndedCopy(r)
    BY <1>1 DEF EndedCopy
  <2> HIDE DEF row
  <2>3. row.used \in Nat
    BY <2>0, <2>1
  <2> QED
    BY <2>1, <2>2, <2>3
<1>4. Free \in VoiceWork /\ Free.at = "free" /\ Free \notin SessionRequests
  BY <1>t, WorkIs
<1>5. /\ usage' = [usage EXCEPT ![s] = row] /\ Goes(r, Free)
      /\ overwritten' = IF row.used < usage[s].used THEN overwritten \union {s} ELSE overwritten
      /\ UNCHANGED <<voiceCredit, voiceConsent, charged>>
  BY <1>1, <1>3 DEF EndSave
<1>6. usage'[s] = row
  BY <1>t, <1>5 DEF VoiceTyped
<1>7. SessionCharged(s)' /\ RowKeeps(s)
  <2>1. /\ usage[s].used \in Nat /\ charged[s] \in Nat /\ usage[s].allocated \in Nat /\ Credit \in Nat
        /\ SessionCharged(s)
    BY <1>t, RowNumbers
  <2>2. charged'[s] = charged[s] /\ row.used <= charged[s]
    BY <1>2, <1>3, <1>5
  <2>3. s \notin overwritten' => row.used = charged[s]
    BY <1>3, <1>5, <2>1, <2>2 DEF SessionCharged
  <2>4. SessionCharged(s)'
    BY <1>2, <1>3, <1>6, <2>1, <2>2, <2>3 DEF SessionCharged
  <2>5. RowKeeps(s)
    <3>1. usage[s] # NoUsage
      BY <1>2 DEF NoUsage
    <3>2. charged[s] <= charged'[s]
      BY <2>1, <2>2
    <3>3. usage'[s].provider = TRUE /\ usage'[s].allocated = usage[s].allocated
      BY <1>3, <1>6
    <3> QED
      BY <1>2, <3>1, <3>2, <3>3 DEF RowKeeps
  <2> QED
    BY <2>4, <2>5
<1>8. Free.at \notin Starting
  BY <1>4 DEF Starting
<1>9. /\ voiceCredit' \in 0..Credit /\ charged' \in [VoiceSessions -> Nat] /\ overwritten' \subseteq VoiceSessions
      /\ \A t \in VoiceSessions \ {s} : charged'[t] = charged[t] /\ (t \in overwritten' <=> t \in overwritten)
  BY <1>t, <1>5 DEF VoiceTyped
<1> QED
  BY <1>4, <1>5, <1>7, <1>8, <1>9, RowMoves

\* A heartbeat is charged, or not.
LEMMA HeartbeatInv ==
  ASSUME VoiceInv, NEW r \in VoiceRequests, NEW elapsed \in 0..MaxCharge, VoiceHeartbeat(r, elapsed) PROVE VoiceInv'
<1>t. VoiceTyped /\ \A s \in VoiceSessions : SessionCharged(s)
  BY DEF VoiceInv
<1>1. PICK d \in SessionRequests, s \in VoiceSessions :
        d = voiceReq[r] /\ s = d.session /\ RequestKnows(d) /\ d.at = "beat"
  BY InSession DEF VoiceHeartbeat
<1>f. Free \in VoiceWork /\ Free.at = "free" /\ Free \notin SessionRequests /\ Free.at \notin Starting
  BY <1>t, WorkIs DEF Starting
<1>2. Goes(r, Free) /\ UNCHANGED <<voiceConsent, overwritten>>
  BY DEF VoiceHeartbeat
<1>3. CASE UNCHANGED <<usage, voiceCredit, charged>>
  <2>1. voiceConsent' \in BOOLEAN
    BY <1>t, <1>2 DEF VoiceTyped
  <2> QED
    BY <1>f, <1>2, <1>3, <2>1, QuietRequest
<1>4. CASE ~ UNCHANGED <<usage, voiceCredit, charged>>
  <2>n. /\ usage[s] \in UsageRows /\ usage[s].used \in Nat /\ usage[s].allocated \in Nat
        /\ usage[s].used \in 0..Ttl /\ usage[s].allocated \in 0..Ttl /\ charged[s] \in Nat
        /\ Credit \in Nat /\ Ttl \in Nat /\ voiceCredit \in Nat /\ voiceCredit <= Credit
    BY <1>t, RowNumbers
  <2>1. PICK cost : cost = (IF usage[s].beat = "none" THEN 0 ELSE Charge(s, elapsed))
    OBVIOUS
  <2>2. /\ usage[s].status = "active" /\ ~(cost > voiceCredit)
        /\ usage' = [usage EXCEPT ![s] =
                       [usage[s] EXCEPT !.used = @ + cost, !.beat = "fresh",
                                 !.status = IF usage[s].allocated - (usage[s].used + cost) = 0 THEN "ended" ELSE @]]
        /\ voiceCredit' = voiceCredit - cost
        /\ charged' = [charged EXCEPT ![s] = @ + cost]
    BY <1>1, <1>4, <2>1 DEF VoiceHeartbeat, IsMetered
  <2>3. usage[s].used = charged[s] /\ s \notin overwritten /\ usage[s].provider = TRUE /\ usage[s].used <= usage[s].allocated
        /\ usage[s].allocated <= Credit
    <3>1. usage[s].provider \in BOOLEAN
      BY <2>n DEF UsageRows
    <3> QED
      BY <1>t, <2>2, <3>1 DEF SessionCharged
  <2>4. cost \in Nat /\ usage[s].used + cost <= usage[s].allocated
    <3>1. elapsed \in Nat
      BY DEF MaxCharge
    <3>2. Remaining(s) \in Nat /\ usage[s].used + Remaining(s) = usage[s].allocated
      BY <2>n, <2>3 DEF Remaining
    <3>3. Charge(s, elapsed) \in Nat /\ Charge(s, elapsed) <= Remaining(s)
      BY <3>1, <3>2 DEF Charge, Least
    <3> QED
      BY <2>n, <2>1, <2>3, <3>2, <3>3
  <2>5. usage[s].used + cost \in 0..Ttl
    BY <2>n, <2>4
  <2>6. PICK row \in UsageRows :
          /\ usage' = [usage EXCEPT ![s] = row] /\ row.used = usage[s].used + cost
          /\ row.status \in {"active", "ended"} /\ row.allocated = usage[s].allocated /\ row.provider = usage[s].provider
    <3> DEFINE used == usage[s].used + cost
               left == IF usage[s].allocated - used = 0 THEN "ended" ELSE usage[s].status
    <3>1. usage'[s] = [usage[s] EXCEPT !.used = used, !.beat = "fresh", !.status = left]
      BY <1>t, <2>2 DEF VoiceTyped
    <3>2. left \in {"active", "ended"} /\ used \in 0..Ttl
      BY <2>2, <2>5
    <3> HIDE DEF left, used
    <3>4. /\ usage'[s] \in UsageRows /\ usage'[s].used = used
          /\ usage'[s].status \in {"active", "ended"} /\ usage'[s].allocated = usage[s].allocated
          /\ usage'[s].provider = usage[s].provider
      BY <2>n, <3>1, <3>2 DEF UsageRows
    <3>3. usage' = [usage EXCEPT ![s] = usage'[s]]
      BY <1>t, <2>2 DEF VoiceTyped
    <3> QED
      BY <3>3, <3>4 DEF used
  <2>7. usage'[s] = row /\ charged'[s] = charged[s] + cost
    BY <1>t, <2>2, <2>6 DEF VoiceTyped
  <2>8. SessionCharged(s)'
    <3>1. usage'[s].used = charged'[s] /\ charged'[s] <= usage'[s].allocated /\ usage'[s].allocated <= Credit
      BY <2>n, <2>3, <2>4, <2>6, <2>7
    <3>2. usage'[s].used <= charged'[s] /\ s \notin overwritten' /\ usage'[s].provider
      <4>1. charged'[s] \in Nat
        BY <2>n, <2>4, <2>7
      <4> QED
        BY <1>2, <2>3, <2>6, <2>7, <3>1, <4>1
    <3> QED
      BY <2>6, <2>7, <3>1, <3>2 DEF SessionCharged
  <2>9. RowKeeps(s)
    <3>1. usage[s] # NoUsage
      BY <2>3 DEF NoUsage
    <3>2. charged[s] <= charged'[s]
      BY <2>n, <2>4, <2>7
    <3> QED
      BY <2>3, <2>6, <2>7, <3>1, <3>2 DEF RowKeeps
  <2>10. voiceCredit' \in 0..Credit
    BY <2>n, <2>2, <2>4
  <2>11. /\ charged' \in [VoiceSessions -> Nat] /\ \A t \in VoiceSessions \ {s} : charged'[t] = charged[t]
         /\ overwritten' \subseteq VoiceSessions /\ \A t \in VoiceSessions \ {s} : t \in overwritten' <=> t \in overwritten
    BY <1>t, <1>2, <2>2, <2>4, <2>n DEF VoiceTyped
  <2> QED
    BY <1>f, <1>2, <2>6, <2>8, <2>9, <2>10, <2>11, RowMoves
<1> QED
  BY <1>3, <1>4

\* The withdrawal of the consent charges and ends what runs.
LEMMA RevokeInv == ASSUME VoiceInv, NEW r \in VoiceRequests, RevokeUserSessions(r) PROVE VoiceInv'
<1>t. VoiceTyped /\ \A s \in VoiceSessions : SessionCharged(s)
  BY DEF VoiceInv
<1>f. Free \in VoiceWork /\ Free.at = "free" /\ Free \notin SessionRequests /\ Free.at \notin Starting
  BY <1>t, WorkIs DEF Starting
<1>1. PICK cost \in [VoiceSessions -> 0..MaxCharge] :
        LET sum == MapThenSumSet(LAMBDA s : cost[s], VoiceSessions)
        IN /\ \A s \in VoiceSessions :
                cost[s] > 0 => /\ usage[s].status = "active" /\ usage[s].beat # "none"
                               /\ cost[s] <= Remaining(s)
           /\ sum <= voiceCredit
           /\ voiceCredit' = voiceCredit - sum
           /\ usage' = [s \in VoiceSessions |-> Revoked(s, cost[s])]
           /\ charged' = [s \in VoiceSessions |-> charged[s] + cost[s]]
  BY DEF RevokeUserSessions
<1>2. Goes(r, Free) /\ UNCHANGED <<voiceConsent, overwritten>>
  BY DEF RevokeUserSessions
<1>3. cost \in [VoiceSessions -> Nat]
  BY DEF MaxCharge
<1>4. Total(cost, VoiceSessions) \in Nat
  BY <1>3, VoiceAssumption, TotalIsNat
<1>5. voiceCredit' \in 0..Credit
  <2>1. Total(cost, VoiceSessions) <= voiceCredit /\ voiceCredit' = voiceCredit - Total(cost, VoiceSessions)
    BY <1>1 DEF Total
  <2>2. voiceCredit \in 0..Credit /\ Credit \in Nat
    BY <1>t, VoiceAssumption DEF VoiceTyped
  <2> QED
    BY <1>4, <2>1, <2>2
<1>6. ASSUME NEW s \in VoiceSessions
      PROVE  usage'[s] \in UsageRows /\ charged'[s] \in Nat /\ SessionCharged(s)' /\ RowKeeps(s)
  <2>n. /\ usage[s] \in UsageRows /\ usage[s].used \in Nat /\ usage[s].allocated \in Nat
        /\ usage[s].used \in 0..Ttl /\ usage[s].allocated \in 0..Ttl /\ charged[s] \in Nat
        /\ Credit \in Nat /\ Ttl \in Nat
    BY <1>t, RowNumbers
  <2>1. cost[s] \in Nat /\ (cost[s] > 0 => usage[s].status = "active" /\ cost[s] <= Remaining(s))
    BY <1>1, <1>3
  <2>2. usage'[s] = Revoked(s, cost[s]) /\ charged'[s] = charged[s] + cost[s]
    BY <1>1
  <2>3. CASE usage[s].status = "active"
    <3>1. usage[s].used = charged[s] /\ s \notin overwritten /\ usage[s].provider = TRUE
            /\ usage[s].used <= usage[s].allocated /\ usage[s].allocated <= Credit
      <4>1. usage[s].provider \in BOOLEAN
        BY <2>n DEF UsageRows
      <4> QED
        BY <1>t, <2>3, <4>1 DEF SessionCharged
    <3>2. usage[s].used + cost[s] <= usage[s].allocated
      BY <2>n, <2>1, <3>1 DEF Remaining
    <3>3. usage[s].used + cost[s] \in 0..Ttl
      BY <2>n, <2>1, <3>2
    <3>4. usage'[s] = [usage[s] EXCEPT !.status = "ended", !.used = @ + cost[s]]
      BY <2>2, <2>3 DEF Revoked
    <3>5. /\ usage'[s] \in UsageRows /\ usage'[s].status = "ended" /\ usage'[s].used = usage[s].used + cost[s]
          /\ usage'[s].allocated = usage[s].allocated /\ usage'[s].provider = TRUE
      <4> DEFINE used == usage[s].used + cost[s]
      <4>1. usage'[s] = [usage[s] EXCEPT !.status = "ended", !.used = used] /\ used \in 0..Ttl
        BY <3>3, <3>4
      <4> HIDE DEF used
      <4>2. /\ usage'[s] \in UsageRows /\ usage'[s].status = "ended" /\ usage'[s].used = used
            /\ usage'[s].allocated = usage[s].allocated /\ usage'[s].provider = usage[s].provider
        BY <2>n, <4>1 DEF UsageRows
      <4> QED
        BY <3>1, <4>2 DEF used
    <3>6. /\ usage'[s].used = charged'[s] /\ charged'[s] <= usage'[s].allocated /\ usage'[s].allocated <= Credit
          /\ charged'[s] \in Nat /\ charged[s] <= charged'[s] /\ usage'[s].used <= charged'[s]
      BY <2>n, <2>1, <2>2, <3>1, <3>2, <3>5
    <3>7. SessionCharged(s)'
      BY <1>2, <3>1, <3>5, <3>6 DEF SessionCharged
    <3>8. usage[s] # NoUsage
      BY <2>3 DEF NoUsage
    <3>9. RowKeeps(s)
      BY <3>1, <3>5, <3>6, <3>8 DEF RowKeeps
    <3> QED
      BY <3>5, <3>6, <3>7, <3>9
  <2>4. CASE usage[s].status # "active"
    <3>1. cost[s] = 0
      BY <2>1, <2>4
    <3>2. charged'[s] = charged[s]
      BY <2>n, <2>2, <3>1
    <3>3. \/ usage'[s] = usage[s]
          \/ usage[s].status = "pending" /\ usage'[s] = [usage[s] EXCEPT !.status = "cancelled"]
      BY <2>2, <2>4 DEF Revoked
    <3>4. /\ usage'[s] \in UsageRows /\ usage'[s].provider = usage[s].provider
          /\ usage'[s].allocated = usage[s].allocated /\ usage'[s].used = usage[s].used
          /\ usage'[s] = usage[s] \/ (usage'[s].status = "cancelled" /\ usage[s].status = "pending")
      BY <2>n, <3>3 DEF UsageRows
    <3>5. SessionCharged(s)' /\ RowKeeps(s)
      BY <1>2, <3>2, <3>4, StatusOnly
    <3> QED
      BY <2>n, <3>2, <3>4, <3>5
  <2> QED
    BY <2>3, <2>4
<1>7. usage' \in [VoiceSessions -> UsageRows] /\ charged' \in [VoiceSessions -> Nat]
  BY <1>1, <1>6
<1>8. \A q \in VoiceRequests \ {r}, d \in SessionRequests : voiceReq[q] = d => RowKeeps(d.session) \/ RequestKnows(d)'
  BY <1>6, RequestIs
<1>9. voiceConsent' \in BOOLEAN /\ overwritten' \subseteq VoiceSessions /\ \A s \in VoiceSessions : SessionCharged(s)'
  BY <1>t, <1>2, <1>6 DEF VoiceTyped
<1> QED
  BY <1>f, <1>2, <1>5, <1>7, <1>8, <1>9, VoiceRequestMoves

\* No request goes on.
LEMMA NoRequestMoves ==
  ASSUME VoiceInv, UNCHANGED <<voiceCredit, voiceReq, charged, overwritten>>,
         voiceConsent' \in BOOLEAN, usage' \in [VoiceSessions -> UsageRows],
         \A s \in VoiceSessions : SessionCharged(s)' /\ RowKeeps(s)
  PROVE  VoiceInv'
<1>1. VoiceTyped /\ (\A q \in VoiceRequests, d \in SessionRequests : voiceReq[q] = d => RequestKnows(d))
  BY DEF VoiceInv
<1>2. VoiceTyped'
  BY <1>1 DEF VoiceTyped
<1>3. ASSUME NEW q \in VoiceRequests, NEW d \in SessionRequests, voiceReq'[q] = d PROVE RequestKnows(d)'
  <2>1. RequestKnows(d) /\ RowKeeps(d.session) /\ d.session \in VoiceSessions
    BY <1>1, <1>3, RequestIs
  <2> QED
    BY <2>1 DEF RequestKnows, RowKeeps
<1>4. \A q \in VoiceRequests, d \in SessionRequests : voiceReq'[q] = d => RequestKnows(d)'
  BY <1>3
<1> QED
  BY <1>2, <1>4 DEF VoiceInv

\* The consent comes back; time passes; nothing happens.
LEMMA RestVoiceInv ==
  ASSUME VoiceInv, GrantConsent \/ (\E s \in VoiceSessions : VoiceTimePasses(s)) \/ UNCHANGED voiceVars PROVE VoiceInv'
<1>t. VoiceTyped /\ \A s \in VoiceSessions : SessionCharged(s)
  BY DEF VoiceInv
<1>1. CASE GrantConsent \/ UNCHANGED voiceVars
  <2>1. UNCHANGED <<usage, voiceCredit, voiceReq, charged, overwritten>> /\ voiceConsent' \in BOOLEAN
    BY <1>t, <1>1 DEF GrantConsent, voiceVars, VoiceTyped
  <2>2. \A s \in VoiceSessions : SessionCharged(s)' /\ RowKeeps(s)
    BY <1>t, <2>1, RowNumbers DEF SessionCharged, RowKeeps
  <2>3. usage' \in [VoiceSessions -> UsageRows]
    BY <1>t, <2>1 DEF VoiceTyped
  <2> QED
    BY <2>1, <2>2, <2>3, NoRequestMoves
<1>2. ASSUME NEW s \in VoiceSessions, VoiceTimePasses(s) PROVE VoiceInv'
  <2>1. UNCHANGED <<voiceCredit, voiceConsent, voiceReq, charged, overwritten>>
    BY <1>2 DEF VoiceTimePasses
  <2>2. PICK row \in UsageRows :
          /\ usage' = [usage EXCEPT ![s] = row] /\ row.status = usage[s].status /\ row.used = usage[s].used
          /\ row.allocated = usage[s].allocated /\ row.provider = usage[s].provider /\ usage[s] # NoUsage
    <3>0. usage[s] \in UsageRows
      BY <1>t DEF VoiceTyped
    <3>1. CASE usage[s].beat = "fresh" /\ usage' = [usage EXCEPT ![s].beat = "late"]
      <4> DEFINE row == [usage[s] EXCEPT !.beat = "late"]
      <4>1. /\ row \in UsageRows /\ row.status = usage[s].status /\ row.used = usage[s].used
            /\ row.allocated = usage[s].allocated /\ row.provider = usage[s].provider /\ usage[s] # NoUsage
        BY <3>0, <3>1 DEF UsageRows, NoUsage
      <4>2. usage' = [usage EXCEPT ![s] = row]
        BY <3>1
      <4> HIDE DEF row
      <4> QED
        BY <4>1, <4>2
    <3>2. CASE usage[s].status # "none" /\ ~usage[s].old /\ usage' = [usage EXCEPT ![s].old = TRUE]
      <4> DEFINE row == [usage[s] EXCEPT !.old = TRUE]
      <4>1. /\ row \in UsageRows /\ row.status = usage[s].status /\ row.used = usage[s].used
            /\ row.allocated = usage[s].allocated /\ row.provider = usage[s].provider
        BY <3>0 DEF UsageRows
      <4>2. usage' = [usage EXCEPT ![s] = row]
        BY <3>2
      <4>3. usage[s] # NoUsage
        <5>1. NoUsage.status = "none"
          BY DEF NoUsage
        <5> QED
          BY <3>2, <5>1
      <4> HIDE DEF row
      <4> QED
        BY <4>1, <4>2, <4>3
    <3> QED
      BY <1>2, <3>1, <3>2 DEF VoiceTimePasses
  <2>3. usage' \in [VoiceSessions -> UsageRows] /\ usage'[s] = row /\ \A t \in VoiceSessions \ {s} : usage'[t] = usage[t]
    BY <1>t, <2>2 DEF VoiceTyped
  <2>4. SessionCharged(s)' /\ RowKeeps(s)
    BY <2>1, <2>2, <2>3, StatusOnly
  <2>5. \A t \in VoiceSessions \ {s} : SessionCharged(t)' /\ RowKeeps(t)
    BY <1>t, <2>1, <2>3, RowNumbers DEF SessionCharged, RowKeeps
  <2>6. \A t \in VoiceSessions : SessionCharged(t)' /\ RowKeeps(t)
    BY <2>4, <2>5
  <2>7. voiceConsent' \in BOOLEAN
    BY <1>t, <2>1 DEF VoiceTyped
  <2> QED
    BY <2>1, <2>3, <2>6, <2>7, NoRequestMoves
<1> QED
  BY <1>1, <1>2

LEMMA VoiceInitInv == VoiceInit => VoiceInv
<1> SUFFICES ASSUME VoiceInit PROVE VoiceInv
  OBVIOUS
<1>1. /\ NoUsage \in UsageRows /\ NoUsage.used = 0 /\ NoUsage.allocated = 0 /\ NoUsage.status = "none"
      /\ NoUsage.provider = FALSE
  <2>1. 0 \in 0..Ttl
    BY VoiceAssumption
  <2> QED
    BY <2>1 DEF NoUsage, UsageRows
<1>2. \A s \in VoiceSessions : usage[s] = NoUsage /\ charged[s] = 0
  BY DEF VoiceInit
<1>3. \A s \in VoiceSessions : SessionCharged(s)
  BY <1>1, <1>2, VoiceAssumption DEF SessionCharged, VoiceInit
<1>4. VoiceTyped
  <2>1. voiceCredit \in 0..Credit
    BY VoiceAssumption DEF VoiceInit
  <2>2. voiceReq \in [VoiceRequests -> VoiceWork]
    BY DEF VoiceInit, VoiceWork
  <2> QED
    BY <1>1, <2>1, <2>2 DEF VoiceInit, VoiceTyped
<1>5. \A r \in VoiceRequests : voiceReq[r] = Free /\ Free.at = "free" /\ Free \notin SessionRequests
  BY <1>4, WorkIs DEF VoiceInit
<1> QED
  BY <1>3, <1>4, <1>5 DEF VoiceInv, Starting

LEMMA VoiceStepInv == VoiceInv /\ [VoiceNext]_voiceVars => VoiceInv'
BY BeginVoiceInv, QuietVoiceInv, InsertVoiceInv, ActivateSaveInv, StartFailsInv, EndSaveInv, HeartbeatInv,
   RevokeInv, RestVoiceInv DEF VoiceNext

\* What a session cost.
LEMMA VoiceInvSays == VoiceInv => VoiceConsistent
<1> SUFFICES ASSUME VoiceInv PROVE VoiceConsistent
  OBVIOUS
<1>t. VoiceTyped /\ \A s \in VoiceSessions : SessionCharged(s)
  BY DEF VoiceInv
<1>1. ChargesAreRecorded /\ NeverOvercharged
  BY <1>t DEF SessionCharged, ChargesAreRecorded, NeverOvercharged
<1>2. charged \in [VoiceSessions -> 0..Credit]
  <2>1. \A s \in VoiceSessions : charged[s] \in 0..Credit
    BY <1>t, RowNumbers DEF SessionCharged
  <2> QED
    BY <1>t, <2>1 DEF VoiceTyped
<1>3. \A r \in VoiceRequests :
        voiceReq[r].at \in {"free", "insert", "created", "activate", "answer", "end", "beat", "revoke"}
  BY <1>t, WorkIs, RequestIs
<1> QED
  BY <1>t, <1>1, <1>2, <1>3 DEF VoiceConsistent, VoiceTypeOK, VoiceTyped, UsageRows

\* A session is only taken back by the request that starts it.
LEMMA OverStepStays ==
  VoiceInv /\ [VoiceNext]_voiceVars =>
    \A s \in VoiceSessions :
       usage[s].status \in {"ended", "cancelled"} /\ usage'[s].status = "active" =>
         /\ usage[s].status = "cancelled"
         /\ \E r \in VoiceRequests : voiceReq[r].at = "activate" /\ voiceReq[r].session = s
<1> SUFFICES ASSUME VoiceInv, [VoiceNext]_voiceVars, NEW s \in VoiceSessions,
                    usage[s].status \in {"ended", "cancelled"}, usage'[s].status = "active"
             PROVE  /\ usage[s].status = "cancelled"
                    /\ \E r \in VoiceRequests : voiceReq[r].at = "activate" /\ voiceReq[r].session = s
  OBVIOUS
<1>t. VoiceTyped /\ (\A t \in VoiceSessions : SessionCharged(t)) /\ usage[s] \in UsageRows
  BY DEF VoiceInv, VoiceTyped
<1>1. usage' # usage
  OBVIOUS
<1>2. ASSUME NEW r \in VoiceRequests, ActivateSave(r)
      PROVE  /\ usage[s].status = "cancelled"
             /\ voiceReq[r].at = "activate" /\ voiceReq[r].session = s
  <2>1. PICK d \in SessionRequests, t \in VoiceSessions :
          d = voiceReq[r] /\ t = d.session /\ RequestKnows(d) /\ d.at = "activate"
    BY <1>2, InSession DEF ActivateSave
  <2>2. \A u \in VoiceSessions \ {t} : usage'[u] = usage[u]
    BY <1>t, <1>2, <2>1 DEF ActivateSave, VoiceTyped
  <2>3. s = t
    BY <2>2
  <2> QED
    BY <2>1, <2>3 DEF RequestKnows
<1>3. ASSUME NEW r \in VoiceRequests, NEW t \in VoiceSessions, BeginVoiceSession(r, t) PROVE FALSE
  <2>1. usage'[s] = Expired(s)
    BY <1>3 DEF BeginVoiceSession
  <2>2. Expired(s) = usage[s]
    BY DEF Expired
  <2> QED
    BY <2>1, <2>2
<1>4. ASSUME NEW r \in VoiceRequests, InsertVoiceSession(r) \/ StartFails(r) \/ EndSave(r) PROVE FALSE
  <2>1. PICK d \in SessionRequests, t \in VoiceSessions : d = voiceReq[r] /\ t = d.session /\ RequestKnows(d)
    BY <1>4, InSession DEF InsertVoiceSession, StartFails, EndSave
  <2>2. PICK row : usage' = [usage EXCEPT ![t] = row] /\ row.status \in {"pending", "cancelled", "ended"}
    <3>1. CASE InsertVoiceSession(r)
      <4> DEFINE row == [NoUsage EXCEPT !.status = "pending", !.allocated = d.allocated]
      <4>1. row.status = "pending"
        BY DEF NoUsage
      <4>2. usage' = [usage EXCEPT ![t] = row]
        BY <2>1, <3>1 DEF InsertVoiceSession
      <4> QED
        BY <4>1, <4>2
    <3>2. CASE StartFails(r)
      <4> DEFINE row == [usage[t] EXCEPT !.status = "cancelled"]
      <4>0. usage[t] \in UsageRows
        BY <1>t DEF VoiceTyped
      <4>1. row.status = "cancelled"
        BY <4>0 DEF UsageRows
      <4>2. usage' = [usage EXCEPT ![t] = row]
        BY <2>1, <3>2 DEF StartFails
      <4> HIDE DEF row
      <4> QED
        BY <4>1, <4>2
    <3>3. CASE EndSave(r)
      <4>1. d.copy \in UsageRows
        BY <2>1, <3>3, RequestIs DEF EndSave
      <4>2. EndedCopy(r).status = "ended"
        BY <2>1, <4>1 DEF EndedCopy, UsageRows
      <4>3. usage' = [usage EXCEPT ![t] = EndedCopy(r)]
        BY <2>1, <3>3 DEF EndSave
      <4> QED
        BY <4>2, <4>3
    <3> QED
      BY <1>4, <3>1, <3>2, <3>3
  <2>3. \A u \in VoiceSessions : usage'[u] = (IF u = t THEN row ELSE usage[u])
    BY <1>t, <2>2 DEF VoiceTyped
  <2> QED
    BY <2>2, <2>3
<1>5. ASSUME NEW r \in VoiceRequests, NEW elapsed \in 0..MaxCharge, VoiceHeartbeat(r, elapsed) PROVE FALSE
  <2>1. PICK t : t = voiceReq[r].session
    OBVIOUS
  <2>2. usage[t].status = "active" /\ \E row : usage' = [usage EXCEPT ![t] = row]
    BY <1>1, <1>5, <2>1 DEF VoiceHeartbeat, IsMetered
  <2>3. s # t
    BY <2>2
  <2>4. usage'[s] = usage[s]
    BY <1>t, <2>2, <2>3 DEF VoiceTyped
  <2> QED
    BY <2>4
<1>6. ASSUME NEW r \in VoiceRequests, RevokeUserSessions(r) PROVE FALSE
  <2>1. \E n : usage'[s] = Revoked(s, n)
    BY <1>6 DEF RevokeUserSessions
  <2>2. \A n : Revoked(s, n) = usage[s]
    BY DEF Revoked
  <2> QED
    BY <2>1, <2>2
<1>7. ASSUME NEW t \in VoiceSessions, VoiceTimePasses(t) PROVE FALSE
  <2>1. usage'[s].status = usage[s].status
    BY <1>t, <1>7 DEF VoiceTimePasses, VoiceTyped, UsageRows
  <2> QED
    BY <2>1
<1>8. ASSUME NEW r \in VoiceRequests,
             \/ ActivateRead(r) \/ Answered(r) \/ WithdrawVoiceConsent(r) \/ RevocationFails(r)
             \/ \E t \in VoiceSessions : EndRead(r, t) \/ HeartbeatArrives(r, t)
      PROVE  FALSE
  BY <1>1, <1>8 DEF ActivateRead, Answered, WithdrawVoiceConsent, RevocationFails, EndRead, HeartbeatArrives
<1>9. ~GrantConsent /\ ~UNCHANGED voiceVars
  BY <1>1 DEF GrantConsent, voiceVars
<1> QED
  BY <1>2, <1>3, <1>4, <1>5, <1>6, <1>7, <1>8, <1>9 DEF VoiceNext

\* What a voice session cost is recorded, is never more than it was allocated,
\* and a session that ended stays ended.
THEOREM VoiceIsMeteredAlways == VoiceSpec => VoiceIsMetered
<1>1. VoiceInit => VoiceInv
  BY VoiceInitInv
<1>2. VoiceInv /\ [VoiceNext]_voiceVars => VoiceInv'
  BY VoiceStepInv
<1>3. VoiceInv => VoiceConsistent
  BY VoiceInvSays
<1>4. VoiceInv /\ [VoiceNext]_voiceVars =>
        [\A s \in VoiceSessions :
           usage[s].status \in {"ended", "cancelled"} /\ usage'[s].status = "active" =>
             /\ usage[s].status = "cancelled"
             /\ \E r \in VoiceRequests : voiceReq[r].at = "activate" /\ voiceReq[r].session = s]_voiceVars
  BY OverStepStays
<1> QED
  BY <1>1, <1>2, <1>3, <1>4, PTL DEF VoiceSpec, VoiceIsMetered, OverStaysOver
=============================================================================
