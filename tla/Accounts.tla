------------------------------- MODULE Accounts --------------------------------
(* One user's row and the one-time codes that change it: verification of the   *)
(* account, reset of the password (auth/auth.service.ts), change of the e-mail *)
(* address (users/users.service.ts), deletion (account-deletion/               *)
(* account-deletion.service.ts) and what administrators decide about the user. *)
(* The row and the codes are loaded, changed and saved as a whole, without     *)
(* locks; saving a code's row that is gone inserts it again.                   *)
EXTENDS Integers, FiniteSets, FiniteSetsExt

CONSTANTS
  Codes,              \* identifiers of codes: 1, 2, ...
  Askers,             \* requests in flight
  MaxAttempts,        \* maxOtpAttempts (5 in the code)
  MaxAsked,           \* bound: requests made
  MaxAccountFaults    \* bound: requests that die

ASSUME AccountsAssumption == MaxAttempts \in Nat \ {0} /\ Codes \subseteq Nat \ {0}

VARIABLES
  user,               \* users: password (how often it was reset), isBanned, ...
  otp,                \* otps, by code; createdAt is the code's number
  coolingDown,        \* OtpRateLimitService: purposes a code was sent for within a minute
  asker,              \* what a request holds between two calls
  codesMade, asked, accountFaults,
  accepted,           \* history: how often a code, and a reset token, was accepted
  compared,           \* history: how often a code was compared with a wrong one
  decidedBan, decidedPassword,  \* history: the last decision about either column
  codesMet,           \* history: a code in a request's hands was loaded or deleted by another
  sendsMet,           \* history: two codes for one purpose were made at the same time
  userOverwritten,    \* history: a copy of the user was saved over a newer row
  erased              \* history: the user was deleted, alone or amid other requests

Purposes == {"VERIFY", "RESET", "EMAIL", "DELETE"}
codeVars == <<otp, codesMade, coolingDown, compared>>
userVars == <<user, decidedBan, decidedPassword, userOverwritten, erased>>
accountVars == <<codeVars, userVars, asker, asked, accountFaults, accepted, codesMet, sendsMet>>

NoCode == [purpose |-> "none", code |-> FALSE, attempts |-> 0, token |-> FALSE, expired |-> FALSE]
NewUser ==
  [there |-> TRUE, verified |-> FALSE, banned |-> FALSE, password |-> 0, email |-> "old"]
Unasking == [pc |-> "idle", purpose |-> "none", c |-> 0, right |-> FALSE, copy |-> NoCode,
           user |-> NewUser]

(* A user that has just signed up. *)
AccountsInit ==
  /\ user = NewUser
  /\ otp = [c \in Codes |-> NoCode]
  /\ coolingDown = {}
  /\ asker = [r \in Askers |-> Unasking]
  /\ codesMade = 0 /\ asked = 0 /\ accountFaults = 0
  /\ accepted = [c \in Codes |-> [code |-> 0, token |-> 0]]
  /\ compared = [c \in Codes |-> 0]
  /\ decidedBan = FALSE /\ decidedPassword = 0
  /\ codesMet = FALSE /\ sendsMet = FALSE /\ userOverwritten = FALSE
  /\ erased = "no"

Begins(r, request) ==
  /\ asker[r].pc = "idle" /\ asked < MaxAsked
  /\ asked' = asked + 1
  /\ asker' = [asker EXCEPT ![r] = request]
  /\ UNCHANGED accountFaults

Has(r, pc) == asker[r].pc = pc /\ UNCHANGED <<asked, accountFaults>>
Turns(r, pc) == asker' = [asker EXCEPT ![r].pc = pc]
Ends(r) == asker' = [asker EXCEPT ![r] = Unasking]

(* Another request than r has one of the codes C in its hands. *)
Held(r, C) == \E q \in Askers \ {r} : asker[q].c \in C
Stored(p) == {c \in Codes : otp[c].purpose = p}
Remove(C) == otp' = [c \in Codes |-> IF c \in C THEN NoCode ELSE otp[c]]

-----------------------------------------------------------------------------
(* Sending a code: recordSendRequest under its advisory lock, then             *)
(* generateAndSaveOtp deletes the old codes and saves a new one.               *)

RequestCode(r, p) ==
  /\ user.there /\ p \notin coolingDown
  /\ p = "VERIFY" => ~user.verified
  /\ p = "EMAIL" => user.email = "old"
  /\ coolingDown' = coolingDown \union {p}
  /\ Begins(r, [Unasking EXCEPT !.pc = "delete", !.purpose = p])
  /\ sendsMet' = (sendsMet \/ \E q \in Askers :
                    asker[q].purpose = p /\ asker[q].pc \in {"delete", "make"})
  /\ UNCHANGED <<otp, codesMade, compared, userVars, accepted, codesMet>>

CooldownEnds(p) ==
  /\ p \in coolingDown
  /\ coolingDown' = coolingDown \ {p}
  /\ UNCHANGED <<otp, codesMade, compared, userVars, asker, asked, accountFaults, accepted,
                 codesMet, sendsMet>>

\* Mutant of DeleteOldCodes: the codes sent before remain.
KeepOldCodes(r) ==
  /\ Has(r, "delete")
  /\ Turns(r, "make")
  /\ UNCHANGED <<codeVars, userVars, accepted, codesMet, sendsMet>>

DeleteOldCodes(r) ==
  /\ Has(r, "delete")
  /\ Remove(Stored(asker[r].purpose))
  /\ Turns(r, "make")
  /\ codesMet' = (codesMet \/ Held(r, Stored(asker[r].purpose)))
  /\ UNCHANGED <<codesMade, coolingDown, compared, userVars, accepted, sendsMet>>

SaveNewCode(r) ==
  LET c == codesMade + 1
  IN /\ Has(r, "make") /\ c \in Codes
     /\ codesMade' = c
     /\ otp' = [otp EXCEPT ![c] = [NoCode EXCEPT !.purpose = asker[r].purpose, !.code = TRUE]]
     /\ Ends(r)
     /\ UNCHANGED <<coolingDown, compared, userVars, accepted, codesMet, sendsMet>>

CodeExpires(c) ==
  /\ otp[c].purpose # "none" /\ ~otp[c].expired
  /\ otp' = [otp EXCEPT ![c].expired = TRUE]
  /\ UNCHANGED <<codesMade, coolingDown, compared, userVars, asker, asked, accountFaults,
                 accepted, codesMet, sendsMet>>

-----------------------------------------------------------------------------
(* Answering a code: validateAndConsumeOtp, verifyPasswordResetOtp,            *)
(* validateDeletionOtp.                                                        *)

(* The newest code is loaded, for an e-mail address after the user. *)
SubmitCode(r, p, right) ==
  LET c == Max(Stored(p))
  IN /\ user.there /\ Stored(p) # {}
     /\ Begins(r, [pc |-> "compare", purpose |-> p, c |-> c, right |-> right, copy |-> otp[c],
                   user |-> user])
     /\ codesMet' = (codesMet \/ Held(r, {c}))
     /\ UNCHANGED <<codeVars, userVars, accepted, sendsMet>>

\* Mutant of CodeRefused: one attempt more than the limit.
CodeRefusedLate(copy) == copy.expired \/ copy.attempts > MaxAttempts

CodeRefused(copy) == copy.expired \/ copy.attempts >= MaxAttempts

(* The copy of a code is saved; what was deleted meanwhile is back.            *)
SaveCode(r, copy) ==
  LET c == asker[r].c
  IN otp' = [otp EXCEPT ![c] = [copy EXCEPT !.expired = @ \/ otp[c].expired]]

(* A copy whose code was used already, by a reset, is answered without more. *)
RefuseCode(r) ==
  /\ Has(r, "compare") /\ (CodeRefused(asker[r].copy) \/ ~asker[r].copy.code)
  /\ IF CodeRefused(asker[r].copy) /\ asker[r].copy.code
       THEN Remove({asker[r].c}) ELSE UNCHANGED otp
  /\ Ends(r)
  /\ UNCHANGED <<codesMade, coolingDown, compared, userVars, accepted, codesMet, sendsMet>>

Compares(r, right) ==
  /\ Has(r, "compare") /\ asker[r].right = right
  /\ ~CodeRefused(asker[r].copy) /\ asker[r].copy.code

(* For the deletion the last attempt deletes the code. *)
WrongCode(r) ==
  LET copy == [asker[r].copy EXCEPT !.attempts = @ + 1]
  IN /\ Compares(r, FALSE)
     /\ IF asker[r].purpose = "DELETE" /\ copy.attempts >= MaxAttempts
          THEN Remove({asker[r].c}) ELSE SaveCode(r, copy)
     /\ compared' = [compared EXCEPT ![asker[r].c] = @ + 1]
     /\ Ends(r)
     /\ UNCHANGED <<codesMade, coolingDown, userVars, accepted, codesMet, sendsMet>>

(* verifyOtp and verifyEmailChangeOtp delete the code, gone or not; a reset    *)
(* exchanges it for a token; the deletion keeps it for its transaction. The    *)
(* user is loaded after the code is consumed to verify the account.            *)
RightCode(r) ==
  LET c == asker[r].c
      p == asker[r].purpose
  IN /\ Compares(r, TRUE)
     /\ accepted' = IF p = "DELETE" THEN accepted ELSE [accepted EXCEPT ![c].code = @ + 1]
     /\ CASE p \in {"VERIFY", "EMAIL"} ->
               /\ Remove({c})
               /\ IF p = "EMAIL" THEN Turns(r, "user")
                  ELSE asker' = [asker EXCEPT ![r].pc = "user", ![r].user = user]
          [] p = "RESET" ->
               SaveCode(r, [asker[r].copy EXCEPT !.code = FALSE, !.token = TRUE]) /\ Ends(r)
          [] p = "DELETE" -> Turns(r, "erase") /\ UNCHANGED otp
     /\ UNCHANGED <<codesMade, coolingDown, compared, userVars, codesMet, sendsMet>>

(* resetPassword: the token's row and the user are loaded. *)
ResetPassword(r, c) ==
  /\ user.there /\ otp[c].token
  /\ Begins(r, [Unasking EXCEPT !.pc = "consume", !.purpose = "RESET", !.c = c, !.user = user])
  /\ codesMet' = (codesMet \/ Held(r, {c}))
  /\ UNCHANGED <<codeVars, userVars, accepted, sendsMet>>

\* Mutant of Consumes: whether the token was still there is not looked at.
ConsumesAlways(c) == TRUE

(* "Only one request can consume it": the delete affects one row or none. *)
Consumes(c) == otp[c].token

ConsumeToken(r) ==
  LET c == asker[r].c
  IN /\ Has(r, "consume")
     /\ IF Consumes(c)
          THEN /\ Remove({c})
               /\ accepted' = [accepted EXCEPT ![c].token = @ + 1]
               /\ Turns(r, "user")
          ELSE Ends(r) /\ UNCHANGED <<otp, accepted>>
     /\ UNCHANGED <<codesMade, coolingDown, compared, userVars, codesMet, sendsMet>>

-----------------------------------------------------------------------------
(* The user's row *)

(* Saves the changed copy; a row that is gone is inserted again. *)
SaveUser(copy, changed) ==
  /\ user' = changed
  /\ userOverwritten' = (userOverwritten \/ user # copy)
  /\ erased' = erased

UpdateUser(r) ==
  LET copy == asker[r].user
      p == asker[r].purpose
      password == decidedPassword + 1
  IN /\ Has(r, "user")
     /\ SaveUser(copy, CASE p = "VERIFY" -> [copy EXCEPT !.verified = TRUE]
                         [] p = "EMAIL" -> [copy EXCEPT !.verified = TRUE, !.email = "new"]
                         [] p = "RESET" -> [copy EXCEPT !.password = password]
                         [] p \in {"BAN", "LIFT"} -> [copy EXCEPT !.banned = p = "BAN"])
     /\ decidedPassword' = IF p = "RESET" THEN password ELSE decidedPassword
     /\ decidedBan' = IF p \in {"BAN", "LIFT"} THEN p = "BAN" ELSE decidedBan
     /\ Ends(r)
     /\ UNCHANGED <<codeVars, accepted, codesMet, sendsMet>>

(* updateUserRestriction of the directory: load, then save. *)
RestrictUser(r) ==
  /\ user.there
  /\ Begins(r, [Unasking EXCEPT !.pc = "user", !.user = user,
                              !.purpose = IF user.banned THEN "LIFT" ELSE "BAN"])
  /\ UNCHANGED <<codeVars, userVars, accepted, codesMet, sendsMet>>

(* The permanent ban of a moderator updates the one column. *)
PermanentBan ==
  /\ user.there /\ ~user.banned
  /\ user' = [user EXCEPT !.banned = TRUE]
  /\ decidedBan' = TRUE
  /\ asked < MaxAsked /\ asked' = asked + 1
  /\ UNCHANGED <<codeVars, decidedPassword, userOverwritten, erased, asker, accountFaults, accepted,
                 codesMet, sendsMet>>

Erased(r) == erased' = IF \E q \in Askers \ {r} : asker[q].pc # "idle" THEN "amid"
                       ELSE IF erased = "no" THEN "alone" ELSE erased

\* Mutant of EraseUser: the codes of the user stay behind.
EraseUserOnly(r) ==
  /\ Has(r, "erase")
  /\ user' = [user EXCEPT !.there = FALSE]
  /\ Erased(r)
  /\ Ends(r)
  /\ UNCHANGED <<codeVars, decidedBan, decidedPassword, userOverwritten, accepted, codesMet,
                 sendsMet>>

(* deleteAccount, one transaction with the user's row locked. *)
EraseUser(r) ==
  /\ Has(r, "erase")
  /\ user' = [user EXCEPT !.there = FALSE]
  /\ Erased(r)
  /\ IF user.there
       THEN Remove(Codes) /\ codesMet' = (codesMet \/ Held(r, Codes))
       ELSE UNCHANGED <<otp, codesMet>>
  /\ Ends(r)
  /\ UNCHANGED <<codesMade, coolingDown, compared, decidedBan, decidedPassword, userOverwritten,
                 accepted, sendsMet>>

AskerDies(r) ==
  /\ asker[r].pc # "idle" /\ accountFaults < MaxAccountFaults
  /\ accountFaults' = accountFaults + 1
  /\ Ends(r)
  /\ UNCHANGED <<codeVars, userVars, asked, accepted, codesMet, sendsMet>>

AccountsNext ==
  \/ \E r \in Askers :
       \/ \E p \in Purposes : RequestCode(r, p) \/ \E right \in BOOLEAN : SubmitCode(r, p, right)
       \/ DeleteOldCodes(r) \/ SaveNewCode(r)
       \/ RefuseCode(r) \/ WrongCode(r) \/ RightCode(r)
       \/ \E c \in Codes : ResetPassword(r, c)
       \/ ConsumeToken(r) \/ UpdateUser(r) \/ RestrictUser(r) \/ EraseUser(r) \/ AskerDies(r)
  \/ \E p \in Purposes : CooldownEnds(p)
  \/ \E c \in Codes : CodeExpires(c)
  \/ PermanentBan

AccountsSpec == AccountsInit /\ [][AccountsNext]_accountVars

-----------------------------------------------------------------------------
(* Properties *)

AccountsTypeOK ==
  /\ user.password \in Nat /\ user.email \in {"old", "new"}
  /\ otp \in [Codes -> [purpose : Purposes \union {"none"}, code : BOOLEAN, attempts : Nat,
                        token : BOOLEAN, expired : BOOLEAN]]

\* However requests overlap, a reset token changes the password once: no oftener
\* than a code was exchanged for one. Unless a code in a request's hands was
\* loaded or deleted by another, it is accepted once and compared no oftener than
\* the limit; unless two codes for a purpose were made at once, the user has one
\* of it; unless a copy of the user was saved over a newer row, the last decision
\* about the password and the ban stands; and a user deleted while nothing else
\* ran is gone with all codes.
AccountsConsistent ==
  /\ AccountsTypeOK
  /\ \A c \in Codes : accepted[c].token <= accepted[c].code
  /\ ~codesMet => \A c \in Codes : accepted[c].code <= 1 /\ compared[c] <= MaxAttempts
  /\ ~codesMet /\ ~sendsMet => \A p \in Purposes : Cardinality(Stored(p)) <= 1
  /\ ~userOverwritten => user.banned = decidedBan /\ user.password = decidedPassword
  /\ erased = "alone" => ~user.there /\ \A p \in Purposes : Stored(p) = {}
=============================================================================
