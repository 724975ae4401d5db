---------------------------- MODULE SocialProofs -----------------------------
(* Accounts and logins: what requests that read a row, wait and save it still  *)
(* know of it. For each component, the inductive invariant, that it implies    *)
(* what the component promises, and that every step preserves it.              *)
EXTENDS Accounts, Sessions, LearningRewards, Streaks, Sums

-----------------------------------------------------------------------------
(* Accounts *)

Users == [there : BOOLEAN, verified : BOOLEAN, banned : BOOLEAN, password : Nat, email : {"old", "new"}]
OtpRows ==
  [purpose : Purposes \union {"none"}, code : BOOLEAN, attempts : Nat, token : BOOLEAN,
   expired : BOOLEAN]
AskerStates ==
  [pc : {"idle", "delete", "make", "compare", "user", "consume", "erase"},
   purpose : Purposes \union {"none", "BAN", "LIFT"}, c : Codes \union {0}, right : BOOLEAN,
   copy : OtpRows, user : Users]

AccountsTyped ==
  /\ user \in Users /\ otp \in [Codes -> OtpRows] /\ asker \in [Askers -> AskerStates]
  /\ codesMade \in Nat
  /\ accepted \in [Codes -> [code : Nat, token : Nat]] /\ compared \in [Codes -> Nat]
  /\ decidedPassword \in Nat

\* What a code's row and its counts say of each other: a row holds a code or a
\* token, whose acceptance was counted; codes not made yet have left no trace.
CodeSound(c, row, n, k) ==
  /\ row.code => ~row.token
  /\ n.token + (IF row.token THEN 1 ELSE 0) <= n.code
  /\ c > codesMade => row = NoCode /\ n.code = 0 /\ k = 0

\* And for codes that no two requests had in hand at once: what is there was
\* never accepted and knows how often it was compared.
RowKnown(row, n, k) ==
  /\ row.code => n.code = 0 /\ k = row.attempts
  /\ n.code <= 1 /\ k <= MaxAttempts

\* What a request holds.
HandSound(a) ==
  /\ a.c <= codesMade
  /\ a.pc \in {"compare", "consume", "erase"} => a.c # 0
  /\ a.pc \in {"delete", "make"} => a.c = 0
  /\ a.pc \in {"delete", "make", "compare"} => a.purpose \in Purposes
  /\ a.pc = "compare" => a.copy.purpose = a.purpose /\ (a.copy.code => ~a.copy.token)
  /\ a.pc = "consume" => a.purpose = "RESET"
  /\ a.pc = "user" => a.purpose \in {"VERIFY", "EMAIL", "RESET", "BAN", "LIFT"}

HandKnown(a) ==
  a.pc = "compare" =>
    /\ otp[a.c].purpose = a.purpose
    /\ a.copy.code => accepted[a.c].code = 0 /\ compared[a.c] = a.copy.attempts

CodesSound ==
  /\ \A c \in Codes : CodeSound(c, otp[c], accepted[c], compared[c])
  /\ \A r \in Askers : HandSound(asker[r])
CodesKnown ==
  ~codesMet =>
    /\ \A c \in Codes : RowKnown(otp[c], accepted[c], compared[c])
    /\ \A r \in Askers : HandKnown(asker[r])
    /\ \A r, q \in Askers : asker[r].c = asker[q].c => r = q \/ asker[r].c = 0
SendsApart ==
  ~sendsMet => \A r, q \in Askers :
    asker[r].pc \in {"delete", "make"} /\ asker[q].pc \in {"delete", "make"}
      /\ asker[r].purpose = asker[q].purpose => r = q
OneCode ==
  ~codesMet /\ ~sendsMet =>
    /\ \A c, e \in Codes : otp[c].purpose = otp[e].purpose => c = e \/ otp[c].purpose = "none"
    /\ \A r \in Askers : asker[r].pc = "make" => Stored(asker[r].purpose) = {}

\* The user's row stands as decided, and was deleted by a request only.
UserSound ==
  /\ ~userOverwritten => user.banned = decidedBan /\ user.password = decidedPassword
  /\ erased = "no" => user.there /\ \A r \in Askers : asker[r].user.there
  /\ erased = "alone" =>
       /\ ~user.there /\ \A c \in Codes : otp[c].purpose = "none"
       /\ \A r \in Askers : asker[r].pc = "idle"

AccountsInv ==
  AccountsTyped /\ CodesSound /\ CodesKnown /\ SendsApart /\ OneCode /\ UserSound


LEMMA BlankHands ==
  /\ NoCode \in OtpRows /\ NewUser \in Users /\ NewUser.there
  /\ NoCode.purpose = "none" /\ ~NoCode.code /\ ~NoCode.token
  /\ Unasking \in AskerStates /\ Unasking.pc = "idle" /\ Unasking.c = 0 /\ Unasking.user = NewUser
<1>1. NoCode \in OtpRows /\ NewUser \in Users
  BY DEF NoCode, OtpRows, NewUser, Users
<1>2. Unasking \in AskerStates
  BY <1>1 DEF Unasking, AskerStates, Purposes
<1> QED
  BY <1>1, <1>2 DEF NoCode, NewUser, Unasking

LEMMA CodesAreNumbers == Codes \subseteq Nat \ {0} /\ MaxAttempts \in Nat \ {0}
  BY AccountsAssumption

LEMMA InHandAreNumbers == \A x \in Codes \union {0} : x \in Nat
  BY CodesAreNumbers

LEMMA AccountsInitInv == AccountsInit => AccountsInv
<1> SUFFICES ASSUME AccountsInit PROVE AccountsInv
  OBVIOUS
<1>1. AccountsTyped
  BY BlankHands DEF AccountsInit, AccountsTyped
<1>2. \A c \in Codes : CodeSound(c, otp[c], accepted[c], compared[c]) /\ RowKnown(otp[c], accepted[c], compared[c])
  BY BlankHands, CodesAreNumbers DEF AccountsInit, CodeSound, RowKnown
<1>3. \A r \in Askers : HandSound(asker[r]) /\ HandKnown(asker[r])
  BY BlankHands DEF AccountsInit, HandSound, HandKnown
<1>4. CodesSound /\ CodesKnown
  BY <1>2, <1>3, BlankHands DEF CodesSound, CodesKnown, AccountsInit
<1>5. SendsApart /\ OneCode /\ UserSound
  BY BlankHands DEF AccountsInit, SendsApart, OneCode, UserSound, NewUser
<1> QED
  BY <1>1, <1>4, <1>5 DEF AccountsInv

LEMMA AccountsAreConsistent == AccountsInv => AccountsConsistent
<1> SUFFICES ASSUME AccountsInv PROVE AccountsConsistent
  OBVIOUS
<1>1. AccountsTypeOK
  BY DEF AccountsInv, AccountsTyped, AccountsTypeOK, Users, OtpRows
<1>2. \A c \in Codes : accepted[c].token <= accepted[c].code
  <2> TAKE c \in Codes
  <2>1. accepted[c].token \in Nat /\ accepted[c].code \in Nat
    BY DEF AccountsInv, AccountsTyped
  <2> QED
    BY <2>1 DEF AccountsInv, CodesSound, CodeSound
<1>3. ~codesMet => \A c \in Codes : accepted[c].code <= 1 /\ compared[c] <= MaxAttempts
  BY DEF AccountsInv, CodesKnown, RowKnown
<1>4. ~codesMet /\ ~sendsMet => \A p \in Purposes : Cardinality(Stored(p)) <= 1
  <2> SUFFICES ASSUME ~codesMet, ~sendsMet, NEW p \in Purposes PROVE Cardinality(Stored(p)) <= 1
    OBVIOUS
  <2>1. \A c, e \in Stored(p) : c = e
    BY DEF AccountsInv, OneCode, Stored, Purposes
  <2>2. CASE Stored(p) = {}
    BY <2>2, FS_EmptySet
  <2>3. CASE Stored(p) # {}
    <3>1. PICK c \in Stored(p) : TRUE
      BY <2>3
    <3>2. Stored(p) = {c}
      BY <2>1, <3>1
    <3>3. Cardinality({c}) = 1
      BY FS_Singleton
    <3> QED
      BY <3>2, <3>3
  <2> QED
    BY <2>2, <2>3
<1>5. erased = "alone" => ~user.there /\ \A p \in Purposes : Stored(p) = {}
  BY DEF AccountsInv, UserSound, Stored, Purposes
<1>6. ~userOverwritten => user.banned = decidedBan /\ user.password = decidedPassword
  BY DEF AccountsInv, UserSound
<1> QED
  BY <1>1, <1>2, <1>3, <1>4, <1>5, <1>6 DEF AccountsConsistent

CodesInv == CodesSound /\ CodesKnown /\ SendsApart /\ OneCode

\* A request takes something in hand or lets it go.
LEMMA HandMoves ==
  ASSUME AccountsInv, NEW r \in Askers, NEW s \in AskerStates, HandSound(s), s.pc # "make",
         asker' = [asker EXCEPT ![r] = s], UNCHANGED <<otp, codesMade, compared>>,
         accepted' = accepted,
         codesMet => codesMet', sendsMet => sendsMet',
         ~codesMet' => HandKnown(s) /\ (s.c = 0 \/ \A q \in Askers \ {r} : asker[q].c # s.c),
         ~sendsMet' => (s.pc = "delete" => \A q \in Askers \ {r} :
                          asker[q].pc \in {"delete", "make"} => asker[q].purpose # s.purpose)
  PROVE  CodesInv'
<1>1. /\ \A q \in Askers \ {r} : asker'[q] = asker[q]
      /\ asker'[r] = s
  BY DEF AccountsInv, AccountsTyped
<1>2. CodesSound'
  BY <1>1 DEF AccountsInv, CodesSound, CodeSound, HandSound
<1>3. CodesKnown'
  BY <1>1 DEF AccountsInv, CodesKnown, RowKnown, HandKnown
<1>4. SendsApart'
  BY <1>1 DEF AccountsInv, SendsApart
<1>5. OneCode'
  BY <1>1 DEF AccountsInv, OneCode, Stored
<1> QED
  BY <1>2, <1>3, <1>4, <1>5 DEF CodesInv

\* The row of the code in hand is saved or removed.
LEMMA RowMoves ==
  ASSUME AccountsInv, NEW r \in Askers, NEW s \in AskerStates, HandSound(s),
         s.pc \in {"idle", "user", "erase"}, s.c \in {0, asker[r].c},
         NEW c \in Codes, c = asker[r].c,
         NEW row \in OtpRows, NEW n \in [code : Nat, token : Nat], NEW k \in Nat,
         asker' = [asker EXCEPT ![r] = s], otp' = [otp EXCEPT ![c] = row],
         accepted' = [accepted EXCEPT ![c] = n], compared' = [compared EXCEPT ![c] = k],
         UNCHANGED <<codesMade, codesMet, sendsMet>>,
         CodeSound(c, row, n, k), ~codesMet => RowKnown(row, n, k),
         ~codesMet => row.purpose \in {"none", otp[c].purpose}
  PROVE  CodesInv'
<1>1. /\ \A q \in Askers \ {r} : asker'[q] = asker[q]
      /\ asker'[r] = s
      /\ \A e \in Codes \ {c} : otp'[e] = otp[e] /\ accepted'[e] = accepted[e] /\ compared'[e] = compared[e]
      /\ otp'[c] = row /\ accepted'[c] = n /\ compared'[c] = k
  BY DEF AccountsInv, AccountsTyped
<1>2. CodesSound'
  BY <1>1 DEF AccountsInv, CodesSound, CodeSound, HandSound
<1>3. CodesKnown'
  <2> SUFFICES ASSUME ~codesMet PROVE
        /\ \A e \in Codes : RowKnown(otp'[e], accepted'[e], compared'[e])
        /\ \A q \in Askers : HandKnown(asker[q])'
        /\ \A q, t \in Askers : asker'[q].c = asker'[t].c => q = t \/ asker'[q].c = 0
    BY DEF CodesKnown, RowKnown
  <2>1. c # 0 /\ \A q \in Askers \ {r} : asker[q].c # c
    BY CodesAreNumbers DEF AccountsInv, CodesKnown
  <2>2. \A e \in Codes : RowKnown(otp'[e], accepted'[e], compared'[e])
    BY <1>1 DEF AccountsInv, CodesKnown
  <2>3. \A q \in Askers \ {r} : HandKnown(asker[q])'
    <3> SUFFICES ASSUME NEW q \in Askers \ {r}, asker[q].pc = "compare" PROVE HandKnown(asker[q])'
      BY <1>1 DEF HandKnown
    <3>1. asker[q].c \in Codes \ {c}
      BY <2>1, CodesAreNumbers DEF AccountsInv, AccountsTyped, AskerStates, CodesSound, HandSound
    <3> QED
      BY <1>1, <3>1 DEF AccountsInv, CodesKnown, HandKnown
  <2>4. HandKnown(asker[r])'
    BY <1>1 DEF HandKnown
  <2>5. \A q, t \in Askers : asker'[q].c = asker'[t].c => q = t \/ asker'[q].c = 0
    BY <1>1, <2>1 DEF AccountsInv, CodesKnown
  <2> QED
    BY <2>2, <2>3, <2>4, <2>5
<1>4. SendsApart'
  BY <1>1 DEF AccountsInv, SendsApart
<1>5. OneCode'
  <2> SUFFICES ASSUME ~codesMet, ~sendsMet PROVE OneCode'
    BY DEF OneCode
  <2>1. \A e \in Codes : otp'[e].purpose \in {"none", otp[e].purpose}
    BY <1>1
  <2>2. \A q \in Askers : asker'[q].pc = "make" => asker'[q] = asker[q]
    BY <1>1
  <2>3. \A q \in Askers : asker[q].pc = "make" => asker[q].purpose # "none"
    BY DEF AccountsInv, CodesSound, HandSound, Purposes
  <2>4. \A e, f \in Codes : otp'[e].purpose = otp'[f].purpose => e = f \/ otp'[e].purpose = "none"
    BY <2>1 DEF AccountsInv, OneCode
  <2>5. \A q \in Askers : asker'[q].pc = "make" => Stored(asker[q].purpose)' = {}
    BY <2>1, <2>2, <2>3 DEF AccountsInv, OneCode, Stored
  <2> QED
    BY <2>2, <2>4, <2>5 DEF OneCode, Stored
<1> QED
  BY <1>2, <1>3, <1>4, <1>5 DEF CodesInv

\* Codes are removed by a request that holds none of them or one of its own.
LEMMA RowsGo ==
  ASSUME AccountsInv, NEW r \in Askers, NEW s \in AskerStates, NEW C \in SUBSET Codes,
         HandSound(s), s.c = 0, s.pc \in {"idle", "make"},
         s.pc = "make" => asker[r].pc = "delete" /\ s.purpose = asker[r].purpose /\ C = Stored(s.purpose),
         asker' = [asker EXCEPT ![r] = s], otp' = [e \in Codes |-> IF e \in C THEN NoCode ELSE otp[e]],
         UNCHANGED <<codesMade, compared, sendsMet, accepted>>,
         codesMet' = (codesMet \/ Held(r, C))
  PROVE  CodesInv'
<1>1. /\ \A q \in Askers \ {r} : asker'[q] = asker[q]
      /\ asker'[r] = s
      /\ \A e \in Codes \ C : otp'[e] = otp[e]
      /\ \A e \in C : otp'[e] = NoCode
  BY DEF AccountsInv, AccountsTyped
<1>2. CodesSound'
  <2>1. \A e \in Codes : CodeSound(e, otp'[e], accepted[e], compared[e]) /\ accepted[e].token \in Nat /\ accepted[e].code \in Nat
    <3> TAKE e \in Codes
    <3>1. accepted[e].token \in Nat /\ accepted[e].code \in Nat
      BY DEF AccountsInv, AccountsTyped
    <3>2. CodeSound(e, otp[e], accepted[e], compared[e])
      BY DEF AccountsInv, CodesSound
    <3> QED
      BY <1>1, <3>1, <3>2, BlankHands DEF CodeSound
  <2>2. \A q \in Askers : HandSound(asker'[q])
    BY <1>1 DEF AccountsInv, CodesSound
  <2> QED
    BY <2>1, <2>2 DEF CodesSound, CodeSound, HandSound
<1>3. CodesKnown'
  <2> SUFFICES ASSUME ~codesMet, ~Held(r, C) PROVE
        /\ \A e \in Codes : RowKnown(otp'[e], accepted[e], compared[e])
        /\ \A q \in Askers : HandKnown(asker[q])'
        /\ \A q, t \in Askers : asker'[q].c = asker'[t].c => q = t \/ asker'[q].c = 0
    BY DEF CodesKnown, RowKnown
  <2>1. \A e \in Codes : RowKnown(otp'[e], accepted[e], compared[e])
    BY <1>1, BlankHands DEF AccountsInv, CodesKnown, RowKnown
  <2>2. \A q \in Askers \ {r} : HandKnown(asker[q])'
    <3> SUFFICES ASSUME NEW q \in Askers \ {r}, asker[q].pc = "compare" PROVE HandKnown(asker[q])'
      BY <1>1 DEF HandKnown
    <3>1. asker[q].c \in Codes \ C
      BY CodesAreNumbers DEF AccountsInv, AccountsTyped, AskerStates, CodesSound, HandSound, Held
    <3> QED
      BY <1>1, <3>1 DEF AccountsInv, CodesKnown, HandKnown
  <2>3. HandKnown(asker[r])'
    BY <1>1 DEF HandKnown
  <2>4. \A q, t \in Askers : asker'[q].c = asker'[t].c => q = t \/ asker'[q].c = 0
    BY <1>1 DEF AccountsInv, CodesKnown
  <2> QED
    BY <2>1, <2>2, <2>3, <2>4
<1>4. SendsApart'
  BY <1>1 DEF AccountsInv, SendsApart
<1>5. OneCode'
  <2> SUFFICES ASSUME ~codesMet, ~sendsMet PROVE OneCode'
    BY DEF OneCode
  <2>1. \A e \in Codes : otp'[e].purpose \in {"none", otp[e].purpose} /\ (e \in C => otp'[e].purpose = "none")
    BY <1>1, BlankHands
  <2>2. \A q \in Askers : asker'[q].pc = "make" => asker'[q].purpose # "none"
    BY <1>1 DEF AccountsInv, CodesSound, HandSound, Purposes
  <2>3. \A e, f \in Codes : otp'[e].purpose = otp'[f].purpose => e = f \/ otp'[e].purpose = "none"
    BY <2>1 DEF AccountsInv, OneCode
  <2>4. \A q \in Askers \ {r} : asker'[q].pc = "make" => \A e \in Codes : otp'[e].purpose # asker'[q].purpose
    BY <1>1, <2>1, <2>2 DEF AccountsInv, OneCode, Stored
  <2>5. s.pc = "make" => \A e \in Codes : otp'[e].purpose # s.purpose
    BY <1>1, <2>1, <2>2 DEF Stored
  <2> QED
    BY <1>1, <2>3, <2>4, <2>5 DEF OneCode, Stored
<1> QED
  BY <1>2, <1>3, <1>4, <1>5 DEF CodesInv

LEMMA NewestIs ==
  ASSUME AccountsInv, NEW p \in Purposes, Stored(p) # {}
  PROVE  Max(Stored(p)) \in Stored(p)
<1> DEFINE Above == {n \in Nat : \A c \in Stored(p) : c <= n}
<1>1. Stored(p) \subseteq Codes /\ Stored(p) \subseteq Nat
  BY CodesAreNumbers DEF Stored
<1>2. codesMade \in Above
  <2>1. \A c \in Stored(p) : c <= codesMade
    BY <1>1, CodesAreNumbers, BlankHands DEF AccountsInv, AccountsTyped, CodesSound, CodeSound, Stored, Purposes
  <2> QED
    BY <2>1 DEF AccountsInv, AccountsTyped
<1>3. PICK n \in Above : \A m \in Above : ~ (<<m, n>> \in OpToRel(<, Nat))
  <2>1. Above # {} /\ Above \subseteq Nat
    BY <1>2
  <2> HIDE DEF Above
  <2> QED
    BY <2>1, NatLessThanWellFounded, WFMin, Zenon
<1>4. \A m \in Above : ~ (m < n)
  BY <1>3 DEF OpToRel
<1>5. n \in Stored(p)
  <2> SUFFICES ASSUME n \notin Stored(p) PROVE FALSE
    OBVIOUS
  <2>1. \A c \in Stored(p) : c <= n - 1 /\ c \in Nat
    BY <1>1
  <2>2. PICK c \in Stored(p) : TRUE
    OBVIOUS
  <2>3. n - 1 \in Above
    BY <2>1, <2>2
  <2> QED
    BY <1>4, <2>3
<1>6. \E x \in Stored(p) : \A y \in Stored(p) : x >= y
  BY <1>1, <1>5
<1> QED
  BY <1>6 DEF Max

LEMMA NewCodeSaved ==
  ASSUME AccountsInv, NEW r \in Askers, SaveNewCode(r)
  PROVE  CodesInv' /\ AccountsTyped'
<1> DEFINE c == codesMade + 1
           p == asker[r].purpose
           row == [NoCode EXCEPT !.purpose = p, !.code = TRUE]
<1>0. /\ c \in Codes /\ codesMade \in Nat /\ asker[r].pc = "make" /\ p \in Purposes /\ p # "none"
  BY DEF AccountsInv, AccountsTyped, SaveNewCode, Has, CodesSound, HandSound, Purposes
<1>1. row \in OtpRows /\ row.purpose = p /\ row.code /\ ~row.token /\ row.attempts = 0
  BY <1>0, BlankHands DEF OtpRows, NoCode
<1>2. /\ otp' = [otp EXCEPT ![c] = row] /\ codesMade' = c /\ asker' = [asker EXCEPT ![r] = Unasking]
      /\ UNCHANGED <<compared, userVars, accepted, codesMet, sendsMet>>
  BY DEF SaveNewCode, Ends
<1> HIDE DEF row
<1>3. /\ \A q \in Askers \ {r} : asker'[q] = asker[q]
      /\ asker'[r] = Unasking
      /\ \A e \in Codes \ {c} : otp'[e] = otp[e]
      /\ otp'[c] = row /\ otp[c] = NoCode /\ accepted[c].code = 0 /\ accepted[c].token = 0 /\ compared[c] = 0
  <2>1. otp[c] = NoCode /\ accepted[c].code = 0 /\ compared[c] = 0 /\ accepted[c].token = 0
    <3>1. CodeSound(c, otp[c], accepted[c], compared[c]) /\ accepted[c].token \in Nat /\ c > codesMade
      BY <1>0 DEF AccountsInv, AccountsTyped, CodesSound
    <3> QED
      BY <3>1, BlankHands DEF CodeSound
  <2> QED
    BY <1>0, <1>2, <2>1 DEF AccountsInv, AccountsTyped
<1>4. AccountsTyped'
  BY <1>0, <1>1, <1>2, BlankHands DEF AccountsInv, AccountsTyped, userVars
<1>5. CodesSound'
  <2>1. \A e \in Codes : CodeSound(e, otp[e], accepted[e], compared[e])
    BY DEF AccountsInv, CodesSound
  <2>2. \A e \in Codes \ {c} : e > c => e > codesMade
    BY <1>0, CodesAreNumbers
  <2>3. \A e \in Codes : CodeSound(e, otp[e], accepted[e], compared[e])'
    BY <1>0, <1>1, <1>2, <1>3, <2>1, <2>2 DEF CodeSound
  <2>4. \A q \in Askers : HandSound(asker[q])'
    <3> TAKE q \in Askers
    <3>1. HandSound(asker[q]) /\ asker[q].c \in Nat
      <4>1. HandSound(asker[q])
        BY DEF AccountsInv, CodesSound
      <4>2. asker[q].c \in Codes \union {0}
        BY DEF AccountsInv, AccountsTyped, AskerStates
      <4>3. asker[q].c \in Nat
        BY <4>2, InHandAreNumbers
      <4> QED
        BY <4>1, <4>3
    <3> QED
      BY <1>0, <1>2, <1>3, <3>1, BlankHands DEF HandSound
  <2> QED
    BY <2>3, <2>4 DEF CodesSound
<1>6. CodesKnown'
  <2> SUFFICES ASSUME ~codesMet PROVE
        /\ \A e \in Codes : RowKnown(otp'[e], accepted[e], compared[e])
        /\ \A q \in Askers : HandKnown(asker[q])'
        /\ \A q, t \in Askers : asker'[q].c = asker'[t].c => q = t \/ asker'[q].c = 0
    BY <1>2 DEF CodesKnown, RowKnown
  <2>1. \A e \in Codes : RowKnown(otp'[e], accepted[e], compared[e])
    BY <1>1, <1>3, CodesAreNumbers DEF AccountsInv, CodesKnown, RowKnown
  <2>2. \A q \in Askers \ {r} : HandKnown(asker[q])'
    <3> SUFFICES ASSUME NEW q \in Askers \ {r}, asker[q].pc = "compare" PROVE HandKnown(asker[q])'
      BY <1>3 DEF HandKnown
    <3>1. asker[q].c # c /\ asker[q].c \in Codes
      BY <1>0, CodesAreNumbers DEF AccountsInv, AccountsTyped, AskerStates, CodesSound, HandSound
    <3> QED
      BY <1>2, <1>3, <3>1 DEF AccountsInv, CodesKnown, HandKnown
  <2>3. HandKnown(asker[r])'
    BY <1>3, BlankHands DEF HandKnown
  <2>4. \A q, t \in Askers : asker'[q].c = asker'[t].c => q = t \/ asker'[q].c = 0
    BY <1>3, BlankHands DEF AccountsInv, CodesKnown
  <2> QED
    BY <2>1, <2>2, <2>3, <2>4
<1>7. SendsApart'
  BY <1>2, <1>3, BlankHands DEF AccountsInv, SendsApart
<1>8. OneCode'
  <2> SUFFICES ASSUME ~codesMet, ~sendsMet PROVE OneCode'
    BY <1>2 DEF OneCode
  <2>1. \A e \in Codes : otp[e].purpose # p
    BY <1>0 DEF AccountsInv, OneCode, Stored
  <2>2. \A e, f \in Codes : otp'[e].purpose = otp'[f].purpose => e = f \/ otp'[e].purpose = "none"
    BY <1>1, <1>3, <2>1 DEF AccountsInv, OneCode
  <2>3. \A q \in Askers \ {r} : asker[q].pc = "make" => asker[q].purpose # p
    BY <1>0 DEF AccountsInv, SendsApart
  <2>4. \A q \in Askers \ {r} : asker[q].pc = "make" => \A e \in Codes : otp'[e].purpose # asker[q].purpose
    BY <1>1, <1>3, <2>3 DEF AccountsInv, OneCode, Stored
  <2> QED
    BY <1>3, <2>2, <2>4, BlankHands DEF OneCode, Stored
<1> QED
  BY <1>4, <1>5, <1>6, <1>7, <1>8 DEF CodesInv

\* Nobody's row of a user changed, and a request that goes on has no deleted user.
LEMMA UserStays ==
  ASSUME AccountsInv, NEW r \in Askers, NEW s \in AskerStates, asker' = [asker EXCEPT ![r] = s],
         UNCHANGED userVars, erased # "alone", erased = "no" => s.user.there
  PROVE  UserSound'
<1>1. /\ \A q \in Askers \ {r} : asker'[q] = asker[q]
      /\ asker'[r] = s
  BY DEF AccountsInv, AccountsTyped
<1> QED
  BY <1>1 DEF AccountsInv, UserSound, userVars

LEMMA NobodyAlone ==
  ASSUME AccountsInv
  PROVE  /\ user.there => erased # "alone"
         /\ \A r \in Askers : asker[r].pc # "idle" => erased # "alone"
         /\ erased = "no" => user.there /\ \A r \in Askers : asker[r].user.there
  BY DEF AccountsInv, UserSound


LEMMA CodeRequested ==
  ASSUME AccountsInv, NEW r \in Askers, NEW p \in Purposes, RequestCode(r, p)
  PROVE  AccountsInv'
<1> DEFINE s == [Unasking EXCEPT !.pc = "delete", !.purpose = p]
<1>1. s \in AskerStates /\ s.pc = "delete" /\ s.purpose = p /\ s.c = 0 /\ s.user = NewUser
  BY BlankHands DEF AskerStates, Unasking
<1>2. /\ asker' = [asker EXCEPT ![r] = s] /\ user.there
      /\ UNCHANGED <<otp, codesMade, compared, userVars, accepted, codesMet>>
      /\ sendsMet' = (sendsMet \/ \E q \in Askers : asker[q].purpose = p /\ asker[q].pc \in {"delete", "make"})
  BY DEF RequestCode, Begins
<1> HIDE DEF s
<1>3. HandSound(s) /\ HandKnown(s)
  BY <1>1 DEF HandSound, HandKnown, AccountsInv, AccountsTyped
<1>4. CodesInv'
  BY <1>1, <1>2, <1>3, HandMoves
<1>5. UserSound'
  BY <1>1, <1>2, BlankHands, NobodyAlone, UserStays
<1>6. AccountsTyped'
  BY <1>1, <1>2 DEF AccountsInv, AccountsTyped, userVars
<1> QED
  BY <1>4, <1>5, <1>6 DEF AccountsInv, CodesInv

LEMMA OldCodesDeleted ==
  ASSUME AccountsInv, NEW r \in Askers, DeleteOldCodes(r)
  PROVE  AccountsInv'
<1> DEFINE s == [asker[r] EXCEPT !.pc = "make"]
           C == Stored(asker[r].purpose)
<1>0. /\ asker[r] \in AskerStates /\ asker[r].pc = "delete" /\ asker[r].purpose \in Purposes
      /\ C \in SUBSET Codes /\ HandSound(asker[r]) /\ asker[r].c = 0
  BY DEF AccountsInv, AccountsTyped, DeleteOldCodes, Has, CodesSound, HandSound, Stored
<1>1. s \in AskerStates /\ s.pc = "make" /\ s.purpose = asker[r].purpose /\ s.c = 0 /\ s.user = asker[r].user
  BY <1>0 DEF AskerStates
<1>2. /\ asker' = [asker EXCEPT ![r] = s] /\ otp' = [e \in Codes |-> IF e \in C THEN NoCode ELSE otp[e]]
      /\ UNCHANGED <<codesMade, compared, userVars, accepted, sendsMet>>
      /\ codesMet' = (codesMet \/ Held(r, C))
  BY DEF DeleteOldCodes, Turns, Remove
<1> HIDE DEF s, C
<1>3. HandSound(s)
  BY <1>0, <1>1 DEF HandSound
<1>4. CodesInv'
  <2>1. C = Stored(s.purpose)
    BY <1>1 DEF C
  <2> QED
    BY <1>0, <1>1, <1>2, <1>3, <2>1, RowsGo
<1>5. UserSound'
  BY <1>0, <1>1, <1>2, NobodyAlone, UserStays
<1>6. AccountsTyped'
  BY <1>0, <1>1, <1>2, BlankHands DEF AccountsInv, AccountsTyped, userVars
<1> QED
  BY <1>4, <1>5, <1>6 DEF AccountsInv, CodesInv

LEMMA CodeLoaded ==
  ASSUME AccountsInv, NEW r \in Askers, NEW p \in Purposes, NEW right \in BOOLEAN, SubmitCode(r, p, right)
  PROVE  AccountsInv'
<1>0. Stored(p) # {} /\ user.there /\ user \in Users
  BY DEF SubmitCode, AccountsInv, AccountsTyped
<1>1. PICK c \in Codes : c = Max(Stored(p)) /\ otp[c].purpose = p
  BY <1>0, NewestIs DEF Stored
<1> DEFINE s == [pc |-> "compare", purpose |-> p, c |-> c, right |-> right, copy |-> otp[c], user |-> user]
<1>2. /\ s \in AskerStates /\ s.pc = "compare" /\ s.purpose = p /\ s.c = c /\ s.user = user /\ s.copy = otp[c]
  BY <1>0 DEF AskerStates, AccountsInv, AccountsTyped
<1>3. /\ asker' = [asker EXCEPT ![r] = s]
      /\ UNCHANGED <<codeVars, userVars, accepted, sendsMet>>
      /\ codesMet' = (codesMet \/ Held(r, {c}))
  BY <1>1 DEF SubmitCode, Begins
<1> HIDE DEF s
<1>4. CodeSound(c, otp[c], accepted[c], compared[c]) /\ codesMade \in Nat /\ c \in Nat /\ c # 0
  BY CodesAreNumbers DEF AccountsInv, CodesSound, AccountsTyped
<1>5. HandSound(s)
  BY <1>1, <1>2, <1>4, BlankHands DEF HandSound, CodeSound, Purposes
<1>6. ~codesMet => HandKnown(s)
  BY <1>1, <1>2 DEF HandKnown, AccountsInv, CodesKnown, RowKnown
<1>7. CodesInv'
  <2>1. ~codesMet' => \A q \in Askers \ {r} : asker[q].c # s.c
    BY <1>2, <1>3 DEF Held
  <2>2. UNCHANGED <<otp, codesMade, compared>> /\ accepted' = accepted
    BY <1>3 DEF codeVars
  <2>3. (codesMet => codesMet') /\ (sendsMet => sendsMet')
    BY <1>3
  <2> QED
    BY <1>2, <1>3, <1>5, <1>6, <2>1, <2>2, <2>3, HandMoves
<1>8. UserSound'
  BY <1>0, <1>2, <1>3, NobodyAlone, UserStays
<1>9. AccountsTyped'
  BY <1>2, <1>3 DEF AccountsInv, AccountsTyped, userVars, codeVars
<1> QED
  BY <1>7, <1>8, <1>9 DEF AccountsInv, CodesInv

LEMMA TokenLoaded ==
  ASSUME AccountsInv, NEW r \in Askers, NEW c \in Codes, ResetPassword(r, c)
  PROVE  AccountsInv'
<1>0. user.there /\ user \in Users /\ otp[c].token
  BY DEF ResetPassword, AccountsInv, AccountsTyped
<1> DEFINE s == [Unasking EXCEPT !.pc = "consume", !.purpose = "RESET", !.c = c, !.user = user]
<1>2. /\ s \in AskerStates /\ s.pc = "consume" /\ s.c = c /\ s.user = user /\ s.purpose = "RESET"
  BY <1>0, BlankHands DEF AskerStates, Unasking, Purposes
<1>3. /\ asker' = [asker EXCEPT ![r] = s]
      /\ UNCHANGED <<codeVars, userVars, accepted, sendsMet>>
      /\ codesMet' = (codesMet \/ Held(r, {c}))
  BY DEF ResetPassword, Begins
<1> HIDE DEF s
<1>4. CodeSound(c, otp[c], accepted[c], compared[c]) /\ codesMade \in Nat /\ c \in Nat /\ c # 0
  BY CodesAreNumbers DEF AccountsInv, CodesSound, AccountsTyped
<1>5. HandSound(s) /\ HandKnown(s)
  BY <1>0, <1>2, <1>4, BlankHands DEF HandSound, HandKnown, CodeSound
<1>7. CodesInv'
  <2>1. ~codesMet' => \A q \in Askers \ {r} : asker[q].c # s.c
    BY <1>2, <1>3 DEF Held
  <2>2. UNCHANGED <<otp, codesMade, compared>> /\ accepted' = accepted
    BY <1>3 DEF codeVars
  <2>3. (codesMet => codesMet') /\ (sendsMet => sendsMet')
    BY <1>3
  <2> QED
    BY <1>2, <1>3, <1>5, <2>1, <2>2, <2>3, HandMoves
<1>8. UserSound'
  BY <1>0, <1>2, <1>3, NobodyAlone, UserStays
<1>9. AccountsTyped'
  BY <1>2, <1>3 DEF AccountsInv, AccountsTyped, userVars, codeVars
<1> QED
  BY <1>7, <1>8, <1>9 DEF AccountsInv, CodesInv

\* The code in hand, its row and its counts.
LEMMA InHand ==
  ASSUME AccountsInv, NEW r \in Askers, asker[r].pc \in {"compare", "consume", "erase"}
  PROVE  /\ asker[r].c \in Codes /\ asker[r] \in AskerStates /\ HandSound(asker[r])
         /\ CodeSound(asker[r].c, otp[asker[r].c], accepted[asker[r].c], compared[asker[r].c])
         /\ asker[r].c <= codesMade /\ asker[r].c \in Nat /\ codesMade \in Nat
         /\ ~codesMet => RowKnown(otp[asker[r].c], accepted[asker[r].c], compared[asker[r].c]) /\ HandKnown(asker[r])
         /\ otp[asker[r].c] \in OtpRows /\ asker[r].copy \in OtpRows
         /\ accepted[asker[r].c] \in [code : Nat, token : Nat] /\ compared[asker[r].c] \in Nat
<1>1. asker[r].c \in Codes /\ asker[r] \in AskerStates /\ HandSound(asker[r]) /\ asker[r].copy \in OtpRows
  BY CodesAreNumbers DEF AccountsInv, AccountsTyped, AskerStates, CodesSound, HandSound
<1>2. asker[r].c <= codesMade /\ asker[r].c \in Nat /\ codesMade \in Nat
  BY <1>1, CodesAreNumbers DEF HandSound, AccountsInv, AccountsTyped
<1> QED
  BY <1>1, <1>2 DEF AccountsInv, AccountsTyped, CodesSound, CodesKnown

\* The copies that are saved.
LEMMA AttemptedRow ==
  ASSUME NEW x \in OtpRows, NEW b \in BOOLEAN, NEW y,
         y = [x EXCEPT !.attempts = x.attempts + 1, !.expired = b]
  PROVE  /\ y \in OtpRows /\ y.purpose = x.purpose /\ y.code = x.code /\ y.token = x.token
         /\ y.attempts = x.attempts + 1 /\ x.attempts \in Nat
<1>1. x.attempts \in Nat
  BY DEF OtpRows
<1>2. PICK k \in Nat : k = x.attempts + 1
  BY <1>1
<1>3. y = [x EXCEPT !.attempts = k, !.expired = b]
  BY <1>2
<1>4. y \in OtpRows /\ y.purpose = x.purpose /\ y.code = x.code /\ y.token = x.token /\ y.attempts = k
  BY <1>3 DEF OtpRows
<1> QED
  BY <1>1, <1>2, <1>4

LEMMA ExchangedRow ==
  ASSUME NEW x \in OtpRows, NEW b \in BOOLEAN, NEW y,
         y = [x EXCEPT !.code = FALSE, !.token = TRUE, !.expired = b]
  PROVE  y \in OtpRows /\ y.purpose = x.purpose /\ ~y.code /\ y.token
  BY DEF OtpRows

LEMMA CodeRefusedOrWrong ==
  ASSUME AccountsInv, NEW r \in Askers, RefuseCode(r) \/ WrongCode(r)
  PROVE  AccountsInv'
<1> DEFINE c == asker[r].c
           s == Unasking
<1>0. asker[r].pc = "compare" /\ c \in Codes /\ UNCHANGED <<userVars, codesMade, accepted, codesMet, sendsMet>>
      /\ asker' = [asker EXCEPT ![r] = s]
  BY InHand DEF RefuseCode, WrongCode, Compares, Has, Ends
<1>1. /\ CodeSound(c, otp[c], accepted[c], compared[c])
      /\ c <= codesMade /\ c \in Nat /\ codesMade \in Nat
      /\ ~codesMet => RowKnown(otp[c], accepted[c], compared[c]) /\ HandKnown(asker[r])
      /\ otp[c] \in OtpRows /\ asker[r].copy \in OtpRows /\ HandSound(asker[r])
      /\ accepted[c] \in [code : Nat, token : Nat] /\ compared[c] \in Nat
  BY <1>0, InHand
<1>2. ~(c > codesMade) /\ accepted[c].token \in Nat /\ accepted[c].code \in Nat
      /\ accepted[c].token <= accepted[c].code
  <2>1. ~(c > codesMade) /\ accepted[c].token \in Nat /\ accepted[c].code \in Nat
    BY <1>1
  <2> QED
    BY <1>1, <2>1 DEF CodeSound
<1> DEFINE Fits(row, k) ==
             /\ otp' = [otp EXCEPT ![c] = row] /\ compared' = [compared EXCEPT ![c] = k]
             /\ CodeSound(c, row, accepted[c], k)
             /\ ~codesMet => RowKnown(row, accepted[c], k) /\ row.purpose \in {"none", otp[c].purpose}
<1>3. \E row \in OtpRows, k \in Nat : Fits(row, k)
  <2> HIDE DEF c
  <2>1. CASE UNCHANGED <<otp, compared>>
    <3>1. otp' = [otp EXCEPT ![c] = otp[c]] /\ compared' = [compared EXCEPT ![c] = compared[c]]
      BY <2>1, <1>0 DEF AccountsInv, AccountsTyped
    <3>2. Fits(otp[c], compared[c])
      BY <3>1, <1>1
    <3> HIDE DEF Fits
    <3> QED
      BY <3>2, <1>1
  <2>2. ASSUME NEW k \in Nat, ~codesMet => k <= MaxAttempts, compared' = [compared EXCEPT ![c] = k],
               Remove({c})
        PROVE  \E row \in OtpRows, n \in Nat : Fits(row, n)
    <3>1. otp' = [otp EXCEPT ![c] = NoCode]
      BY <2>2 DEF Remove, AccountsInv, AccountsTyped
    <3>2. CodeSound(c, NoCode, accepted[c], k)
      BY <1>2, BlankHands DEF CodeSound
    <3>3. ~codesMet => RowKnown(NoCode, accepted[c], k)
      BY <2>2, <1>1, BlankHands DEF RowKnown
    <3>4. Fits(NoCode, k)
      BY <2>2, <3>1, <3>2, <3>3, BlankHands
    <3> HIDE DEF Fits
    <3> QED
      BY <3>4, BlankHands
  <2>3. CASE RefuseCode(r)
    <3>1. compared' = [compared EXCEPT ![c] = compared[c]] /\ compared' = compared /\ (Remove({c}) \/ UNCHANGED otp)
      BY <2>3, <1>0 DEF RefuseCode, AccountsInv, AccountsTyped, c
    <3>2. ~codesMet => compared[c] <= MaxAttempts
      BY <1>1 DEF RowKnown
    <3> HIDE DEF Fits
    <3> QED
      BY <2>1, <2>2, <3>1, <3>2, <1>1
  <2>4. CASE WrongCode(r)
    <3> DEFINE k == compared[c] + 1
               b == asker[r].copy.expired \/ otp[c].expired
               row == [asker[r].copy EXCEPT !.attempts = asker[r].copy.attempts + 1, !.expired = b]
    <3>1. /\ compared' = [compared EXCEPT ![c] = k] /\ ~CodeRefused(asker[r].copy) /\ asker[r].copy.code
          /\ asker[r].copy.purpose = asker[r].purpose /\ ~asker[r].copy.token
      BY <2>4, <1>0, <1>1 DEF WrongCode, Compares, HandSound, c
    <3>2. Remove({c}) \/ otp' = [otp EXCEPT ![c] = row]
      <4>1. Remove({c}) \/ SaveCode(r, [asker[r].copy EXCEPT !.attempts = @ + 1])
        BY <2>4 DEF WrongCode, c
      <4>2. [[asker[r].copy EXCEPT !.attempts = @ + 1] EXCEPT !.expired = @ \/ otp[c].expired] = row
        BY <1>1 DEF OtpRows
      <4> QED
        BY <4>1, <4>2 DEF SaveCode, c
    <3>b. b \in BOOLEAN
      OBVIOUS
    <3> HIDE DEF b
    <3>3. /\ row \in OtpRows /\ row.purpose = asker[r].purpose /\ ~row.token /\ row.code
          /\ row.attempts = asker[r].copy.attempts + 1 /\ k \in Nat /\ asker[r].copy.attempts \in Nat
      <4>1. row.purpose = asker[r].copy.purpose /\ row.code = asker[r].copy.code /\ row.token = asker[r].copy.token
            /\ row \in OtpRows /\ row.attempts = asker[r].copy.attempts + 1 /\ asker[r].copy.attempts \in Nat
        BY <1>1, <3>b, AttemptedRow
      <4> QED
        BY <1>1, <3>1, <4>1
    <3>4. asker[r].copy.attempts < MaxAttempts
      BY <3>1, <3>3, CodesAreNumbers DEF CodeRefused
    <3>5. ~codesMet => /\ accepted[c].code = 0 /\ compared[c] = asker[r].copy.attempts
                       /\ otp[c].purpose = asker[r].purpose
      BY <1>0, <1>1, <3>1 DEF HandKnown, c
    <3> HIDE DEF k, row
    <3>6. ~codesMet => k = row.attempts /\ k <= MaxAttempts
      BY <3>3, <3>4, <3>5, CodesAreNumbers DEF k
    <3>7. CodeSound(c, row, accepted[c], k)
      BY <1>2, <3>3 DEF CodeSound
    <3>8. ~codesMet => RowKnown(row, accepted[c], k)
      BY <3>3, <3>5, <3>6 DEF RowKnown
    <3>9. CASE otp' = [otp EXCEPT ![c] = row]
      <4>1. Fits(row, k)
        BY <3>1, <3>3, <3>5, <3>7, <3>8, <3>9
      <4> HIDE DEF Fits
      <4> QED
        BY <3>3, <4>1
    <3> HIDE DEF Fits
    <3> QED
      BY <2>2, <3>1, <3>2, <3>3, <3>6, <3>9
  <2> HIDE DEF Fits
  <2> QED
    BY <2>3, <2>4
<1>4. PICK row \in OtpRows, k \in Nat : Fits(row, k)
  <2> HIDE DEF Fits
  <2> QED
    BY <1>3
<1>5. HandSound(s) /\ s \in AskerStates /\ s.pc = "idle" /\ s.c = 0
  BY BlankHands DEF HandSound, AccountsInv, AccountsTyped
<1> HIDE DEF s
<1>6. CodesInv'
  <2>1. accepted' = [accepted EXCEPT ![c] = accepted[c]]
    BY <1>0 DEF AccountsInv, AccountsTyped
  <2> QED
    BY <1>0, <1>1, <1>4, <1>5, <2>1, RowMoves
<1>7. UserSound'
  BY <1>0, <1>5, BlankHands, NobodyAlone, UserStays DEF s
<1>8. AccountsTyped'
  BY <1>0, <1>4, <1>5 DEF AccountsInv, AccountsTyped, userVars
<1> QED
  BY <1>6, <1>7, <1>8 DEF AccountsInv, CodesInv

LEMMA CodeAccepted ==
  ASSUME AccountsInv, NEW r \in Askers, RightCode(r)
  PROVE  AccountsInv'
<1> DEFINE c == asker[r].c
           p == asker[r].purpose
<1>0. /\ asker[r].pc = "compare" /\ c \in Codes /\ UNCHANGED <<userVars, codesMade, compared, codesMet, sendsMet>>
      /\ asker[r].copy.code
      /\ accepted' = IF p = "DELETE" THEN accepted ELSE [accepted EXCEPT ![c].code = @ + 1]
  BY InHand DEF RightCode, Compares, Has
<1>1. /\ CodeSound(c, otp[c], accepted[c], compared[c])
      /\ c <= codesMade /\ c \in Nat /\ codesMade \in Nat /\ asker[r] \in AskerStates
      /\ ~codesMet => RowKnown(otp[c], accepted[c], compared[c]) /\ HandKnown(asker[r])
      /\ otp[c] \in OtpRows /\ asker[r].copy \in OtpRows /\ HandSound(asker[r])
      /\ accepted[c] \in [code : Nat, token : Nat] /\ compared[c] \in Nat
  BY <1>0, InHand
<1>2. ~(c > codesMade) /\ accepted[c].token \in Nat /\ accepted[c].code \in Nat
      /\ accepted[c].token <= accepted[c].code /\ p \in Purposes /\ asker[r].copy.purpose = p
  <2>1. ~(c > codesMade) /\ accepted[c].token \in Nat /\ accepted[c].code \in Nat
    BY <1>1
  <2> QED
    BY <1>0, <1>1, <2>1 DEF CodeSound, HandSound
<1>3. ~codesMet => /\ accepted[c].code = 0 /\ compared[c] <= MaxAttempts /\ otp[c].purpose = p
  BY <1>0, <1>1 DEF HandKnown, RowKnown
<1> DEFINE Fits(s, row, n) ==
             /\ HandSound(s) /\ s.pc \in {"user", "idle", "erase"} /\ s.c \in {0, c}
             /\ erased = "no" => s.user.there
             /\ asker' = [asker EXCEPT ![r] = s]
             /\ otp' = [otp EXCEPT ![c] = row] /\ accepted' = [accepted EXCEPT ![c] = n]
             /\ CodeSound(c, row, n, compared[c])
             /\ ~codesMet => RowKnown(row, n, compared[c]) /\ row.purpose \in {"none", otp[c].purpose}
<1>n. erased = "no" => user.there /\ asker[r].user.there
  BY NobodyAlone
<1>4. \E s \in AskerStates, row \in OtpRows, n \in [code : Nat, token : Nat] : Fits(s, row, n)
  <2> DEFINE n == [accepted[c] EXCEPT !.code = accepted[c].code + 1]
  <2>1. n \in [code : Nat, token : Nat] /\ n.code = accepted[c].code + 1 /\ n.token = accepted[c].token
    BY <1>1
  <2>2. p # "DELETE" => accepted' = [accepted EXCEPT ![c] = n]
    BY <1>0
  <2> HIDE DEF n
  <2>3. CASE p \in {"VERIFY", "EMAIL"}
    <3>1. PICK s \in AskerStates : /\ asker' = [asker EXCEPT ![r] = s] /\ s.pc = "user" /\ s.c = c /\ s.purpose = p
                                   /\ s.user \in {user, asker[r].user}
      <4> DEFINE t == [asker[r] EXCEPT !.pc = "user"]
                 v == [t EXCEPT !.user = user]
      <4>1. /\ t \in AskerStates /\ t.pc = "user" /\ t.c = c /\ t.purpose = p /\ t.user = asker[r].user
            /\ v \in AskerStates /\ v.pc = "user" /\ v.c = c /\ v.purpose = p /\ v.user = user
        BY <1>1 DEF AskerStates, AccountsInv, AccountsTyped
      <4>2. asker' = [asker EXCEPT ![r] = t] \/ asker' = [asker EXCEPT ![r] = v]
        BY <2>3 DEF RightCode, Turns
      <4> QED
        BY <4>1, <4>2
    <3>2. otp' = [otp EXCEPT ![c] = NoCode]
      BY <2>3 DEF RightCode, Remove, AccountsInv, AccountsTyped
    <3>3. HandSound(s)
      BY <1>1, <2>3, <3>1 DEF HandSound
    <3>4. CodeSound(c, NoCode, n, compared[c])
      BY <1>2, <2>1, BlankHands DEF CodeSound
    <3>5. ~codesMet => RowKnown(NoCode, n, compared[c])
      BY <1>3, <2>1, BlankHands DEF RowKnown
    <3>6. Fits(s, NoCode, n)
      BY <1>n, <2>2, <2>3, <3>1, <3>2, <3>3, <3>4, <3>5, BlankHands
    <3> HIDE DEF Fits
    <3> QED
      BY <2>1, <3>6, BlankHands
  <2>4. CASE p = "RESET"
    <3> DEFINE b == asker[r].copy.expired \/ otp[c].expired
               row == [asker[r].copy EXCEPT !.code = FALSE, !.token = TRUE, !.expired = b]
    <3>1. otp' = [otp EXCEPT ![c] = row] /\ asker' = [asker EXCEPT ![r] = Unasking]
      <4>1. SaveCode(r, [asker[r].copy EXCEPT !.code = FALSE, !.token = TRUE]) /\ asker' = [asker EXCEPT ![r] = Unasking]
        BY <2>4 DEF RightCode, Ends
      <4>2. [[asker[r].copy EXCEPT !.code = FALSE, !.token = TRUE] EXCEPT !.expired = @ \/ otp[c].expired] = row
        BY <1>1 DEF OtpRows
      <4> QED
        BY <4>1, <4>2 DEF SaveCode
    <3>b. b \in BOOLEAN
      OBVIOUS
    <3> HIDE DEF b
    <3>2. row \in OtpRows /\ row.purpose = p /\ ~row.code /\ row.token
      BY <1>1, <1>2, <3>b, ExchangedRow, ZenonT(60)
    <3> HIDE DEF row
    <3>3. HandSound(Unasking)
      BY BlankHands DEF HandSound, AccountsInv, AccountsTyped
    <3>4. CodeSound(c, row, n, compared[c])
      BY <1>2, <2>1, <3>2 DEF CodeSound
    <3>5. ~codesMet => RowKnown(row, n, compared[c])
      BY <1>3, <2>1, <3>2 DEF RowKnown
    <3>6. Fits(Unasking, row, n)
      BY <1>3, <2>2, <2>4, <3>1, <3>2, <3>3, <3>4, <3>5, BlankHands
    <3> HIDE DEF Fits
    <3> QED
      BY <2>1, <3>2, <3>6, BlankHands
  <2>5. CASE p = "DELETE"
    <3> DEFINE s == [asker[r] EXCEPT !.pc = "erase"]
    <3>1. s \in AskerStates /\ s.pc = "erase" /\ s.c = c /\ s.user = asker[r].user
      BY <1>1 DEF AskerStates
    <3>2. /\ asker' = [asker EXCEPT ![r] = s] /\ otp' = [otp EXCEPT ![c] = otp[c]]
          /\ accepted' = [accepted EXCEPT ![c] = accepted[c]]
      BY <1>0, <2>5 DEF RightCode, Turns, AccountsInv, AccountsTyped
    <3>3. HandSound(s)
      BY <1>0, <1>1, <3>1 DEF HandSound
    <3> HIDE DEF s
    <3>4. Fits(s, otp[c], accepted[c])
      BY <1>1, <1>n, <3>1, <3>2, <3>3
    <3> HIDE DEF Fits
    <3> QED
      BY <1>1, <3>1, <3>4
  <2> HIDE DEF Fits
  <2> QED
    BY <1>2, <2>3, <2>4, <2>5 DEF Purposes
<1>5. PICK s \in AskerStates, row \in OtpRows, n \in [code : Nat, token : Nat] : Fits(s, row, n)
  <2> HIDE DEF Fits
  <2> QED
    BY <1>4
<1>6. CodesInv'
  <2>1. compared' = [compared EXCEPT ![c] = compared[c]]
    BY <1>0 DEF AccountsInv, AccountsTyped
  <2> QED
    <3>1. UNCHANGED <<codesMade, codesMet, sendsMet>> /\ c \in Codes
      BY <1>0
    <3>2. s.pc \in {"idle", "user", "erase"} /\ s.c \in {0, asker[r].c} /\ HandSound(s)
      BY <1>5
    <3>3. CodeSound(c, row, n, compared[c]) /\ (~codesMet => RowKnown(row, n, compared[c]))
          /\ (~codesMet => row.purpose \in {"none", otp[c].purpose})
      BY <1>5
    <3>4. /\ asker' = [asker EXCEPT ![r] = s] /\ otp' = [otp EXCEPT ![c] = row]
          /\ accepted' = [accepted EXCEPT ![c] = n]
      BY <1>5
    <3>5. compared[c] \in Nat /\ asker[r].c = c
      BY <1>1
    <3> HIDE DEF Fits, c
    <3> QED
      BY <2>1, <3>1, <3>2, <3>3, <3>4, <3>5, RowMoves
<1>7. UserSound'
  BY <1>0, <1>5, NobodyAlone, UserStays
<1>8. AccountsTyped'
  BY <1>0, <1>5 DEF AccountsInv, AccountsTyped, userVars
<1> QED
  BY <1>6, <1>7, <1>8 DEF AccountsInv, CodesInv

LEMMA TokenConsumed ==
  ASSUME AccountsInv, NEW r \in Askers, ConsumeToken(r)
  PROVE  AccountsInv'
<1> DEFINE c == asker[r].c
<1>0. asker[r].pc = "consume" /\ c \in Codes /\ UNCHANGED <<userVars, codesMade, compared, codesMet, sendsMet>>
  BY InHand DEF ConsumeToken, Has
<1>1. /\ CodeSound(c, otp[c], accepted[c], compared[c])
      /\ c <= codesMade /\ c \in Nat /\ codesMade \in Nat /\ asker[r] \in AskerStates
      /\ ~codesMet => RowKnown(otp[c], accepted[c], compared[c])
      /\ otp[c] \in OtpRows /\ HandSound(asker[r])
      /\ accepted[c] \in [code : Nat, token : Nat] /\ compared[c] \in Nat
  BY <1>0, InHand
<1>2. ~(c > codesMade) /\ accepted[c].token \in Nat /\ accepted[c].code \in Nat
  BY <1>1
<1> DEFINE Fits(s, row, n) ==
             /\ HandSound(s) /\ s.pc \in {"user", "idle"} /\ s.c \in {0, c}
             /\ erased = "no" => s.user.there
             /\ asker' = [asker EXCEPT ![r] = s]
             /\ otp' = [otp EXCEPT ![c] = row] /\ accepted' = [accepted EXCEPT ![c] = n]
             /\ CodeSound(c, row, n, compared[c])
             /\ ~codesMet => RowKnown(row, n, compared[c]) /\ row.purpose \in {"none", otp[c].purpose}
<1>3. \E s \in AskerStates, row \in OtpRows, n \in [code : Nat, token : Nat] : Fits(s, row, n)
  <2>1. CASE otp[c].token
    <3> DEFINE s == [asker[r] EXCEPT !.pc = "user"]
               n == [accepted[c] EXCEPT !.token = accepted[c].token + 1]
    <3>1. s \in AskerStates /\ s.pc = "user" /\ s.c = c /\ s.user = asker[r].user /\ s.purpose = asker[r].purpose
      BY <1>1 DEF AskerStates
    <3>2. n \in [code : Nat, token : Nat] /\ n.code = accepted[c].code /\ n.token = accepted[c].token + 1
      BY <1>1
    <3>3. /\ asker' = [asker EXCEPT ![r] = s] /\ otp' = [otp EXCEPT ![c] = NoCode]
          /\ accepted' = [accepted EXCEPT ![c] = n]
      BY <2>1 DEF ConsumeToken, Consumes, Turns, Remove, AccountsInv, AccountsTyped
    <3>4. asker[r].purpose = "RESET"
      BY <1>0, <1>1 DEF HandSound
    <3> HIDE DEF s, n
    <3>5. HandSound(s)
      BY <1>1, <3>1, <3>4 DEF HandSound
    <3>6. CodeSound(c, NoCode, n, compared[c])
      BY <1>1, <1>2, <2>1, <3>2, BlankHands DEF CodeSound
    <3>7. ~codesMet => RowKnown(NoCode, n, compared[c])
      BY <1>1, <3>2, BlankHands DEF RowKnown
    <3>8. Fits(s, NoCode, n)
      BY <3>1, <3>3, <3>5, <3>6, <3>7, BlankHands, NobodyAlone
    <3> HIDE DEF Fits
    <3> QED
      BY <3>1, <3>2, <3>8, BlankHands
  <2>2. CASE ~otp[c].token
    <3>1. /\ asker' = [asker EXCEPT ![r] = Unasking] /\ otp' = [otp EXCEPT ![c] = otp[c]]
          /\ accepted' = [accepted EXCEPT ![c] = accepted[c]]
      BY <2>2 DEF ConsumeToken, Consumes, Ends, AccountsInv, AccountsTyped
    <3>2. HandSound(Unasking)
      BY BlankHands DEF HandSound, AccountsInv, AccountsTyped
    <3>3. Fits(Unasking, otp[c], accepted[c])
      BY <1>1, <3>1, <3>2, BlankHands
    <3> HIDE DEF Fits
    <3> QED
      BY <1>1, <3>3, BlankHands
  <2> QED
    BY <2>1, <2>2
<1>5. PICK s \in AskerStates, row \in OtpRows, n \in [code : Nat, token : Nat] : Fits(s, row, n)
  <2> HIDE DEF Fits
  <2> QED
    BY <1>3
<1>6. CodesInv'
  <2>1. compared' = [compared EXCEPT ![c] = compared[c]]
    BY <1>0 DEF AccountsInv, AccountsTyped
  <2>2. UNCHANGED <<codesMade, codesMet, sendsMet>> /\ c \in Codes
    BY <1>0
  <2>3. s.pc \in {"idle", "user", "erase"} /\ s.c \in {0, asker[r].c} /\ HandSound(s)
    BY <1>5
  <2>4. CodeSound(c, row, n, compared[c]) /\ (~codesMet => RowKnown(row, n, compared[c]))
        /\ (~codesMet => row.purpose \in {"none", otp[c].purpose})
    BY <1>5
  <2>5. /\ asker' = [asker EXCEPT ![r] = s] /\ otp' = [otp EXCEPT ![c] = row]
        /\ accepted' = [accepted EXCEPT ![c] = n]
    BY <1>5
  <2>6. compared[c] \in Nat /\ asker[r].c = c
    BY <1>1
  <2> HIDE DEF Fits, c
  <2> QED
    BY <2>1, <2>2, <2>3, <2>4, <2>5, <2>6, RowMoves
<1>7. UserSound'
  BY <1>0, <1>5, NobodyAlone, UserStays
<1>8. AccountsTyped'
  BY <1>0, <1>5 DEF AccountsInv, AccountsTyped, userVars
<1> QED
  BY <1>6, <1>7, <1>8 DEF AccountsInv, CodesInv

\* A request ends and leaves the codes alone.
LEMMA HandEnds ==
  ASSUME AccountsInv, NEW r \in Askers, asker' = [asker EXCEPT ![r] = Unasking],
         UNCHANGED <<codeVars, accepted, codesMet, sendsMet>>
  PROVE  CodesInv' /\ asker' \in [Askers -> AskerStates]
<1>1. HandSound(Unasking) /\ HandKnown(Unasking)
  BY BlankHands DEF HandSound, HandKnown, AccountsInv, AccountsTyped
<1>2. UNCHANGED <<otp, codesMade, compared>>
  BY DEF codeVars
<1>3. CodesInv'
  BY <1>1, <1>2, BlankHands, HandMoves
<1> QED
  BY <1>3, BlankHands DEF AccountsInv, AccountsTyped

LEMMA UserUpdated ==
  ASSUME AccountsInv, NEW r \in Askers, UpdateUser(r)
  PROVE  AccountsInv'
<1> DEFINE copy == asker[r].user
           p == asker[r].purpose
           password == decidedPassword + 1
<1>0. /\ asker[r].pc = "user" /\ copy \in Users /\ p \in {"VERIFY", "EMAIL", "RESET", "BAN", "LIFT"}
      /\ password \in Nat /\ asker' = [asker EXCEPT ![r] = Unasking]
      /\ UNCHANGED <<codeVars, accepted, codesMet, sendsMet, erased>>
  BY DEF UpdateUser, Has, Ends, SaveUser, AccountsInv, AccountsTyped, AskerStates, CodesSound, HandSound
<1>1. /\ userOverwritten' = (userOverwritten \/ user # copy)
      /\ decidedPassword' = IF p = "RESET" THEN password ELSE decidedPassword
      /\ decidedBan' = IF p \in {"BAN", "LIFT"} THEN p = "BAN" ELSE decidedBan
  BY DEF UpdateUser, SaveUser
<1>2. CodesInv' /\ asker' \in [Askers -> AskerStates]
  BY <1>0, HandEnds
<1>3. /\ user' \in Users /\ user'.there = copy.there
      /\ user'.password = IF p = "RESET" THEN password ELSE copy.password
      /\ user'.banned = IF p \in {"BAN", "LIFT"} THEN p = "BAN" ELSE copy.banned
  <2> HIDE DEF password
  <2>1. CASE p = "VERIFY"
    <3>1. user' = [copy EXCEPT !.verified = TRUE]
      BY <2>1 DEF UpdateUser, SaveUser
    <3> QED
      BY <1>0, <2>1, <3>1 DEF Users
  <2>2. CASE p = "EMAIL"
    <3>1. user' = [copy EXCEPT !.verified = TRUE, !.email = "new"]
      BY <2>2 DEF UpdateUser, SaveUser
    <3> QED
      BY <1>0, <2>2, <3>1 DEF Users
  <2>3. CASE p = "RESET"
    <3>1. user' = [copy EXCEPT !.password = password]
      BY <2>3 DEF UpdateUser, SaveUser, password
    <3> QED
      BY <1>0, <2>3, <3>1 DEF Users
  <2>4. CASE p = "BAN"
    <3>1. user' = [copy EXCEPT !.banned = TRUE]
      BY <2>4 DEF UpdateUser, SaveUser
    <3> QED
      BY <1>0, <2>4, <3>1 DEF Users
  <2>5. CASE p = "LIFT"
    <3>1. user' = [copy EXCEPT !.banned = FALSE]
      BY <2>5 DEF UpdateUser, SaveUser
    <3> QED
      BY <1>0, <2>5, <3>1 DEF Users
  <2> QED
    BY <1>0, <2>1, <2>2, <2>3, <2>4, <2>5
<1>4. AccountsTyped'
  BY <1>0, <1>1, <1>2, <1>3 DEF AccountsInv, AccountsTyped, codeVars
<1>5. UserSound'
  <2>1. ~userOverwritten' => user'.banned = decidedBan' /\ user'.password = decidedPassword'
    BY <1>1, <1>3 DEF AccountsInv, UserSound
  <2>2. erased # "alone" /\ (erased = "no" => copy.there /\ \A q \in Askers : asker'[q].user.there)
    BY <1>0, NobodyAlone, BlankHands DEF AccountsInv, AccountsTyped
  <2> QED
    BY <1>0, <1>3, <2>1, <2>2 DEF UserSound
<1> QED
  BY <1>2, <1>4, <1>5 DEF AccountsInv, CodesInv

LEMMA UserRestricted ==
  ASSUME AccountsInv, NEW r \in Askers, RestrictUser(r)
  PROVE  AccountsInv'
<1>0. user.there /\ user \in Users
  BY DEF RestrictUser, AccountsInv, AccountsTyped
<1> DEFINE p == IF user.banned THEN "LIFT" ELSE "BAN"
           s == [Unasking EXCEPT !.pc = "user", !.user = user, !.purpose = p]
<1>2. /\ s \in AskerStates /\ s.pc = "user" /\ s.c = 0 /\ s.user = user /\ s.purpose \in {"BAN", "LIFT"}
  BY <1>0, BlankHands DEF AskerStates, Unasking, Purposes
<1>3. asker' = [asker EXCEPT ![r] = s] /\ UNCHANGED <<codeVars, userVars, accepted, codesMet, sendsMet>>
  BY DEF RestrictUser, Begins
<1> HIDE DEF s
<1>4. HandSound(s) /\ HandKnown(s)
  BY <1>2 DEF HandSound, HandKnown, AccountsInv, AccountsTyped
<1>5. CodesInv'
  <2>1. UNCHANGED <<otp, codesMade, compared>>
    BY <1>3 DEF codeVars
  <2> QED
    BY <1>2, <1>3, <1>4, <2>1, HandMoves
<1>6. UserSound'
  BY <1>0, <1>2, <1>3, NobodyAlone, UserStays
<1>7. AccountsTyped'
  BY <1>2, <1>3 DEF AccountsInv, AccountsTyped, userVars, codeVars
<1> QED
  BY <1>5, <1>6, <1>7 DEF AccountsInv, CodesInv

LEMMA AskerGone ==
  ASSUME AccountsInv, NEW r \in Askers, AskerDies(r)
  PROVE  AccountsInv'
<1>1. /\ asker' = [asker EXCEPT ![r] = Unasking] /\ asker[r].pc # "idle"
      /\ UNCHANGED <<codeVars, userVars, accepted, codesMet, sendsMet>>
  BY DEF AskerDies, Ends
<1>2. CodesInv' /\ asker' \in [Askers -> AskerStates]
  BY <1>1, HandEnds
<1>3. UserSound'
  BY <1>1, BlankHands, NobodyAlone, UserStays
<1> QED
  BY <1>1, <1>2, <1>3 DEF AccountsInv, CodesInv, AccountsTyped, codeVars, userVars

LEMMA UserErased ==
  ASSUME AccountsInv, NEW r \in Askers, EraseUser(r)
  PROVE  AccountsInv'
<1>1. /\ asker' = [asker EXCEPT ![r] = Unasking] /\ asker[r].pc = "erase" /\ Erased(r)
      /\ user' = [user EXCEPT !.there = FALSE]
      /\ UNCHANGED <<codesMade, compared, sendsMet, accepted, decidedBan, decidedPassword, userOverwritten>>
      /\ IF user.there
           THEN Remove(Codes) /\ codesMet' = (codesMet \/ Held(r, Codes))
           ELSE UNCHANGED <<otp, codesMet>>
  BY DEF EraseUser, Ends, Has
<1>2. HandSound(Unasking) /\ HandKnown(Unasking)
  BY BlankHands DEF HandSound, HandKnown, AccountsInv, AccountsTyped
<1>3. CodesInv'
  <2>1. CASE user.there
    BY <1>1, <1>2, <2>1, BlankHands, RowsGo DEF Remove
  <2>2. CASE ~user.there
    <3>1. UNCHANGED <<otp, codesMade, compared>> /\ accepted' = accepted /\ codesMet' = codesMet /\ sendsMet' = sendsMet
      BY <1>1, <2>2
    <3>2. asker' = [asker EXCEPT ![r] = Unasking]
      BY <1>1
    <3> QED
      BY <1>2, <3>1, <3>2, BlankHands, HandMoves
  <2> QED
    BY <2>1, <2>2
<1>4. AccountsTyped'
  <2>1. otp' \in [Codes -> OtpRows]
    BY <1>1, BlankHands DEF AccountsInv, AccountsTyped, Remove
  <2>2. user' \in Users
    BY <1>1 DEF AccountsInv, AccountsTyped, Users
  <2> QED
    BY <1>1, <2>1, <2>2, BlankHands DEF AccountsInv, AccountsTyped
<1>5. UserSound'
  <2>1. /\ ~user'.there /\ user'.banned = user.banned /\ user'.password = user.password
    BY <1>1 DEF AccountsInv, AccountsTyped, Users
  <2>2. erased' # "no"
    BY <1>1 DEF Erased
  <2>3. erased # "alone"
    BY <1>1, NobodyAlone
  <2>4. erased' = "alone" => /\ \A c \in Codes : otp'[c].purpose = "none"
                             /\ \A q \in Askers : asker'[q].pc = "idle"
    <3> SUFFICES ASSUME erased' = "alone" PROVE <2>4!2
      OBVIOUS
    <3>1. erased = "no" /\ \A q \in Askers \ {r} : asker[q].pc = "idle"
      BY <1>1, <2>3 DEF Erased
    <3>2. user.there
      BY <3>1, NobodyAlone
    <3> QED
      BY <1>1, <3>1, <3>2, BlankHands DEF Remove, AccountsInv, AccountsTyped
  <2> QED
    BY <1>1, <2>1, <2>2, <2>4 DEF AccountsInv, UserSound
<1> QED
  BY <1>3, <1>4, <1>5 DEF AccountsInv, CodesInv

LEMMA HeldIs ==
  ASSUME AccountsInv
  PROVE  \A r \in Askers : asker[r].pc = "compare" => asker[r].c \in Codes
  BY DEF AccountsInv, AccountsTyped, AskerStates, CodesSound, HandSound

\* Time passes, or a moderator bans the user.
LEMMA NobodyAsked ==
  ASSUME AccountsInv,
         (\E p \in Purposes : CooldownEnds(p)) \/ (\E c \in Codes : CodeExpires(c)) \/ PermanentBan
  PROVE  AccountsInv'
<1>1. CASE \E p \in Purposes : CooldownEnds(p)
  <2>1. UNCHANGED <<otp, codesMade, compared, userVars, asker, accepted, codesMet, sendsMet>>
    BY <1>1 DEF CooldownEnds
  <2> QED
    BY <2>1 DEF AccountsInv, AccountsTyped, CodesSound, CodesKnown, SendsApart, OneCode, UserSound, userVars,
      CodeSound, RowKnown, HandSound, HandKnown, Stored
<1>2. CASE PermanentBan
  <2>1. /\ user.there /\ user' = [user EXCEPT !.banned = TRUE] /\ decidedBan' = TRUE
        /\ UNCHANGED <<codeVars, decidedPassword, userOverwritten, erased, asker, accepted, codesMet, sendsMet>>
    BY <1>2 DEF PermanentBan
  <2>2. user' \in Users /\ user'.there = user.there /\ user'.banned /\ user'.password = user.password
    BY <2>1 DEF AccountsInv, AccountsTyped, Users
  <2>3. UserSound'
    BY <2>1, <2>2 DEF AccountsInv, UserSound
  <2>4. AccountsTyped'
    BY <2>1, <2>2 DEF AccountsInv, AccountsTyped, codeVars
  <2> QED
    BY <2>1, <2>3, <2>4 DEF AccountsInv, CodesSound, CodesKnown, SendsApart, OneCode,
      CodeSound, RowKnown, HandSound, HandKnown, Stored, codeVars
<1>3. CASE \E c \in Codes : CodeExpires(c)
  <2>1. PICK c \in Codes : /\ otp[c].purpose # "none" /\ otp' = [otp EXCEPT ![c].expired = TRUE]
          /\ UNCHANGED <<codesMade, compared, userVars, asker, accepted, codesMet, sendsMet>>
    BY <1>3 DEF CodeExpires
  <2>2. /\ otp' \in [Codes -> OtpRows]
        /\ \A e \in Codes : /\ otp'[e].purpose = otp[e].purpose /\ otp'[e].code = otp[e].code
                            /\ otp'[e].token = otp[e].token /\ otp'[e].attempts = otp[e].attempts
                            /\ otp[e].purpose = "none" => otp'[e] = otp[e]
    BY <2>1 DEF AccountsInv, AccountsTyped, OtpRows
  <2>3. CodesSound'
    <3>1. \A e \in Codes : CodeSound(e, otp'[e], accepted[e], compared[e])
      BY <2>2, BlankHands DEF AccountsInv, CodesSound, CodeSound
    <3> QED
      BY <2>1, <3>1 DEF AccountsInv, CodesSound, CodeSound, HandSound
  <2>4. CodesKnown'
    BY <2>1, <2>2, HeldIs DEF AccountsInv, CodesKnown, RowKnown, HandKnown
  <2>5. SendsApart' /\ OneCode'
    BY <2>1, <2>2 DEF AccountsInv, SendsApart, OneCode, Stored
  <2>6. UserSound'
    BY <2>1, <2>2 DEF AccountsInv, UserSound, userVars
  <2> QED
    BY <2>1, <2>2, <2>3, <2>4, <2>5, <2>6 DEF AccountsInv, AccountsTyped, userVars
<1> QED
  BY <1>1, <1>2, <1>3

LEMMA AccountsStep == AccountsInv /\ [AccountsNext]_accountVars => AccountsInv'
<1> SUFFICES ASSUME AccountsInv, [AccountsNext]_accountVars PROVE AccountsInv'
  OBVIOUS
<1>1. CASE UNCHANGED accountVars
  <2>1. UNCHANGED <<codeVars, userVars, asker, accepted, codesMet, sendsMet>>
    BY <1>1 DEF accountVars
  <2> QED
    BY <2>1 DEF AccountsInv, AccountsTyped, CodesSound, CodesKnown, SendsApart, OneCode, UserSound, userVars, codeVars,
      CodeSound, RowKnown, HandSound, HandKnown, Stored
<1>2. CASE AccountsNext
  <2>1. CASE \E r \in Askers : \E p \in Purposes : RequestCode(r, p) \/ \E right \in BOOLEAN : SubmitCode(r, p, right)
    BY <2>1, CodeRequested, CodeLoaded
  <2>2. CASE \E r \in Askers : DeleteOldCodes(r) \/ RefuseCode(r) \/ WrongCode(r) \/ RightCode(r)
    BY <2>2, OldCodesDeleted, CodeRefusedOrWrong, CodeAccepted
  <2>3. CASE \E r \in Askers : SaveNewCode(r)
    <3>1. PICK r \in Askers : SaveNewCode(r)
      BY <2>3
    <3>2. CodesInv' /\ AccountsTyped' /\ asker[r].pc # "idle" /\ asker' = [asker EXCEPT ![r] = Unasking] /\ UNCHANGED userVars
      BY <3>1, NewCodeSaved DEF SaveNewCode, Has, Ends
    <3>3. UserSound'
      BY <3>2, BlankHands, NobodyAlone, UserStays
    <3> QED
      BY <3>2, <3>3 DEF AccountsInv, CodesInv
  <2>4. CASE \E r \in Askers : (\E c \in Codes : ResetPassword(r, c)) \/ ConsumeToken(r)
    BY <2>4, TokenLoaded, TokenConsumed
  <2>5. CASE \E r \in Askers : UpdateUser(r) \/ RestrictUser(r) \/ EraseUser(r) \/ AskerDies(r)
    BY <2>5, UserUpdated, UserRestricted, UserErased, AskerGone
  <2> QED
    BY <1>2, <2>1, <2>2, <2>3, <2>4, <2>5, NobodyAsked DEF AccountsNext
<1> QED
  BY <1>1, <1>2

\* However requests overlap, a reset token changes the password no oftener than a
\* code was exchanged for one; a code is accepted once and not
\* guessed at oftener than the limit, unless two requests had it in hand; and what
\* was decided about the password, the ban and the deletion of the user stands
\* unless a copy of the user was saved over a newer row (validateAndConsumeOtp,
\* resetPassword, updateUserRestriction, deleteAccount).
THEOREM AccountsStayConsistent == AccountsSpec => []AccountsConsistent
<1>1. AccountsSpec => []AccountsInv
  BY AccountsInitInv, AccountsStep, PTL DEF AccountsSpec
<1> QED
  BY <1>1, AccountsAreConsistent, PTL

-----------------------------------------------------------------------------
(* Logins and sockets *)

\* What a row, a request and a socket can hold.
DeviceStates ==
  [session : SessionIds \union {NoSession}, push : BOOLEAN, active : BOOLEAN, there : BOOLEAN]
CallerKinds == {"none", "login", "register", "invalid", "logout", "reset", "delete"}
CallerStates ==
  [pc : {"idle", "clear", "load", "save", "end", "kill", "commit"}, kind : CallerKinds,
   i : Installations \union {<<u>> : u \in Holders} \union {<<>>},
   copies : UNION {[I -> DeviceStates] : I \in SUBSET Installations}, kill : SUBSET SessionIds]
SocketStates ==
  [pc : {"off", "checked", "gone", "open", "ghost"}, session : SessionIds \union {NoSession},
   user : Holders \union {NoSession}]

SessionsTyped ==
  /\ userDevice \in [Installations -> DeviceStates]
  /\ account \in [Holders -> BOOLEAN]
  /\ socket \in [Clients -> SocketStates]
  /\ connections \in [Holders -> SUBSET Clients]
  /\ activeInboxUsers \subseteq Holders
  /\ caller \in [Callers -> CallerStates]
  /\ sessionsMade \in Nat
  /\ revoked \subseteq SessionIds

\* Sessions that were made.
Made(s) == s \in SessionIds /\ s <= sessionsMade
RowSound(row) == row.session # NoSession => row.there /\ Made(row.session)

CallerSound(a) ==
  /\ \A i \in DOMAIN a.copies : RowSound(a.copies[i])
  /\ \A s \in a.kill : Made(s)
  /\ a.pc \in {"idle", "clear", "end"} => a.kill = {}
  /\ a.pc = "commit" => a.kind = "delete"
  /\ a.kind \in {"none", "register", "invalid"} => a.kill = {}
  /\ a.kind \in {"login", "register", "invalid", "logout"} => a.i \in Installations
  /\ a.kind \in {"reset", "delete"} => a.i[1] \in Holders
  /\ a.pc = "clear" => a.kind \in {"login", "register"}
  /\ a.pc \in {"load", "save"} => a.kind \in {"login", "register", "invalid"}
  /\ a.pc = "save" => DOMAIN a.copies = {a.i}
  /\ a.pc = "end" => a.kind \in {"logout", "reset"}
  /\ a.pc = "idle" <=> a.kind = "none"
  /\ a.kind # "delete" => a.kill \subseteq revoked

RowsSound ==
  /\ \A i \in Installations : RowSound(userDevice[i])
  /\ \A s \in revoked : Made(s)
  /\ \A r \in Callers : CallerSound(caller[r])

\* Every session was made for one installation.
MadeFor(own) ==
  /\ \A i \in Installations : userDevice[i].session # NoSession => own[userDevice[i].session] = i
  /\ \A r \in Callers :
       /\ \A i \in DOMAIN caller[r].copies :
            caller[r].copies[i].session # NoSession => own[caller[r].copies[i].session] = i
       /\ caller[r].kind = "delete" => \A s \in caller[r].kill :
            own[s] \in Installations /\ own[s][1] = caller[r].i[1]
OneOwner == \E own \in [SessionIds -> Installations \union {<<>>}] : MadeFor(own)

EndedStays == ~staleDevice => \A i \in Installations : userDevice[i].session \notin revoked

\* Logins that nobody disturbs.
Rival(i, j) == i[2] = j[2] /\ i[1] # j[1]
LoginsApart ==
  ~loginsMet => \A r, q \in Callers :
    /\ caller[r].kind = "login" /\ caller[q].kind = "login" /\ caller[r].i[2] = caller[q].i[2] => r = q
    /\ caller[r].kind = "login" /\ caller[q].kind = "delete" => caller[r].i[1] # caller[q].i[1]
LoginsSound ==
  ~staleDevice /\ ~loginsMet =>
    /\ \A i, j \in Installations :
         Rival(i, j) => userDevice[i].session = NoSession \/ userDevice[j].session = NoSession
    /\ \A i \in Installations : ~account[i[1]] => userDevice[i].session = NoSession
    /\ \A r \in Callers : caller[r].kind = "login" =>
         /\ account[caller[r].i[1]]
         /\ caller[r].pc \in {"clear", "load", "save"} =>
             \A j \in Installations :
              Rival(caller[r].i, j) /\ userDevice[j].session # NoSession =>
                caller[r].pc = "clear" /\ j \in DOMAIN caller[r].copies

SocketsSound ==
  /\ \A k \in Clients :
       /\ socket[k].pc = "open" /\ socket[k].session \in revoked =>
            \/ socket[k].session \in overlooked \/ k \in late
            \/ \E r \in Callers : caller[r].kind # "delete" /\ socket[k].session \in caller[r].kill
       /\ socket[k].pc # "off" => socket[k].user \in Holders
       /\ \A r \in Callers : caller[r].pc = "commit" /\ socket[k].pc = "open"
            /\ socket[k].session \in caller[r].kill => k \in late
  /\ \A u \in Holders :
       connections[u] = {k \in Clients : socket[k].pc \in {"open", "ghost"} /\ socket[k].user = u}
  /\ \A u \in activeInboxUsers : \E k \in connections[u] : socket[k].pc = "open"

SessionsInv == SessionsTyped /\ RowsSound /\ OneOwner /\ EndedStays /\ LoginsApart /\ LoginsSound /\ SocketsSound


LEMMA BlankRows ==
  /\ Absent \in DeviceStates /\ Absent.session = NoSession /\ Cleared \in DeviceStates /\ Cleared.session = NoSession
  /\ Free \in CallerStates /\ Free.pc = "idle" /\ Free.kind = "none" /\ Free.kill = {} /\ Free.copies = <<>>
  /\ DOMAIN Free.copies = {}
  /\ Closed \in SocketStates /\ Closed.pc = "off"
<1>1. Absent \in DeviceStates /\ Cleared \in DeviceStates
  BY DEF Absent, Cleared, DeviceStates
<1>2. <<>> \in [{} -> DeviceStates] /\ {} \in SUBSET Installations
  OBVIOUS
<1>3. Free.copies = <<>> /\ <<>> \in UNION {[I -> DeviceStates] : I \in SUBSET Installations}
  BY <1>2 DEF Free
<1>4. Free \in CallerStates
  BY <1>3 DEF Free, CallerStates, CallerKinds
<1>5. Closed \in SocketStates
  BY DEF Closed, SocketStates
<1> QED
  BY <1>1, <1>2, <1>3, <1>4, <1>5 DEF Absent, Cleared, Free, Closed

LEMMA SessionsAre == SessionIds \subseteq Nat \ {0} /\ NoSession \notin SessionIds
  /\ \A i \in Installations : i[1] \in Holders
  BY SessionsAssumption

\* What a request holds are copies of rows.
LEMMA CopiesAre ==
  ASSUME NEW a \in CallerStates
  PROVE  /\ DOMAIN a.copies \subseteq Installations
         /\ \A i \in DOMAIN a.copies : a.copies[i] \in DeviceStates
         /\ a.kill \subseteq SessionIds
  BY DEF CallerStates

LEMMA FreeIsSound == ASSUME SessionsTyped PROVE CallerSound(Free)
  BY BlankRows DEF CallerSound, SessionsTyped

LEMMA SessionsInitInv == SessionsInit => SessionsInv
<1> SUFFICES ASSUME SessionsInit PROVE SessionsInv
  OBVIOUS
<1>1. SessionsTyped
  BY BlankRows, SessionsAre DEF SessionsInit, SessionsTyped
<1>2. RowsSound
  BY <1>1, BlankRows, FreeIsSound DEF SessionsInit, RowsSound, RowSound
<1>3. OneOwner
  <2> DEFINE own == [s \in SessionIds |-> <<>>]
  <2>1. own \in [SessionIds -> Installations \union {<<>>}]
    OBVIOUS
  <2>2. MadeFor(own)
    BY BlankRows DEF SessionsInit, MadeFor
  <2> QED
    BY <2>1, <2>2 DEF OneOwner
<1>4. EndedStays /\ LoginsApart /\ LoginsSound
  BY BlankRows, SessionsAre DEF SessionsInit, EndedStays, LoginsApart, LoginsSound
<1>5. SocketsSound
  BY BlankRows DEF SessionsInit, SocketsSound
<1> QED
  BY <1>1, <1>2, <1>3, <1>4, <1>5 DEF SessionsInv

LEMMA SessionsAreConsistent == SessionsInv => SessionsConsistent
<1> SUFFICES ASSUME SessionsInv PROVE SessionsConsistent
  OBVIOUS
<1>1. SessionsTypeOK
  BY DEF SessionsInv, SessionsTyped, SessionsTypeOK, DeviceStates, SocketStates
<1>2. ~staleDevice => ActiveSessions \intersect revoked = {}
  BY DEF SessionsInv, EndedStays, ActiveSessions
<1>3. ~staleDevice /\ ~loginsMet =>
       /\ \A i, j \in Installations :
            i[2] = j[2] /\ i[1] # j[1] =>
              userDevice[i].session = NoSession \/ userDevice[j].session = NoSession
       /\ \A i \in Installations : ~account[i[1]] => userDevice[i].session = NoSession
  BY DEF SessionsInv, LoginsSound, Rival
<1>4. \A k \in Clients : socket[k].pc = "open" /\ socket[k].session \in revoked =>
       \/ socket[k].session \in overlooked \/ k \in late
       \/ \E r \in Callers : socket[k].session \in caller[r].kill
  BY DEF SessionsInv, SocketsSound
<1>5. /\ \A u \in Holders :
           connections[u] = {k \in Clients : socket[k].pc \in {"open", "ghost"} /\ socket[k].user = u}
      /\ \A u \in activeInboxUsers : \E k \in connections[u] : socket[k].pc = "open"
  BY DEF SessionsInv, SocketsSound
<1> QED
  BY <1>1, <1>2, <1>3, <1>4, <1>5 DEF SessionsConsistent

\* A request takes copies of rows in hand.
LEMMA CallerTakes ==
  ASSUME SessionsInv, NEW r \in Callers, NEW s \in CallerStates, CallerSound(s),
         caller' = [caller EXCEPT ![r] = s], UNCHANGED <<deviceRows, sockets>>,
         ~loginsMet' => ~loginsMet, s.pc # "commit",
         \A i \in DOMAIN s.copies : s.copies[i] = userDevice[i],
         s.kind = "delete" => \A x \in s.kill :
           \E i \in Installations : i[1] = s.i[1] /\ userDevice[i].session = x,
         caller[r].kill = {} \/ (s.kill = caller[r].kill /\ s.kind = caller[r].kind),
         ~loginsMet' => \A q \in Callers \ {r} :
           /\ s.kind = "login" /\ caller[q].kind = "login" => s.i[2] # caller[q].i[2]
           /\ s.kind = "login" /\ caller[q].kind = "delete" => s.i[1] # caller[q].i[1]
           /\ s.kind = "delete" /\ caller[q].kind = "login" => s.i[1] # caller[q].i[1],
         ~staleDevice /\ ~loginsMet' /\ s.kind = "login" =>
           /\ account[s.i[1]]
           /\ s.pc \in {"clear", "load", "save"} => \A j \in Installations :
                Rival(s.i, j) /\ userDevice[j].session # NoSession =>
                  s.pc = "clear" /\ j \in DOMAIN s.copies
  PROVE  SessionsInv'
<1>1. /\ \A q \in Callers \ {r} : caller'[q] = caller[q]
      /\ caller'[r] = s
      /\ caller' \in [Callers -> CallerStates]
  BY DEF SessionsInv, SessionsTyped
<1>2. UNCHANGED <<userDevice, account, sessionsMade, revoked, overlooked, staleDevice>>
      /\ UNCHANGED <<socket, connections, activeInboxUsers, late>>
  BY DEF deviceRows, sockets
<1>3. SessionsTyped'
  BY <1>1, <1>2 DEF SessionsInv, SessionsTyped
<1>4. RowsSound'
  BY <1>1, <1>2 DEF SessionsInv, RowsSound, RowSound, CallerSound, Made
<1>5. OneOwner'
  <2>1. PICK own \in [SessionIds -> Installations \union {<<>>}] : MadeFor(own)
    BY DEF SessionsInv, OneOwner
  <2>2. s.kind = "delete" => \A x \in s.kill : own[x] \in Installations /\ own[x][1] = s.i[1]
    BY <2>1, SessionsAre, CopiesAre DEF MadeFor
  <2>3. \A i \in DOMAIN s.copies : s.copies[i].session # NoSession => own[s.copies[i].session] = i
    BY <2>1, CopiesAre DEF MadeFor
  <2>4. MadeFor(own)'
    BY <1>1, <1>2, <2>1, <2>2, <2>3 DEF MadeFor
  <2> QED
    BY <2>4 DEF OneOwner
<1>6. EndedStays' /\ LoginsApart'
  BY <1>1, <1>2 DEF SessionsInv, EndedStays, LoginsApart
<1>7. LoginsSound'
  BY <1>1, <1>2 DEF SessionsInv, LoginsSound
<1>8. SocketsSound'
  BY <1>1, <1>2 DEF SessionsInv, SocketsSound
<1> QED
  BY <1>3, <1>4, <1>5, <1>6, <1>7, <1>8 DEF SessionsInv

\* The accounts that go are nobody's who logs in, and their rows are among I.
Closing(accounts, I) ==
  \A u \in Holders : accounts[u] # account[u] =>
    /\ ~staleDevice /\ ~loginsMet => \A q \in Callers : caller[q].kind = "login" => caller[q].i[1] # u
    /\ \A i \in Installations : i[1] = u /\ userDevice[i].session # NoSession => i \in I

\* The rows I are cleared by a request that knows of the sessions `known`.
LEMMA RowsCleared ==
  ASSUME SessionsInv, NEW r \in Callers, NEW s \in CallerStates, NEW I \in SUBSET Installations,
         NEW known \in SUBSET SessionIds, NEW accounts \in [Holders -> BOOLEAN],
         userDevice' = [i \in Installations |-> IF i \in I THEN Cleared ELSE userDevice[i]],
         Loses(I, known), account' = accounts, caller' = [caller EXCEPT ![r] = s],
         UNCHANGED <<sessionsMade, staleDevice, sockets, loginsMet>>,
         CallerSound(s)', s.pc # "commit", s.kind # "delete",
         s.copies = caller[r].copies \/ s.copies = <<>>,
         \A x \in known : Made(x) /\ \A j \in Installations : userDevice[j].session = x => j \in I,
         \A x \in known : \/ x \in s.kill
           \/ \A k \in Clients : socket[k].pc = "open" /\ socket[k].session = x => k \in late,
         caller[r].kind = "delete" \/ caller[r].kill \subseteq s.kill,
         s.kind = "login" =>
           /\ caller[r].kind = "login" /\ s.i = caller[r].i /\ s.pc = "load"
           /\ ~staleDevice /\ ~loginsMet => \A j \in Installations :
                Rival(s.i, j) /\ userDevice[j].session # NoSession => j \in I,
         Closing(accounts, I)
  PROVE  SessionsInv'
<1>1. /\ \A q \in Callers \ {r} : caller'[q] = caller[q]
      /\ caller'[r] = s
      /\ caller' \in [Callers -> CallerStates]
      /\ \A i \in I : userDevice'[i].session = NoSession
      /\ \A i \in Installations \ I : userDevice'[i] = userDevice[i]
      /\ userDevice' \in [Installations -> DeviceStates]
  BY BlankRows DEF SessionsInv, SessionsTyped
<1> DEFINE lost == {userDevice[i].session : i \in I} \ {NoSession}
<1>2. revoked' = revoked \union lost \union known /\ overlooked' = overlooked \union (lost \ known)
  BY DEF Loses
<1>3. lost \subseteq SessionIds
  BY DEF SessionsInv, SessionsTyped, DeviceStates
<1>4. \A x \in lost : Made(x)
  BY DEF SessionsInv, RowsSound, RowSound
<1>5. \A x \in lost : \E i \in I : userDevice[i].session = x
  OBVIOUS
<1>6. \A i \in I : userDevice[i].session = NoSession \/ userDevice[i].session \in lost
  OBVIOUS
<1> HIDE DEF lost
<1>7. UNCHANGED <<socket, connections, activeInboxUsers, late>>
  BY DEF sockets
<1>8. SessionsTyped'
  BY <1>1, <1>2, <1>3, <1>7 DEF SessionsInv, SessionsTyped
<1>9. RowsSound'
  <2>1. \A i \in Installations : RowSound(userDevice[i])'
    BY <1>1 DEF SessionsInv, RowsSound, RowSound, Made
  <2>2. \A x \in revoked' : Made(x)'
    BY <1>2, <1>4 DEF SessionsInv, RowsSound, Made
  <2>3. \A q \in Callers \ {r} : CallerSound(caller[q])'
    BY <1>1, <1>2 DEF SessionsInv, RowsSound, RowSound, CallerSound, Made
  <2> QED
    BY <1>1, <2>1, <2>2, <2>3 DEF RowsSound, CallerSound, RowSound, Made
<1>10. OneOwner'
  <2>1. PICK own \in [SessionIds -> Installations \union {<<>>}] : MadeFor(own)
    BY DEF SessionsInv, OneOwner
  <2>2. \A i \in DOMAIN s.copies : s.copies[i].session # NoSession => own[s.copies[i].session] = i
    BY <2>1 DEF MadeFor
  <2>3. \A i \in Installations : userDevice'[i].session # NoSession => own[userDevice'[i].session] = i
    BY <1>1, <2>1 DEF MadeFor
  <2>4. \A q \in Callers \ {r} : caller'[q] = caller[q]
    BY <1>1
  <2>5. \A q \in Callers :
       /\ \A i \in DOMAIN caller'[q].copies :
            caller'[q].copies[i].session # NoSession => own[caller'[q].copies[i].session] = i
       /\ caller'[q].kind = "delete" => \A x \in caller'[q].kill :
            own[x] \in Installations /\ own[x][1] = caller'[q].i[1]
    <3> TAKE q \in Callers
    <3>1. CASE q = r
      BY <1>1, <2>2, <3>1
    <3>2. CASE q # r
      BY <2>1, <2>4, <3>2 DEF MadeFor
    <3> QED
      BY <3>1, <3>2
  <2> QED
    BY <2>3, <2>5 DEF OneOwner, MadeFor
<1>11. EndedStays'
  <2> SUFFICES ASSUME ~staleDevice, NEW i \in Installations PROVE userDevice'[i].session \notin revoked'
    BY DEF EndedStays
  <2>1. CASE i \in I
    <3>1. revoked' \subseteq SessionIds
      BY <1>8 DEF SessionsTyped
    <3> QED
      <4>1. userDevice'[i].session = NoSession /\ NoSession \notin SessionIds
        BY <1>1, <2>1, SessionsAre
      <4> QED
        BY <3>1, <4>1
  <2>2. CASE i \notin I
    <3>1. userDevice'[i].session = userDevice[i].session /\ userDevice[i].session \notin revoked
      BY <1>1, <2>2 DEF SessionsInv, EndedStays
    <3>2. userDevice[i].session \notin known
      BY <2>2
    <3>3. userDevice[i].session \notin lost
      <4> SUFFICES ASSUME userDevice[i].session \in lost PROVE FALSE
        OBVIOUS
      <4>1. PICK j \in I : userDevice[j].session = userDevice[i].session
        BY <1>5
      <4>2. PICK own \in [SessionIds -> Installations \union {<<>>}] : MadeFor(own)
        BY DEF SessionsInv, OneOwner
      <4>3. userDevice[i].session \in SessionIds /\ i # j
        BY <1>3, <2>2, <4>1
      <4>4. userDevice[i].session # NoSession
        BY <4>3, SessionsAre
      <4> QED
        BY <4>1, <4>2, <4>3, <4>4 DEF MadeFor
    <3> QED
      BY <1>2, <3>1, <3>2, <3>3
  <2> QED
    BY <2>1, <2>2
<1>12. LoginsApart'
  BY <1>1 DEF SessionsInv, LoginsApart
<1>13. LoginsSound'
  <2> SUFFICES ASSUME ~staleDevice, ~loginsMet PROVE LoginsSound'
    BY DEF LoginsSound
  <2>1. \A i \in Installations : userDevice'[i].session \in {NoSession, userDevice[i].session}
    BY <1>1
  <2>2. \A i, j \in Installations :
         Rival(i, j) => userDevice'[i].session = NoSession \/ userDevice'[j].session = NoSession
    BY <2>1 DEF SessionsInv, LoginsSound
  <2>3. \A i \in Installations : ~account'[i[1]] => userDevice'[i].session = NoSession
    BY <1>1, <2>1, SessionsAre DEF SessionsInv, LoginsSound, Closing
  <2>4. ASSUME NEW q \in Callers, caller'[q].kind = "login"
        PROVE  /\ account'[caller'[q].i[1]]
               /\ caller'[q].pc \in {"clear", "load", "save"} =>
                    \A j \in Installations :
                      Rival(caller'[q].i, j) /\ userDevice'[j].session # NoSession =>
                        caller'[q].pc = "clear" /\ j \in DOMAIN caller'[q].copies
    <3>1. caller[q].kind = "login" /\ caller'[q].i = caller[q].i
      BY <1>1, <2>4
    <3>2. caller[q].i \in Installations
      BY <3>1 DEF SessionsInv, RowsSound, CallerSound
    <3>3. account'[caller'[q].i[1]]
      BY <3>1, <3>2, SessionsAre DEF SessionsInv, LoginsSound, Closing
    <3>4. CASE q = r
      BY <1>1, <2>1, <2>4, <3>3, <3>4
    <3>5. CASE q # r
      BY <1>1, <2>1, <3>1, <3>3, <3>5 DEF SessionsInv, LoginsSound
    <3> QED
      BY <3>4, <3>5
  <2> QED
    BY <2>2, <2>3, <2>4 DEF LoginsSound, Rival
<1>14. SocketsSound'
  <2>1. ASSUME NEW k \in Clients, socket[k].pc = "open", socket[k].session \in revoked'
        PROVE  \/ socket[k].session \in overlooked' \/ k \in late
               \/ \E q \in Callers : caller'[q].kind # "delete" /\ socket[k].session \in caller'[q].kill
    <3> DEFINE x == socket[k].session
    <3>1. CASE x \in known
      BY <1>1, <2>1, <3>1
    <3>2. CASE x \in lost \ known
      BY <1>2, <3>2
    <3>3. CASE x \in revoked /\ x \notin known
      <4>1. \/ x \in overlooked \/ k \in late
            \/ \E q \in Callers : caller[q].kind # "delete" /\ x \in caller[q].kill
        BY <2>1, <3>3 DEF SessionsInv, SocketsSound
      <4>2. ASSUME NEW q \in Callers, caller[q].kind # "delete", x \in caller[q].kill
            PROVE  \E t \in Callers : caller'[t].kind # "delete" /\ x \in caller'[t].kill
        BY <1>1, <3>3, <4>2
      <4> QED
        BY <1>2, <4>1, <4>2
    <3> QED
      BY <1>2, <2>1, <3>1, <3>2, <3>3
  <2>2. \A k \in Clients, q \in Callers : caller'[q].pc = "commit" /\ socket[k].pc = "open"
            /\ socket[k].session \in caller'[q].kill => k \in late
    BY <1>1 DEF SessionsInv, SocketsSound
  <2> QED
    BY <1>7, <2>1, <2>2 DEF SessionsInv, SocketsSound
<1> QED
  BY <1>8, <1>9, <1>10, <1>11, <1>12, <1>13, <1>14 DEF SessionsInv


LEMMA RequestsBegin ==
  ASSUME SessionsInv, NEW r \in Callers,
         \/ \E i \in Installations :
              Login(r, i) \/ RegisterDevice(r, i) \/ DeactivateByFcmToken(r, i) \/ Logout(r, i)
         \/ \E u \in Holders : LogoutEverywhere(r, u) \/ DeleteAccount(r, u)
         \/ LoadDevice(r)
  PROVE  SessionsInv'
<1> USE DEF Call
<1>r. CallerSound(caller[r]) /\ caller[r] \in CallerStates
  BY DEF SessionsInv, RowsSound, SessionsTyped
<1>c. \A I \in SUBSET Installations :
        /\ DOMAIN Copies(I) = I /\ \A i \in I : Copies(I)[i] = userDevice[i]
        /\ Copies(I) \in UNION {[J -> DeviceStates] : J \in SUBSET Installations}
        /\ \A i \in I : RowSound(Copies(I)[i])
  <2> TAKE I \in SUBSET Installations
  <2>1. DOMAIN Copies(I) = I /\ \A i \in I : Copies(I)[i] = userDevice[i]
    BY DEF Copies
  <2>2. Copies(I) \in [I -> DeviceStates]
    BY DEF Copies, SessionsInv, SessionsTyped
  <2>3. \A i \in I : RowSound(Copies(I)[i])
    BY <2>1 DEF SessionsInv, RowsSound
  <2> QED
    BY <2>1, <2>2, <2>3
<1>f. Free.kill = {} /\ Free.copies = <<>> /\ DOMAIN Free.copies = {} /\ Free \in CallerStates
  BY BlankRows
\* A request of this kind for this installation with copies of these rows.
<1>1. ASSUME NEW i \in Installations, Login(r, i) PROVE SessionsInv'
  <2> DEFINE s == [Free EXCEPT !.pc = "clear", !.kind = "login", !.i = i, !.copies = Copies(RivalRows(i))]
  <2>1. RivalRows(i) \in SUBSET Installations
    BY DEF RivalRows
  <2>2. s \in CallerStates /\ s.pc = "clear" /\ s.kind = "login" /\ s.i = i /\ s.copies = Copies(RivalRows(i)) /\ s.kill = {}
    BY <1>f, <1>c, <2>1 DEF CallerStates, CallerKinds
  <2>3. /\ caller' = [caller EXCEPT ![r] = s] /\ UNCHANGED <<deviceRows, sockets>> /\ caller[r].pc = "idle"
        /\ account[i[1]] /\ loginsMet' = (loginsMet \/ LoginsMeet(i))
    BY <1>1 DEF Login
  <2> HIDE DEF s
  <2>4. CallerSound(s) /\ caller[r].kill = {}
    BY <1>r, <1>c, <2>1, <2>2, <2>3 DEF CallerSound
  <2>5. \A j \in Installations : Rival(i, j) /\ userDevice[j].session # NoSession => j \in RivalRows(i)
    BY DEF Rival, RivalRows, SessionsInv, RowsSound, RowSound
  <2>6. \A j \in DOMAIN s.copies : s.copies[j] = userDevice[j]
    BY <1>c, <2>1, <2>2
  <2>7. \A j \in Installations : Rival(s.i, j) /\ userDevice[j].session # NoSession => j \in DOMAIN s.copies
    BY <1>c, <2>1, <2>2, <2>5
  <2>8. ~loginsMet' => ~loginsMet /\ \A q \in Callers \ {r} :
           /\ caller[q].kind = "login" => s.i[2] # caller[q].i[2]
           /\ caller[q].kind = "delete" => s.i[1] # caller[q].i[1]
    BY <2>2, <2>3 DEF LoginsMeet
  <2> QED
    BY <2>2, <2>3, <2>4, <2>6, <2>7, <2>8, CallerTakes
<1>2. ASSUME NEW i \in Installations, RegisterDevice(r, i) \/ DeactivateByFcmToken(r, i) \/ Logout(r, i)
      PROVE SessionsInv'
  <2>1. RivalRows(i) \in SUBSET Installations /\ {i} \in SUBSET Installations
    BY DEF RivalRows
  <2>2. PICK s : /\ caller' = [caller EXCEPT ![r] = s] /\ UNCHANGED <<deviceRows, sockets, loginsMet>> /\ caller[r].pc = "idle"
                 /\ s \in {[Free EXCEPT !.pc = "clear", !.kind = "register", !.i = i, !.copies = Copies(RivalRows(i))],
                           [Free EXCEPT !.pc = "save", !.kind = "invalid", !.i = i, !.copies = Copies({i})],
                           [Free EXCEPT !.pc = "end", !.kind = "logout", !.i = i, !.copies = Copies({i})]}
    BY <1>2 DEF RegisterDevice, DeactivateByFcmToken, Logout
  <2>3. \E I \in SUBSET Installations :
          /\ s \in CallerStates /\ s.i = i /\ s.copies = Copies(I) /\ s.kill = {}
          /\ \/ s.pc = "clear" /\ s.kind = "register"
             \/ s.pc = "save" /\ s.kind = "invalid" /\ I = {i}
             \/ s.pc = "end" /\ s.kind = "logout"
    <3>1. CASE s = [Free EXCEPT !.pc = "clear", !.kind = "register", !.i = i, !.copies = Copies(RivalRows(i))]
      BY <1>f, <1>c, <2>1, <3>1 DEF CallerStates, CallerKinds
    <3>2. CASE s = [Free EXCEPT !.pc = "save", !.kind = "invalid", !.i = i, !.copies = Copies({i})]
      BY <1>f, <1>c, <2>1, <3>2 DEF CallerStates, CallerKinds
    <3>3. CASE s = [Free EXCEPT !.pc = "end", !.kind = "logout", !.i = i, !.copies = Copies({i})]
      BY <1>f, <1>c, <2>1, <3>3 DEF CallerStates, CallerKinds
    <3> QED
      BY <2>2, <3>1, <3>2, <3>3
  <2>4. PICK I \in SUBSET Installations :
          /\ s \in CallerStates /\ s.i = i /\ s.copies = Copies(I) /\ s.kill = {}
          /\ \/ s.pc = "clear" /\ s.kind = "register"
             \/ s.pc = "save" /\ s.kind = "invalid" /\ I = {i}
             \/ s.pc = "end" /\ s.kind = "logout"
    BY <2>3
  <2>5. CallerSound(s) /\ caller[r].kill = {}
    BY <1>r, <1>c, <2>2, <2>4 DEF CallerSound
  <2>6. \A j \in DOMAIN s.copies : s.copies[j] = userDevice[j]
    BY <1>c, <2>4
  <2>7. caller' = [caller EXCEPT ![r] = s] /\ UNCHANGED <<deviceRows, sockets>> /\ loginsMet' = loginsMet
    BY <2>2
  <2> QED
    BY <2>4, <2>5, <2>6, <2>7, CallerTakes
<1>3. ASSUME NEW u \in Holders, LogoutEverywhere(r, u) PROVE SessionsInv'
  <2> DEFINE s == [Free EXCEPT !.pc = "end", !.kind = "reset", !.i = <<u>>, !.copies = Copies(RowsOf(u))]
  <2>1. RowsOf(u) \in SUBSET Installations
    BY DEF RowsOf
  <2>2. s \in CallerStates /\ s.pc = "end" /\ s.kind = "reset" /\ s.i = <<u>> /\ s.copies = Copies(RowsOf(u)) /\ s.kill = {}
    BY <1>f, <1>c, <2>1 DEF CallerStates, CallerKinds
  <2>3. /\ caller' = [caller EXCEPT ![r] = s] /\ UNCHANGED <<deviceRows, sockets>> /\ caller[r].pc = "idle"
        /\ loginsMet' = loginsMet
    BY <1>3 DEF LogoutEverywhere
  <2> HIDE DEF s
  <2>4. CallerSound(s) /\ caller[r].kill = {}
    BY <1>r, <1>c, <2>1, <2>2, <2>3 DEF CallerSound
  <2>6. \A j \in DOMAIN s.copies : s.copies[j] = userDevice[j]
    BY <1>c, <2>1, <2>2
  <2> QED
    BY <2>2, <2>3, <2>4, <2>6, CallerTakes
<1>4. ASSUME NEW u \in Holders, DeleteAccount(r, u) PROVE SessionsInv'
  <2> DEFINE kill == SessionsOf(Copies(RowsOf(u)))
             s == [Free EXCEPT !.pc = "kill", !.kind = "delete", !.i = <<u>>, !.kill = kill]
  <2>1. RowsOf(u) \in SUBSET Installations
    BY DEF RowsOf
  <2>2. \A x \in kill : x \in SessionIds /\ Made(x) /\ \E i \in Installations : i[1] = u /\ userDevice[i].session = x
    <3> SUFFICES ASSUME NEW x \in kill
                 PROVE  x \in SessionIds /\ Made(x) /\ \E i \in Installations : i[1] = u /\ userDevice[i].session = x
      OBVIOUS
    <3>1. PICK i \in RowsOf(u) : x = userDevice[i].session /\ x # NoSession
      BY <1>c, <2>1 DEF SessionsOf
    <3>2. i \in Installations /\ i[1] = u
      BY <3>1 DEF RowsOf
    <3>3. Made(x)
      BY <3>1, <3>2 DEF SessionsInv, RowsSound, RowSound
    <3> QED
      BY <3>1, <3>2, <3>3 DEF Made
  <2> HIDE DEF kill
  <2>3. s \in CallerStates /\ s.pc = "kill" /\ s.kind = "delete" /\ s.i = <<u>> /\ s.copies = <<>> /\ s.kill = kill
        /\ DOMAIN s.copies = {} /\ s.i[1] = u
    BY <1>f, <2>2 DEF CallerStates, CallerKinds
  <2>4. /\ caller' = [caller EXCEPT ![r] = s] /\ UNCHANGED <<deviceRows, sockets>> /\ caller[r].pc = "idle"
        /\ loginsMet' = (loginsMet \/ \E q \in Callers : caller[q].kind = "login" /\ caller[q].i[1] = u)
    BY <1>4 DEF DeleteAccount, kill
  <2> HIDE DEF s
  <2>5. CallerSound(s) /\ caller[r].kill = {}
    BY <1>r, <2>2, <2>3, <2>4 DEF CallerSound
  <2>6. ~loginsMet' => ~loginsMet /\ \A q \in Callers \ {r} : caller[q].kind = "login" => s.i[1] # caller[q].i[1]
    BY <2>3, <2>4
  <2> QED
    BY <2>2, <2>3, <2>4, <2>5, <2>6, CallerTakes
<1>5. ASSUME LoadDevice(r) PROVE SessionsInv'
  <2> DEFINE I == {caller[r].i}
             s == [caller[r] EXCEPT !.pc = "save", !.copies = Copies(I)]
  <2>1. /\ caller' = [caller EXCEPT ![r] = s] /\ UNCHANGED <<deviceRows, sockets>> /\ caller[r].pc = "load"
        /\ loginsMet' = loginsMet
    BY <1>5 DEF LoadDevice, Resume
  <2>2. I \in SUBSET Installations
    BY <1>r, <2>1 DEF CallerSound
  <2>3. s \in CallerStates /\ s.pc = "save" /\ s.kind = caller[r].kind /\ s.i = caller[r].i /\ s.copies = Copies(I)
        /\ s.kill = caller[r].kill
    BY <1>r, <1>c, <2>2 DEF CallerStates
  <2> HIDE DEF s
  <2>4. DOMAIN s.copies = {s.i} /\ \A i \in DOMAIN s.copies : s.copies[i] = userDevice[i] /\ RowSound(s.copies[i])
    BY <1>c, <2>2, <2>3
  <2>5. CallerSound(s) /\ s.kind # "delete"
    BY <1>r, <2>1, <2>3, <2>4 DEF CallerSound
  <2>6. ~loginsMet => \A q \in Callers \ {r} :
           /\ s.kind = "login" /\ caller[q].kind = "login" => s.i[2] # caller[q].i[2]
           /\ s.kind = "login" /\ caller[q].kind = "delete" => s.i[1] # caller[q].i[1]
    BY <2>3 DEF SessionsInv, LoginsApart
  <2>7. ~staleDevice /\ ~loginsMet /\ s.kind = "login" => account[s.i[1]] /\ \A j \in Installations :
                ~(Rival(s.i, j) /\ userDevice[j].session # NoSession)
    BY <2>1, <2>3 DEF SessionsInv, LoginsSound
  <2> QED
    BY <2>1, <2>3, <2>4, <2>5, <2>6, <2>7, CallerTakes
<1> QED
  BY <1>1, <1>2, <1>3, <1>4, <1>5

\* What is known of the sessions in a request's copies.
LEMMA CopiesKnown ==
  ASSUME SessionsInv, NEW r \in Callers
  PROVE  /\ CallerSound(caller[r]) /\ caller[r] \in CallerStates
         /\ DOMAIN caller[r].copies \subseteq Installations
         /\ SessionsOf(caller[r].copies) \subseteq SessionIds
         /\ \A x \in SessionsOf(caller[r].copies) :
              /\ Made(x)
              /\ \A j \in Installations : userDevice[j].session = x => j \in DOMAIN caller[r].copies
<1> DEFINE a == caller[r]
<1>1. CallerSound(a) /\ a \in CallerStates
  BY DEF SessionsInv, RowsSound, SessionsTyped
<1> HIDE DEF a
<1>2. DOMAIN a.copies \subseteq Installations /\ \A i \in DOMAIN a.copies : a.copies[i] \in DeviceStates
  BY <1>1, CopiesAre
<1>3. ASSUME NEW x \in SessionsOf(a.copies)
      PROVE  /\ x \in SessionIds /\ Made(x)
             /\ \A j \in Installations : userDevice[j].session = x => j \in DOMAIN a.copies
  <2>1. PICK i \in DOMAIN a.copies : x = a.copies[i].session /\ x # NoSession
    BY <1>3 DEF SessionsOf
  <2>2. Made(x)
    BY <1>1, <2>1 DEF CallerSound, RowSound
  <2>3. PICK own \in [SessionIds -> Installations \union {<<>>}] : MadeFor(own)
    BY DEF SessionsInv, OneOwner
  <2>4. own[x] = i
    BY <2>1, <2>3 DEF MadeFor, a
  <2>5. \A j \in Installations : userDevice[j].session = x => j = i
    BY <2>1, <2>3, <2>4 DEF MadeFor
  <2> QED
    BY <2>1, <2>2, <2>5 DEF Made
<1> QED
  BY <1>1, <1>2, <1>3 DEF a

\* What a request has in hand that goes on to load or to disconnect.
LEMMA CallerGoes ==
  ASSUME NEW a \in CallerStates, NEW kill \in SUBSET SessionIds
  PROVE  /\ [a EXCEPT !.pc = "load", !.kill = kill] \in CallerStates
         /\ [a EXCEPT !.pc = "kill", !.kill = kill, !.copies = <<>>] \in CallerStates
         /\ [a EXCEPT !.pc = "commit"] \in CallerStates
         /\ DOMAIN <<>> = {}
<1>1. <<>> \in UNION {[I -> DeviceStates] : I \in SUBSET Installations} /\ DOMAIN <<>> = {}
  BY BlankRows DEF Free, CallerStates
<1> QED
  BY <1>1 DEF CallerStates

LEMMA OtherUsersDeactivated ==
  ASSUME SessionsInv, NEW r \in Callers, DeactivateOtherUsers(r)
  PROVE  SessionsInv'
<1> DEFINE a == caller[r]
           I == DOMAIN a.copies
           known == SessionsOf(a.copies)
           kill == IF a.kind = "login" THEN known ELSE {}
<1>1. CallerSound(a) /\ a \in CallerStates /\ I \in SUBSET Installations /\ known \in SUBSET SessionIds
      /\ \A x \in known : Made(x) /\ \A j \in Installations : userDevice[j].session = x => j \in I
  BY CopiesKnown
<1>2. /\ userDevice' = [i \in Installations |-> IF i \in I THEN Cleared ELSE userDevice[i]]
      /\ Loses(I, kill) /\ a.pc = "clear"
      /\ caller' = [caller EXCEPT ![r] = [a EXCEPT !.pc = "load", !.kill = kill]]
      /\ UNCHANGED <<sessionsMade, staleDevice, sockets, loginsMet, account>>
  BY DEF DeactivateOtherUsers, Resume
<1>3. kill \in SUBSET SessionIds /\ kill \subseteq known
  BY <1>1
<1>4. PICK s \in CallerStates :
        /\ s.pc = "load" /\ s.kind = a.kind /\ s.i = a.i /\ s.kill = kill /\ s.copies = a.copies
        /\ caller' = [caller EXCEPT ![r] = s]
  <2> DEFINE t == [a EXCEPT !.pc = "load", !.kill = kill]
  <2>1. t \in CallerStates
    BY <1>1, <1>3, CallerGoes
  <2> HIDE DEF kill
  <2>2. t.pc = "load" /\ t.kind = a.kind /\ t.i = a.i /\ t.kill = kill /\ t.copies = a.copies
    BY <1>1 DEF CallerStates
  <2> QED
    BY <1>2, <2>1, <2>2
<1>5. CallerSound(s)'
  <2>1. a.kind \in {"login", "register"} /\ a.i \in Installations /\ a.kill = {}
    BY <1>1, <1>2 DEF CallerSound
  <2>2. \A x \in kill : Made(x)' /\ x \in revoked'
    BY <1>1, <1>2, <1>3 DEF Loses, Made
  <2>3. \A i \in DOMAIN s.copies : RowSound(s.copies[i])'
    BY <1>1, <1>2, <1>4 DEF CallerSound, RowSound, Made
  <2> HIDE DEF known
  <2>4. s.kind \in {"none", "register", "invalid"} => s.kill = {}
    BY <1>4, <2>1
  <2>5. s.kind \in {"login", "register"} /\ s.i \in Installations
    BY <1>4, <2>1
  <2> HIDE DEF kill
  <2> QED
    BY <1>4, <2>2, <2>3, <2>4, <2>5 DEF CallerSound
<1>6. s.kind = "login" /\ ~staleDevice /\ ~loginsMet => \A j \in Installations :
                Rival(s.i, j) /\ userDevice[j].session # NoSession => j \in I
  BY <1>2, <1>4 DEF SessionsInv, LoginsSound
<1>7. a.kill = {} /\ s.kind # "delete"
  BY <1>1, <1>2, <1>4 DEF CallerSound
<1>8. account \in [Holders -> BOOLEAN] /\ Closing(account, I)
  BY DEF SessionsInv, SessionsTyped, Closing
<1>9. \A x \in kill : Made(x) /\ \A j \in Installations : userDevice[j].session = x => j \in I
  BY <1>1, <1>3
<1>10. /\ userDevice' = [i \in Installations |-> IF i \in I THEN Cleared ELSE userDevice[i]]
       /\ Loses(I, kill) /\ account' = account /\ caller' = [caller EXCEPT ![r] = s]
       /\ UNCHANGED <<sessionsMade, staleDevice, sockets, loginsMet>>
  BY <1>2, <1>4
<1>11. I \in SUBSET Installations
  BY <1>1
<1>12. s.kind = "login" => a.kind = "login" /\ s.i = a.i /\ s.pc = "load"
  BY <1>4
<1>13. s.pc # "commit" /\ s.copies = a.copies /\ \A x \in kill : x \in s.kill
  BY <1>4
<1> HIDE DEF kill, known, I
<1> QED
  BY <1>3, <1>5, <1>6, <1>7, <1>8, <1>9, <1>10, <1>11, <1>12, <1>13, RowsCleared

LEMMA SessionsEnded ==
  ASSUME SessionsInv, NEW r \in Callers, EndSessions(r)
  PROVE  SessionsInv'
<1> DEFINE a == caller[r]
           I == DOMAIN a.copies
           known == SessionsOf(a.copies)
<1>1. CallerSound(a) /\ a \in CallerStates /\ I \in SUBSET Installations /\ known \in SUBSET SessionIds
      /\ \A x \in known : Made(x) /\ \A j \in Installations : userDevice[j].session = x => j \in I
  BY CopiesKnown
<1>2. /\ userDevice' = [i \in Installations |-> IF i \in I THEN Cleared ELSE userDevice[i]]
      /\ Loses(I, known) /\ a.pc = "end"
      /\ caller' = [caller EXCEPT ![r] = [a EXCEPT !.pc = "kill", !.kill = known, !.copies = <<>>]]
      /\ UNCHANGED <<sessionsMade, staleDevice, sockets, loginsMet, account>>
  BY DEF EndSessions, Resume
<1>4. PICK s \in CallerStates :
        /\ s.pc = "kill" /\ s.kind = a.kind /\ s.i = a.i /\ s.kill = known /\ s.copies = <<>>
        /\ DOMAIN s.copies = {} /\ caller' = [caller EXCEPT ![r] = s]
  BY <1>1, <1>2, CallerGoes DEF CallerStates
<1>7. a.kill = {} /\ s.kind \in {"logout", "reset"}
  BY <1>1, <1>2, <1>4 DEF CallerSound
<1>5. CallerSound(s)'
  <2>2. \A x \in known : Made(x)' /\ x \in revoked'
    BY <1>1, <1>2 DEF Loses, Made
  <2> HIDE DEF known
  <2>3. (s.kind = "logout" => s.i \in Installations) /\ (s.kind = "reset" => s.i[1] \in Holders)
    BY <1>1, <1>4, <1>7 DEF CallerSound
  <2> QED
    BY <1>4, <1>7, <2>2, <2>3 DEF CallerSound
<1>8. account \in [Holders -> BOOLEAN] /\ Closing(account, I)
  BY DEF SessionsInv, SessionsTyped, Closing
<1> HIDE DEF known, I
<1> QED
  BY <1>1, <1>2, <1>4, <1>5, <1>7, <1>8, RowsCleared

LEMMA DeletionCommitted ==
  ASSUME SessionsInv, NEW r \in Callers, CommitDeletion(r)
  PROVE  SessionsInv'
<1> DEFINE a == caller[r]
           u == a.i[1]
           I == RowsOf(u)
           known == a.kill
           accounts == [account EXCEPT ![u] = FALSE]
<1>1. /\ userDevice' = [i \in Installations |-> IF i \in I THEN Cleared ELSE userDevice[i]]
      /\ Loses(I, known) /\ caller' = [caller EXCEPT ![r] = Free] /\ a.pc = "commit" /\ account' = accounts
      /\ UNCHANGED <<sessionsMade, staleDevice, sockets, loginsMet>>
  BY DEF CommitDeletion, Resume, Returns
<1>2. CallerSound(a) /\ a \in CallerStates /\ a.kind = "delete" /\ u \in Holders /\ known \in SUBSET SessionIds
  BY <1>1, CopiesKnown, CopiesAre DEF CallerSound
<1>3. I \in SUBSET Installations /\ accounts \in [Holders -> BOOLEAN]
  BY DEF RowsOf, SessionsInv, SessionsTyped
<1>4. \A j \in Installations : j[1] = u /\ userDevice[j].session # NoSession => j \in I
  BY DEF RowsOf, SessionsInv, RowsSound, RowSound
<1>5. \A x \in known : Made(x) /\ \A j \in Installations : userDevice[j].session = x => j \in I
  <2> SUFFICES ASSUME NEW x \in known PROVE Made(x) /\ \A j \in Installations : userDevice[j].session = x => j \in I
    OBVIOUS
  <2>1. Made(x) /\ x # NoSession
    BY <1>2, SessionsAre DEF CallerSound
  <2>2. PICK own \in [SessionIds -> Installations \union {<<>>}] : MadeFor(own)
    BY DEF SessionsInv, OneOwner
  <2>3. own[x][1] = u
    BY <1>2, <2>2 DEF MadeFor
  <2>4. \A j \in Installations : userDevice[j].session = x => j[1] = u
    BY <2>1, <2>2, <2>3 DEF MadeFor
  <2> QED
    BY <1>4, <2>1, <2>4
<1>6. \A x \in known : \A k \in Clients : socket[k].pc = "open" /\ socket[k].session = x => k \in late
  BY <1>1 DEF SessionsInv, SocketsSound
<1>7. Closing(accounts, I)
  <2>1. \A v \in Holders : accounts[v] # account[v] => v = u
    BY DEF SessionsInv, SessionsTyped
  <2>2. ~loginsMet => \A q \in Callers : caller[q].kind = "login" => caller[q].i[1] # u
    BY <1>2 DEF SessionsInv, LoginsApart
  <2> QED
    BY <1>4, <2>1, <2>2 DEF Closing
<1>8. CallerSound(Free)'
  <2>1. sessionsMade' = sessionsMade
    BY <1>1
  <2> QED
    BY BlankRows DEF CallerSound
<1>9. /\ userDevice' = [i \in Installations |-> IF i \in I THEN Cleared ELSE userDevice[i]]
      /\ Loses(I, known) /\ account' = accounts /\ caller' = [caller EXCEPT ![r] = Free]
      /\ UNCHANGED <<sessionsMade, staleDevice, sockets, loginsMet>>
  BY <1>1
<1>10. /\ Free \in CallerStates /\ Free.pc # "commit" /\ Free.kind # "delete" /\ Free.kind # "login" /\ Free.copies = <<>>
  BY BlankRows
<1>11. caller[r].kind = "delete" /\ known \in SUBSET SessionIds
  BY <1>2
<1>12. PICK s \in CallerStates : s = Free /\ CallerSound(s)' /\ s.pc # "commit" /\ s.kind # "delete" /\ s.kind # "login"
         /\ s.copies = <<>> /\ caller' = [caller EXCEPT ![r] = s]
  BY <1>8, <1>9, <1>10
<1> HIDE DEF known, I, accounts, u, a
<1>13. /\ userDevice' = [i \in Installations |-> IF i \in I THEN Cleared ELSE userDevice[i]]
       /\ Loses(I, known) /\ account' = accounts
       /\ UNCHANGED <<sessionsMade, staleDevice, sockets, loginsMet>>
  BY <1>9
<1>14. \A x \in known : \/ x \in s.kill
           \/ \A k \in Clients : socket[k].pc = "open" /\ socket[k].session = x => k \in late
  BY <1>6
<1>15. caller[r].kind = "delete" \/ caller[r].kill \subseteq s.kill
  BY <1>11
<1>16. CallerSound(s)' /\ s.pc # "commit" /\ s.kind # "delete" /\ s.kind # "login" /\ s.copies = <<>>
       /\ caller' = [caller EXCEPT ![r] = s]
  BY <1>12
<1> QED
  BY <1>3, <1>5, <1>7, <1>11, <1>13, <1>14, <1>15, <1>16, RowsCleared

\* The row of one installation is saved: with the session it had, the one of a
\* copy or a new one.
LEMMA RowSaved ==
  ASSUME SessionsInv, NEW r \in Callers, NEW s \in CallerStates, NEW i \in Installations,
         NEW row \in DeviceStates, NEW lost \in SUBSET SessionIds, NEW known \in SUBSET SessionIds,
         NEW made \in Nat, NEW own \in [SessionIds -> Installations \union {<<>>}],
         userDevice' = [userDevice EXCEPT ![i] = row], sessionsMade' = made, made >= sessionsMade,
         revoked' = revoked \union lost \union known, overlooked' = overlooked \union (lost \ known),
         caller' = [caller EXCEPT ![r] = s],
         UNCHANGED <<account, sockets, loginsMet>>, ~staleDevice' => ~staleDevice,
         RowSound(row)', CallerSound(s)', s.kind # "delete", s.pc \in {"idle", "kill"}, s.copies = <<>>,
         s.kind = "login" => caller[r].kind = "login" /\ s.i = caller[r].i,
         \A x \in lost \union known : Made(x), \A x \in known : x \in s.kill,
         caller[r].kind # "delete", caller[r].kill \subseteq s.kill,
         MadeFor(own), row.session # NoSession => own[row.session] = i,
         ~staleDevice' => row.session \notin revoked',
         ~staleDevice' => \A j \in Installations \ {i} : userDevice[j].session \notin lost \union known,
         ~staleDevice' => \/ row.session = userDevice[i].session
                          \/ caller[r].kind = "login" /\ caller[r].i = i /\ caller[r].pc = "save"
  PROVE  SessionsInv'
<1>1. /\ \A q \in Callers \ {r} : caller'[q] = caller[q]
      /\ caller'[r] = s /\ caller' \in [Callers -> CallerStates]
      /\ userDevice'[i] = row /\ userDevice' \in [Installations -> DeviceStates]
      /\ \A j \in Installations \ {i} : userDevice'[j] = userDevice[j]
  BY DEF SessionsInv, SessionsTyped
<1>2. UNCHANGED <<socket, connections, activeInboxUsers, late>> /\ DOMAIN s.copies = {}
  BY CallerGoes DEF sockets
<1>3. SessionsTyped'
  BY <1>1, <1>2 DEF SessionsInv, SessionsTyped
<1>m. \A x : Made(x) => Made(x)'
  <2> SUFFICES ASSUME NEW x, Made(x) PROVE x \in SessionIds /\ x <= made
    BY DEF Made
  <2>1. x \in Nat /\ sessionsMade \in Nat /\ x <= sessionsMade
    BY SessionsAre DEF Made, SessionsInv, SessionsTyped
  <2> QED
    BY <2>1 DEF Made
<1>4. RowsSound'
  <2>1. \A j \in Installations : RowSound(userDevice[j])'
    <3> SUFFICES ASSUME NEW j \in Installations PROVE RowSound(userDevice[j])'
      OBVIOUS
    <3>1. CASE j = i
      BY <1>1, <3>1 DEF RowSound
    <3>2. CASE j # i
      BY <1>1, <1>m, <3>2 DEF SessionsInv, RowsSound, RowSound
    <3> QED
      BY <3>1, <3>2
  <2>2. \A x \in revoked' : Made(x)'
    BY <1>m DEF SessionsInv, RowsSound
  <2>3. \A q \in Callers \ {r} : CallerSound(caller[q])'
    <3> SUFFICES ASSUME NEW q \in Callers \ {r} PROVE CallerSound(caller[q])'
      OBVIOUS
    <3>1. CallerSound(caller[q])
      BY DEF SessionsInv, RowsSound
    <3>2. caller'[q] = caller[q]
      BY <1>1
    <3> QED
      BY <1>m, <3>1, <3>2 DEF CallerSound, RowSound
  <2>4. CallerSound(caller[r])'
    BY <1>1 DEF CallerSound, RowSound, Made
  <2> QED
    BY <2>1, <2>2, <2>3, <2>4 DEF RowsSound
<1>5. OneOwner'
  <2>1. \A j \in Installations : userDevice'[j].session # NoSession => own[userDevice'[j].session] = j
    BY <1>1 DEF MadeFor
  <2>2. \A q \in Callers :
       /\ \A j \in DOMAIN caller'[q].copies :
            caller'[q].copies[j].session # NoSession => own[caller'[q].copies[j].session] = j
       /\ caller'[q].kind = "delete" => \A x \in caller'[q].kill :
            own[x] \in Installations /\ own[x][1] = caller'[q].i[1]
    <3> TAKE q \in Callers
    <3>1. CASE q = r
      BY <1>1, <1>2, <3>1
    <3>2. CASE q # r
      BY <1>1, <3>2 DEF MadeFor
    <3> QED
      BY <3>1, <3>2
  <2> QED
    BY <2>1, <2>2 DEF OneOwner, MadeFor
<1>6. EndedStays'
  BY <1>1 DEF SessionsInv, EndedStays
<1>7. LoginsApart'
  BY <1>1 DEF SessionsInv, LoginsApart
<1>8. LoginsSound'
  <2> SUFFICES ASSUME ~staleDevice', ~loginsMet PROVE LoginsSound'
    BY DEF LoginsSound
  <2>1. CASE row.session = userDevice[i].session
    <3>1. \A j \in Installations : userDevice'[j].session = userDevice[j].session
      BY <1>1, <2>1
    <3> QED
      BY <1>1, <3>1 DEF SessionsInv, LoginsSound
  <2>2. CASE caller[r].kind = "login" /\ caller[r].i = i /\ caller[r].pc = "save"
    <3>1. \A j \in Installations : Rival(i, j) => userDevice[j].session = NoSession
      BY <2>2 DEF SessionsInv, LoginsSound
    <3>2. \A q \in Callers \ {r} : caller[q].kind = "login" => ~Rival(caller[q].i, i)
      BY <2>2 DEF SessionsInv, LoginsApart, Rival
    <3>3. account[i[1]]
      BY <2>2 DEF SessionsInv, LoginsSound
    <3>4. \A j, k \in Installations :
         Rival(j, k) => userDevice'[j].session = NoSession \/ userDevice'[k].session = NoSession
      <4>1. \A j, k \in Installations : Rival(j, k) => Rival(k, j) /\ j # k
        BY DEF Rival
      <4> QED
        BY <1>1, <3>1, <4>1 DEF SessionsInv, LoginsSound
    <3>5. \A j \in Installations : ~account'[j[1]] => userDevice'[j].session = NoSession
      BY <1>1, <3>3 DEF SessionsInv, LoginsSound
    <3>6. ASSUME NEW q \in Callers, caller'[q].kind = "login"
          PROVE  /\ account'[caller'[q].i[1]]
                 /\ caller'[q].pc \in {"clear", "load", "save"} =>
                      \A j \in Installations :
                        Rival(caller'[q].i, j) /\ userDevice'[j].session # NoSession =>
                          caller'[q].pc = "clear" /\ j \in DOMAIN caller'[q].copies
      <4>1. CASE q = r
        BY <1>1, <2>2, <3>3, <3>6, <4>1
      <4>2. CASE q # r
        BY <1>1, <3>2, <3>6, <4>2 DEF SessionsInv, LoginsSound
      <4> QED
        BY <4>1, <4>2
    <3> QED
      BY <3>4, <3>5, <3>6 DEF LoginsSound, Rival
  <2> QED
    BY <2>1, <2>2
<1>9. SocketsSound'
  <2>1. ASSUME NEW k \in Clients, socket[k].pc = "open", socket[k].session \in revoked'
        PROVE  \/ socket[k].session \in overlooked' \/ k \in late
               \/ \E q \in Callers : caller'[q].kind # "delete" /\ socket[k].session \in caller'[q].kill
    <3> DEFINE x == socket[k].session
    <3>1. CASE x \in known
      BY <1>1, <3>1
    <3>2. CASE x \in lost \ known
      BY <3>2
    <3>3. CASE x \in revoked
      <4>1. \/ x \in overlooked \/ k \in late
            \/ \E q \in Callers : caller[q].kind # "delete" /\ x \in caller[q].kill
        BY <2>1, <3>3 DEF SessionsInv, SocketsSound
      <4>2. ASSUME NEW q \in Callers, caller[q].kind # "delete", x \in caller[q].kill
            PROVE  \E t \in Callers : caller'[t].kind # "delete" /\ x \in caller'[t].kill
        BY <1>1, <4>2
      <4> QED
        BY <4>1, <4>2
    <3> QED
      BY <2>1, <3>1, <3>2, <3>3
  <2>2. \A k \in Clients, q \in Callers : caller'[q].pc = "commit" /\ socket[k].pc = "open"
            /\ socket[k].session \in caller'[q].kill => k \in late
    BY <1>1 DEF SessionsInv, SocketsSound
  <2> QED
    BY <1>2, <2>1, <2>2 DEF SessionsInv, SocketsSound
<1> QED
  BY <1>3, <1>4, <1>5, <1>6, <1>7, <1>8, <1>9 DEF SessionsInv


\* A session is one installation's.
LEMMA OwnerIsOne ==
  ASSUME SessionsInv, NEW i \in Installations, NEW j \in Installations,
         userDevice[i].session = userDevice[j].session, userDevice[i].session # NoSession
  PROVE  i = j
<1>1. PICK own \in [SessionIds -> Installations \union {<<>>}] : MadeFor(own)
  BY DEF SessionsInv, OneOwner
<1>2. own[userDevice[i].session] = i /\ own[userDevice[j].session] = j
  BY <1>1 DEF MadeFor
<1> QED
  BY <1>2

\* The installation that a new session is made for.
LEMMA OwnerAdded ==
  ASSUME SessionsInv, NEW i \in Installations, sessionsMade + 1 \in SessionIds
  PROVE  \E own \in [SessionIds -> Installations \union {<<>>}] : MadeFor(own) /\ own[sessionsMade + 1] = i
<1> DEFINE n == sessionsMade + 1
<1>1. PICK old \in [SessionIds -> Installations \union {<<>>}] : MadeFor(old)
  BY DEF SessionsInv, OneOwner
<1>2. PICK own \in [SessionIds -> Installations \union {<<>>}] :
        own[n] = i /\ \A x \in SessionIds : x # n => own[x] = old[x]
  <2> WITNESS [old EXCEPT ![n] = i] \in [SessionIds -> Installations \union {<<>>}]
  <2> QED
    OBVIOUS
<1>3. \A x : Made(x) => x # n /\ own[x] = old[x]
  <2> SUFFICES ASSUME NEW x, Made(x) PROVE x # n /\ own[x] = old[x]
    OBVIOUS
  <2>1. x \in SessionIds /\ x \in Nat /\ sessionsMade \in Nat /\ x <= sessionsMade
    BY SessionsAre DEF Made, SessionsInv, SessionsTyped
  <2> QED
    BY <1>2, <2>1
<1>4. \A j \in Installations : userDevice[j].session # NoSession => own[userDevice[j].session] = j
  BY <1>1, <1>3 DEF MadeFor, SessionsInv, RowsSound, RowSound
<1>5. ASSUME NEW q \in Callers
      PROVE  /\ \A j \in DOMAIN caller[q].copies :
                  caller[q].copies[j].session # NoSession => own[caller[q].copies[j].session] = j
             /\ caller[q].kind = "delete" => \A x \in caller[q].kill :
                  own[x] \in Installations /\ own[x][1] = caller[q].i[1]
  <2>1. CallerSound(caller[q])
    BY DEF SessionsInv, RowsSound
  <2> QED
    BY <1>1, <1>3, <2>1 DEF MadeFor, CallerSound, RowSound
<1> QED
  BY <1>2, <1>4, <1>5 DEF MadeFor

\* A request goes on as it was, is done, or has its sessions disconnected before it deletes.
Proceeds(q) ==
  \/ caller'[q] = caller[q]
  \/ caller'[q] = Free
  \/ caller[q].kind = "delete" /\ caller'[q] = [caller[q] EXCEPT !.pc = "commit"]

\* No row of user_devices changes.
LEMMA RowsStay ==
  ASSUME SessionsInv, UNCHANGED <<userDevice, account, sessionsMade, revoked, staleDevice>>,
         ~loginsMet' => ~loginsMet, caller' \in [Callers -> CallerStates],
         \A q \in Callers : Proceeds(q),
         socket' \in [Clients -> SocketStates], connections' \in [Holders -> SUBSET Clients],
         activeInboxUsers' \subseteq Holders, SocketsSound'
  PROVE  SessionsInv'
<1>1. ASSUME NEW q \in Callers
      PROVE  \/ caller'[q] = caller[q]
             \/ caller'[q] = Free
             \/ /\ caller'[q].pc = "commit" /\ caller[q].kind = "delete" /\ caller'[q].kind = "delete"
                /\ caller'[q].i = caller[q].i /\ caller'[q].copies = caller[q].copies
                /\ caller'[q].kill = caller[q].kill
  <2>1. caller[q] \in CallerStates
    BY DEF SessionsInv, SessionsTyped
  <2> QED
    BY <2>1 DEF Proceeds, CallerStates
<1>2. \A q \in Callers : CallerSound(caller[q]) /\ CallerSound(caller'[q])
  <2> TAKE q \in Callers
  <2>1. CallerSound(caller[q])
    BY DEF SessionsInv, RowsSound
  <2>2. CASE caller'[q] = Free
    BY <2>1, <2>2, FreeIsSound DEF SessionsInv
  <2>3. CASE caller'[q] # Free
    BY <1>1, <2>1, <2>3 DEF CallerSound
  <2> QED
    BY <2>1, <2>2, <2>3
<1>3. SessionsTyped'
  BY DEF SessionsInv, SessionsTyped
<1>4. RowsSound'
  <2>1. \A q \in Callers : CallerSound(caller[q])'
    BY <1>2 DEF CallerSound, RowSound, Made
  <2> QED
    BY <2>1 DEF SessionsInv, RowsSound, RowSound, Made
<1>5. OneOwner'
  <2>1. PICK own \in [SessionIds -> Installations \union {<<>>}] : MadeFor(own)
    BY DEF SessionsInv, OneOwner
  <2>2. ASSUME NEW q \in Callers
        PROVE  /\ \A i \in DOMAIN caller'[q].copies :
                    caller'[q].copies[i].session # NoSession => own[caller'[q].copies[i].session] = i
               /\ caller'[q].kind = "delete" => \A x \in caller'[q].kill :
                    own[x] \in Installations /\ own[x][1] = caller'[q].i[1]
    BY <1>1, <2>1, BlankRows DEF MadeFor
  <2>3. \A i \in Installations : userDevice'[i].session # NoSession => own[userDevice'[i].session] = i
    BY <2>1 DEF MadeFor
  <2> QED
    BY <2>2, <2>3 DEF OneOwner, MadeFor
<1>6. EndedStays'
  BY DEF SessionsInv, EndedStays
<1>7. \A q \in Callers : caller'[q].kind \in {"login", "delete"} =>
         /\ caller'[q].kind = caller[q].kind /\ caller'[q].i = caller[q].i
         /\ caller'[q].kind = "login" => caller'[q] = caller[q]
  BY <1>1, BlankRows
<1>8. LoginsApart'
  BY <1>7 DEF SessionsInv, LoginsApart
<1>9. LoginsSound'
  BY <1>7 DEF SessionsInv, LoginsSound
<1> QED
  BY <1>3, <1>4, <1>5, <1>6, <1>8, <1>9 DEF SessionsInv

\* Two first logins: the second one's insertion fails.
LEMMA SessionRefused ==
  ASSUME SessionsInv, NEW r \in Callers, caller[r].kind = "login", Returns(r),
         overlooked' = overlooked \union caller[r].kill,
         UNCHANGED <<userDevice, account, sessionsMade, revoked, staleDevice, sockets, loginsMet>>
  PROVE  SessionsInv'
<1>1. caller' = [caller EXCEPT ![r] = Free] /\ UNCHANGED <<socket, connections, activeInboxUsers, late>>
  BY DEF Returns, sockets
<1>2. /\ caller' \in [Callers -> CallerStates] /\ caller'[r] = Free
      /\ \A q \in Callers \ {r} : caller'[q] = caller[q]
  BY <1>1, BlankRows DEF SessionsInv, SessionsTyped
<1>3. \A q \in Callers : Proceeds(q)
  BY <1>2 DEF Proceeds
<1>4. SocketsSound'
  <2>1. ASSUME NEW k \in Clients, socket[k].pc = "open", socket[k].session \in revoked
        PROVE  \/ socket[k].session \in overlooked' \/ k \in late
               \/ \E q \in Callers : caller'[q].kind # "delete" /\ socket[k].session \in caller'[q].kill
    <3>1. CASE socket[k].session \in caller[r].kill
      BY <3>1
    <3>2. CASE socket[k].session \notin caller[r].kill
      <4>1. \/ socket[k].session \in overlooked \/ k \in late
            \/ \E q \in Callers : caller[q].kind # "delete" /\ socket[k].session \in caller[q].kill
        BY <2>1 DEF SessionsInv, SocketsSound
      <4> QED
        BY <1>2, <3>2, <4>1
    <3> QED
      BY <3>1, <3>2
  <2>2. \A k \in Clients, q \in Callers : caller'[q].pc = "commit" /\ socket[k].pc = "open"
            /\ socket[k].session \in caller'[q].kill => k \in late
    BY <1>2, BlankRows DEF SessionsInv, SocketsSound
  <2> QED
    BY <1>1, <2>1, <2>2 DEF SessionsInv, SocketsSound
<1>5. /\ socket' \in [Clients -> SocketStates] /\ connections' \in [Holders -> SUBSET Clients]
      /\ activeInboxUsers' \subseteq Holders
  BY <1>1 DEF SessionsInv, SessionsTyped
<1> QED
  BY <1>2, <1>3, <1>4, <1>5, RowsStay

LEMMA SessionStarted ==
  ASSUME SessionsInv, NEW r \in Callers, StartAuthSession(r)
  PROVE  SessionsInv'
<1> DEFINE a == caller[r]
           i == a.i
           copy == a.copies[i]
           n == sessionsMade + 1
           row == [copy EXCEPT !.session = n, !.there = TRUE, !.active = @ \/ ~copy.there]
           known == SessionsOf(a.copies) \union a.kill
           lost == {userDevice[i].session} \ {NoSession}
<1>1. a.pc = "save" /\ a.kind = "login" /\ UNCHANGED <<account, sockets, loginsMet, authWork>>
  BY DEF StartAuthSession, Resume
<1>2. /\ CallerSound(a) /\ a \in CallerStates /\ DOMAIN a.copies = {i} /\ i \in Installations
      /\ a.kill \subseteq SessionIds /\ a.kill \subseteq revoked /\ \A x \in a.kill : Made(x)
      /\ copy \in DeviceStates
  BY <1>1, CopiesKnown, CopiesAre DEF CallerSound
<1>3. CASE copy.there \/ ~userDevice[i].there
  <2>1. /\ n \in SessionIds /\ sessionsMade' = n /\ userDevice' = [userDevice EXCEPT ![i] = row]
        /\ Loses({i}, known) /\ staleDevice' = staleDevice
        /\ caller' = [caller EXCEPT ![r] = [a EXCEPT !.pc = "kill", !.kill = known, !.copies = <<>>]]
    BY <1>3 DEF StartAuthSession
  <2>2. /\ known \in SUBSET SessionIds /\ \A x \in known : Made(x)
        /\ \A x \in SessionsOf(a.copies) : \A j \in Installations : userDevice[j].session = x => j = i
    BY <1>2, CopiesKnown
  <2>3. lost \in SUBSET SessionIds /\ \A x \in lost : Made(x)
    BY <1>2 DEF SessionsInv, SessionsTyped, RowsSound, RowSound, Made
  <2>4. revoked' = revoked \union lost \union known /\ overlooked' = overlooked \union (lost \ known)
    <3>1. {userDevice[j].session : j \in {i}} \ {NoSession} = lost
      OBVIOUS
    <3> QED
      BY <2>1, <3>1 DEF Loses
  <2>5. row \in DeviceStates /\ row.session = n /\ row.there
    <3> DEFINE b == copy.active \/ ~copy.there
    <3>1. b \in BOOLEAN
      OBVIOUS
    <3> HIDE DEF b
    <3>2. row = [copy EXCEPT !.session = n, !.there = TRUE, !.active = b]
      BY DEF b
    <3> QED
      BY <1>2, <2>1, <3>1, <3>2 DEF DeviceStates
  <2>6. PICK s \in CallerStates :
          /\ s.pc = "kill" /\ s.kind = "login" /\ s.i = i /\ s.kill = known /\ s.copies = <<>>
          /\ DOMAIN s.copies = {} /\ caller' = [caller EXCEPT ![r] = s]
    BY <1>1, <1>2, <2>1, <2>2, CallerGoes DEF CallerStates
  <2>7. PICK own \in [SessionIds -> Installations \union {<<>>}] : MadeFor(own) /\ own[n] = i
    BY <1>2, <2>1, OwnerAdded
  <2>8. n \in Nat /\ n > sessionsMade /\ n # NoSession /\ \A x : Made(x) => x # n
    <3>1. sessionsMade \in Nat /\ \A x : Made(x) => x \in Nat /\ x <= sessionsMade
      BY SessionsAre DEF Made, SessionsInv, SessionsTyped
    <3> QED
      BY <2>1, <3>1, SessionsAre
  <2>9. n \notin revoked'
    BY <2>2, <2>3, <2>4, <2>8 DEF SessionsInv, RowsSound
  <2>10. ~staleDevice => \A j \in Installations \ {i} : userDevice[j].session \notin lost \union known
    <3> SUFFICES ASSUME ~staleDevice, NEW j \in Installations \ {i}
                 PROVE  userDevice[j].session \notin lost /\ userDevice[j].session \notin known
      OBVIOUS
    <3>1. userDevice[j].session \notin lost
      BY <1>2, OwnerIsOne
    <3>2. userDevice[j].session \notin a.kill
      BY <1>2 DEF SessionsInv, EndedStays
    <3> QED
      BY <2>2, <3>1, <3>2
  <2>11. \A x : Made(x) => Made(x)'
    <3> SUFFICES ASSUME NEW x, Made(x) PROVE x \in SessionIds /\ x <= n
      BY <2>1 DEF Made
    <3>1. x \in Nat /\ sessionsMade \in Nat /\ x <= sessionsMade
      BY SessionsAre DEF Made, SessionsInv, SessionsTyped
    <3> QED
      BY <2>8, <3>1 DEF Made
  <2> HIDE DEF known, lost, row, n
  <2>12. CallerSound(s)'
    <3>1. \A x \in known : Made(x)' /\ x \in revoked'
      BY <2>2, <2>4, <2>11
    <3> QED
      BY <1>2, <2>6, <3>1 DEF CallerSound
  <2>d. PICK d \in DeviceStates : d = row
    BY <2>5
  <2>13. RowSound(d)'
    BY <2>1, <2>5, <2>8, <2>d DEF RowSound, Made
  <2>14. a.kill \subseteq s.kill
    BY <2>6 DEF known
  <2>15. n >= sessionsMade /\ (~staleDevice' => ~staleDevice)
    BY <2>1, <2>8 DEF SessionsInv, SessionsTyped
  <2>16. \A x \in lost \union known : Made(x)
    BY <2>2, <2>3
  <2>17. /\ userDevice' = [userDevice EXCEPT ![i] = d] /\ sessionsMade' = n
         /\ UNCHANGED <<account, sockets, loginsMet>> /\ caller' = [caller EXCEPT ![r] = s]
    BY <1>1, <2>1, <2>6, <2>d
  <2>18. ~staleDevice' => d.session \notin revoked'
    BY <2>5, <2>9, <2>d
  <2>19. ~staleDevice' => \A j \in Installations \ {i} : userDevice[j].session \notin lost \union known
    BY <2>1, <2>10
  <2>20. /\ s.kind # "delete" /\ s.pc \in {"idle", "kill"} /\ s.copies = <<>> /\ a.kind = "login" /\ s.i = i
         /\ \A x \in known : x \in s.kill
    BY <1>1, <2>6
  <2>21. d.session # NoSession => own[d.session] = i
    BY <2>5, <2>7, <2>d
  <2>22. i \in Installations /\ caller[r].i = i /\ caller[r].pc = "save" /\ caller[r].kind = "login"
         /\ n \in Nat /\ lost \in SUBSET SessionIds /\ known \in SUBSET SessionIds
    BY <1>1, <1>2, <2>2, <2>3, <2>5, <2>8
  <2> HIDE DEF copy, i, a
  <2> QED
    BY <2>4, <2>7, <2>12, <2>13, <2>14, <2>15, <2>16, <2>17, <2>18, <2>19, <2>20, <2>21, <2>22, RowSaved
       DEF a
<1>4. CASE ~(copy.there \/ ~userDevice[i].there)
  <2>1. /\ Returns(r) /\ overlooked' = overlooked \union caller[r].kill
        /\ UNCHANGED <<userDevice, sessionsMade, revoked, staleDevice>>
    BY <1>4 DEF StartAuthSession
  <2> HIDE DEF a, copy, i
  <2> QED
    BY <1>1, <2>1, SessionRefused DEF a
<1> QED
  BY <1>3, <1>4

\* The sockets K close.
LEMMA SocketsClose ==
  ASSUME SessionsInv, NEW K \in SUBSET Clients, HandleDisconnect(K), \A k \in K : socket[k].pc = "open",
         UNCHANGED <<revoked, overlooked>>, caller' \in [Callers -> CallerStates],
         \A q \in Callers : Proceeds(q),
         \A q \in Callers : \/ caller'[q] = caller[q]
                            \/ caller[q].kind = "delete" /\ caller'[q] = Free
                            \/ \A k \in Clients :
                                 socket[k].pc = "open" /\ socket[k].session \in caller[q].kill => k \in K
  PROVE  /\ socket' \in [Clients -> SocketStates] /\ connections' \in [Holders -> SUBSET Clients]
         /\ activeInboxUsers' \subseteq Holders /\ SocketsSound'
<1>1. /\ \A k \in K : socket'[k] = Closed
      /\ \A k \in Clients \ K : socket'[k] = socket[k]
      /\ \A u \in Holders : connections'[u] = connections[u] \ K
      /\ activeInboxUsers' = activeInboxUsers \ {socket[k].user : k \in K}
      /\ late' = late \ K
  BY DEF HandleDisconnect, InboxWithout
<1>2. socket' \in [Clients -> SocketStates]
  BY BlankRows DEF HandleDisconnect, SessionsInv, SessionsTyped
<1>3. connections' \in [Holders -> SUBSET Clients] /\ activeInboxUsers' \subseteq Holders
  BY <1>1 DEF HandleDisconnect, SessionsInv, SessionsTyped
<1>4. ASSUME NEW q \in Callers
      PROVE  \/ caller'[q] = caller[q]
             \/ caller'[q].kill = {} /\ caller'[q].pc = "idle"
             \/ caller[q].kind = "delete" /\ caller'[q].kind = "delete" /\ caller'[q].kill = caller[q].kill
  <2>1. caller[q] \in CallerStates
    BY DEF SessionsInv, SessionsTyped
  <2> QED
    BY <2>1, BlankRows DEF Proceeds, CallerStates
<1>5. ASSUME NEW k \in Clients
      PROVE  /\ socket'[k].pc = "open" /\ socket'[k].session \in revoked' =>
                  \/ socket'[k].session \in overlooked' \/ k \in late'
                  \/ \E r \in Callers : caller'[r].kind # "delete" /\ socket'[k].session \in caller'[r].kill
             /\ socket'[k].pc # "off" => socket'[k].user \in Holders
             /\ \A r \in Callers : caller'[r].pc = "commit" /\ socket'[k].pc = "open"
                  /\ socket'[k].session \in caller'[r].kill => k \in late'
  <2>1. CASE k \in K
    BY <1>1, <2>1, BlankRows
  <2>2. CASE k \notin K
    <3>1. socket'[k] = socket[k] /\ (k \in late => k \in late')
      BY <1>1, <2>2
    <3>2. ASSUME socket[k].pc = "open", NEW q \in Callers, socket[k].session \in caller[q].kill,
                 caller[q].kind # "delete"
          PROVE  caller'[q] = caller[q]
      BY <2>2, <3>2
    <3>3. ASSUME socket[k].pc = "open", NEW q \in Callers, socket[k].session \in caller'[q].kill,
                 caller'[q].pc = "commit"
          PROVE  k \in late
      <4>1. CASE caller'[q] = caller[q]
        BY <3>3, <4>1 DEF SessionsInv, SocketsSound
      <4>2. CASE caller'[q] # caller[q]
        BY <1>4, <2>2, <3>3, <4>2, BlankRows
      <4> QED
        BY <4>1, <4>2
    <3>4. socket[k].pc = "open" /\ socket[k].session \in revoked =>
            \/ socket[k].session \in overlooked \/ k \in late
            \/ \E q \in Callers : caller'[q].kind # "delete" /\ socket[k].session \in caller'[q].kill
      BY <3>2 DEF SessionsInv, SocketsSound
    <3>5. socket[k].pc # "off" => socket[k].user \in Holders
      BY DEF SessionsInv, SocketsSound
    <3> QED
      BY <3>1, <3>3, <3>4, <3>5
  <2> QED
    BY <2>1, <2>2
<1>6. \A u \in Holders :
        connections'[u] = {k \in Clients : socket'[k].pc \in {"open", "ghost"} /\ socket'[k].user = u}
  <2> TAKE u \in Holders
  <2>1. connections[u] = {k \in Clients : socket[k].pc \in {"open", "ghost"} /\ socket[k].user = u}
    BY DEF SessionsInv, SocketsSound
  <2> QED
    BY <1>1, <2>1, BlankRows
<1>7. ASSUME NEW u \in activeInboxUsers' PROVE \E k \in connections'[u] : socket'[k].pc = "open"
  <2>1. u \in Holders /\ u \in activeInboxUsers /\ u \notin {socket[k].user : k \in K}
    BY <1>1, <1>7 DEF SessionsInv, SessionsTyped
  <2>2. PICK k \in connections[u] : socket[k].pc = "open"
    BY <2>1 DEF SessionsInv, SocketsSound
  <2>3. k \in Clients /\ socket[k].user = u
    BY <2>1, <2>2 DEF SessionsInv, SocketsSound
  <2>4. k \notin K
    BY <2>1, <2>3
  <2> QED
    BY <1>1, <2>1, <2>2, <2>3, <2>4
<1> QED
  BY <1>2, <1>3, <1>5, <1>6, <1>7 DEF SocketsSound


LEMMA DeviceSaved ==
  ASSUME SessionsInv, NEW r \in Callers, SaveDevice(r)
  PROVE  SessionsInv'
<1>1. PICK i \in Installations, copy \in DeviceStates, push \in BOOLEAN :
        /\ caller[r].i = i /\ copy = caller[r].copies[i] /\ DOMAIN caller[r].copies = {i}
        /\ caller[r].pc = "save" /\ caller[r].kind \in {"register", "invalid"} /\ caller[r].kill = {}
        /\ RowSound(copy)
        /\ userDevice' = [userDevice EXCEPT ![i] = [copy EXCEPT !.push = push, !.active = push, !.there = TRUE]]
        /\ staleDevice' = (staleDevice \/ userDevice[i].session # copy.session)
        /\ revoked' = revoked \union ({userDevice[i].session} \ {copy.session, NoSession})
        /\ overlooked' = overlooked \union ({userDevice[i].session} \ {copy.session, NoSession})
        /\ caller' = [caller EXCEPT ![r] = Free]
        /\ UNCHANGED <<account, sessionsMade, sockets, loginsMet>>
  <2>1. CallerSound(caller[r]) /\ caller[r] \in CallerStates
    BY CopiesKnown
  <2>2. caller[r].pc = "save" /\ caller[r].kind \in {"register", "invalid"}
    BY DEF SaveDevice, Resume
  <2>3. caller[r].i \in Installations /\ DOMAIN caller[r].copies = {caller[r].i} /\ caller[r].kill = {}
    BY <2>1, <2>2 DEF CallerSound
  <2>4. caller[r].copies[caller[r].i] \in DeviceStates /\ RowSound(caller[r].copies[caller[r].i])
    BY <2>1, <2>3, CopiesAre DEF CallerSound
  <2>5. (caller[r].kind = "register") \in BOOLEAN
    OBVIOUS
  <2> QED
    BY <2>2, <2>3, <2>4, <2>5 DEF SaveDevice, Resume, Returns
<1>2. PICK row \in DeviceStates :
        /\ row = [copy EXCEPT !.push = push, !.active = push, !.there = TRUE]
        /\ row.session = copy.session /\ row.there
  <2> DEFINE t == [copy EXCEPT !.push = push, !.active = push, !.there = TRUE]
  <2>1. t \in DeviceStates /\ t.session = copy.session /\ t.there
    BY DEF DeviceStates
  <2> QED
    BY <2>1
<1>3. PICK lost \in SUBSET SessionIds :
        /\ lost = {userDevice[i].session} \ {copy.session, NoSession}
        /\ \A x \in lost : Made(x) /\ x = userDevice[i].session
        /\ ~staleDevice' => lost = {}
  <2> DEFINE l == {userDevice[i].session} \ {copy.session, NoSession}
  <2>1. \A x \in l : x = userDevice[i].session /\ Made(x)
    BY DEF SessionsInv, RowsSound, RowSound
  <2>2. l \in SUBSET SessionIds /\ (~staleDevice' => l = {})
    BY <1>1, <2>1 DEF Made
  <2> QED
    BY <2>1, <2>2
<1>4. PICK own \in [SessionIds -> Installations \union {<<>>}] : MadeFor(own)
  BY DEF SessionsInv, OneOwner
<1>5. row.session # NoSession => own[row.session] = i
  BY <1>1, <1>2, <1>4 DEF MadeFor
<1>6. PICK s \in CallerStates :
        /\ s = Free /\ CallerSound(s) /\ s.pc = "idle" /\ s.kind = "none" /\ s.copies = <<>>
  BY BlankRows, FreeIsSound DEF SessionsInv
<1>7. RowSound(row)' /\ CallerSound(s)'
  <2>1. sessionsMade' = sessionsMade
    BY <1>1
  <2>2. RowSound(row)'
    BY <1>1, <1>2, <2>1 DEF RowSound, Made
  <2>3. s.kill = {} /\ DOMAIN s.copies = {}
    BY <1>6, BlankRows
  <2>4. CallerSound(s)'
    BY <1>6, <2>3 DEF CallerSound
  <2> QED
    BY <2>2, <2>4
<1>8. ~staleDevice' => /\ ~staleDevice /\ row.session = userDevice[i].session /\ row.session \notin revoked'
                       /\ revoked' = revoked
  <2>1. ~staleDevice' => ~staleDevice /\ copy.session = userDevice[i].session
    BY <1>1
  <2>2. ~staleDevice' => revoked' = revoked
    BY <1>1, <2>1
  <2>3. ~staleDevice => userDevice[i].session \notin revoked
    BY DEF SessionsInv, EndedStays
  <2> QED
    BY <1>2, <2>1, <2>2, <2>3
<1>9. sessionsMade \in Nat /\ sessionsMade >= sessionsMade
  BY DEF SessionsInv, SessionsTyped
<1>e. PICK known \in SUBSET SessionIds : known = {}
  OBVIOUS
<1>10. /\ userDevice' = [userDevice EXCEPT ![i] = row] /\ sessionsMade' = sessionsMade
       /\ revoked' = revoked \union lost \union known /\ overlooked' = overlooked \union (lost \ known)
       /\ caller' = [caller EXCEPT ![r] = s] /\ UNCHANGED <<account, sockets, loginsMet>>
  BY <1>1, <1>2, <1>3, <1>6, <1>e
<1>11. /\ \A x \in lost \union known : Made(x)
       /\ ~staleDevice' => \A j \in Installations \ {i} : userDevice[j].session \notin lost \union known
       /\ caller[r].kind # "delete" /\ caller[r].kill \subseteq s.kill
  BY <1>1, <1>3, <1>e
<1>12. \A x \in known : x \in s.kill
  BY <1>e
<1>15. \/ row.session = userDevice[i].session
       \/ staleDevice'
  BY <1>8
<1>16. sessionsMade' = sessionsMade /\ UNCHANGED <<account, sockets, loginsMet>>
  BY <1>1
<1>17. s.kind = "login" => caller[r].kind = "login" /\ s.i = caller[r].i
  BY <1>6
<1>13. /\ s.kind # "delete" /\ s.kind # "login" /\ s.pc \in {"idle", "kill"} /\ s.copies = <<>>
  BY <1>6
<1>14. (~staleDevice' => ~staleDevice) /\ (~staleDevice' => row.session \notin revoked')
       /\ (~staleDevice' => row.session = userDevice[i].session)
  BY <1>8
<1> QED
  BY <1>4, <1>5, <1>7, <1>9, <1>10, <1>11, <1>12, <1>13, <1>14, <1>15, <1>16, <1>17, RowSaved

LEMMA DeviceDeactivated ==
  ASSUME SessionsInv, NEW i \in Installations, DeactivateDevice(i)
  PROVE  SessionsInv'
<1> DEFINE x == userDevice[i].session
<1>1. /\ x \in SessionIds /\ Made(x) /\ revoked' = revoked \union {x} /\ overlooked' = overlooked \union {x}
      /\ userDevice' = [userDevice EXCEPT ![i] = Cleared]
      /\ UNCHANGED <<account, sessionsMade, staleDevice, socket, connections, activeInboxUsers, late, caller, loginsMet>>
  <2>1. x # NoSession /\ Made(x)
    BY DEF DeactivateDevice, SessionsInv, RowsSound, RowSound
  <2>2. {userDevice[j].session : j \in {i}} \ {NoSession} = {x}
    BY <2>1
  <2> QED
    BY <2>1, <2>2 DEF DeactivateDevice, Loses, sockets, Made
<1>2. /\ userDevice'[i] = Cleared /\ userDevice' \in [Installations -> DeviceStates]
      /\ \A j \in Installations \ {i} : userDevice'[j] = userDevice[j] /\ userDevice'[j].session # x
      /\ userDevice'[i].session = NoSession
  BY <1>1, BlankRows, OwnerIsOne, SessionsAre DEF SessionsInv, SessionsTyped
<1> HIDE DEF x
<1>3. SessionsTyped'
  BY <1>1, <1>2 DEF SessionsInv, SessionsTyped
<1>4. RowsSound'
  BY <1>1, <1>2 DEF SessionsInv, RowsSound, RowSound, CallerSound, Made
<1>5. OneOwner'
  <2>1. PICK own \in [SessionIds -> Installations \union {<<>>}] : MadeFor(own)
    BY DEF SessionsInv, OneOwner
  <2>2. MadeFor(own)'
    BY <1>1, <1>2, <2>1 DEF MadeFor
  <2> QED
    BY <2>2 DEF OneOwner
<1>6. EndedStays'
  <2>1. revoked' \subseteq SessionIds /\ NoSession \notin SessionIds
    BY <1>3, SessionsAre DEF SessionsTyped
  <2> QED
    BY <1>1, <1>2, <2>1 DEF SessionsInv, EndedStays
<1>7. LoginsApart'
  BY <1>1 DEF SessionsInv, LoginsApart
<1>8. LoginsSound'
  BY <1>1, <1>2 DEF SessionsInv, LoginsSound
<1>9. SocketsSound'
  BY <1>1 DEF SessionsInv, SocketsSound
<1> QED
  BY <1>3, <1>4, <1>5, <1>6, <1>7, <1>8, <1>9 DEF SessionsInv

LEMMA SessionsDisconnected ==
  ASSUME SessionsInv, NEW r \in Callers, DisconnectSessions(r)
  PROVE  SessionsInv'
<1> DEFINE deletes == caller[r].kind = "delete"
           gone == deletes /\ ~account[caller[r].i[1]]
           K == IF gone THEN {} ELSE UNION {Registered(x) : x \in caller[r].kill}
<1>1. /\ HandleDisconnect(K) /\ UNCHANGED <<deviceRows, loginsMet>>
      /\ \/ deletes /\ ~gone /\ caller' = [caller EXCEPT ![r].pc = "commit"]
         \/ ~(deletes /\ ~gone) /\ caller' = [caller EXCEPT ![r] = Free]
  BY DEF DisconnectSessions, Resume, Goes, Returns
<1>2. K \in SUBSET Clients /\ \A k \in K : socket[k].pc = "open"
  BY DEF Registered
<1>3. ~gone => \A k \in Clients : socket[k].pc = "open" /\ socket[k].session \in caller[r].kill => k \in K
  BY DEF Registered
<1> HIDE DEF K
<1>4. caller[r] \in CallerStates /\ [caller[r] EXCEPT !.pc = "commit"] \in CallerStates
  BY CallerGoes DEF SessionsInv, SessionsTyped
<1>5. /\ caller' \in [Callers -> CallerStates]
      /\ \A q \in Callers \ {r} : caller'[q] = caller[q]
      /\ \/ deletes /\ ~gone /\ caller'[r] = [caller[r] EXCEPT !.pc = "commit"]
         \/ ~(deletes /\ ~gone) /\ caller'[r] = Free
  BY <1>1, <1>4, BlankRows DEF SessionsInv, SessionsTyped
<1>6. \A q \in Callers : Proceeds(q)
  BY <1>5 DEF Proceeds
<1>7. \A q \in Callers : \/ caller'[q] = caller[q]
                         \/ caller[q].kind = "delete" /\ caller'[q] = Free
                         \/ \A k \in Clients :
                              socket[k].pc = "open" /\ socket[k].session \in caller[q].kill => k \in K
  BY <1>3, <1>5
<1>8. UNCHANGED <<userDevice, account, sessionsMade, revoked, overlooked, staleDevice>>
  BY <1>1 DEF deviceRows
<1>9. /\ socket' \in [Clients -> SocketStates] /\ connections' \in [Holders -> SUBSET Clients]
      /\ activeInboxUsers' \subseteq Holders /\ SocketsSound'
  <2> HIDE DEF gone, deletes
  <2> QED
    BY <1>1, <1>2, <1>5, <1>6, <1>7, <1>8, SocketsClose
<1> QED
  BY <1>1, <1>5, <1>6, <1>8, <1>9, RowsStay


\* The row is checked; the socket is not registered yet.
LEMMA SessionChecked ==
  ASSUME SessionsInv, NEW k \in Clients, NEW i \in Installations, CheckSession(k, i)
  PROVE  SessionsInv'
<1> DEFINE d == [pc |-> "checked", session |-> userDevice[i].session, user |-> i[1]]
<1>1. /\ socket[k].pc = "off" /\ socket' = [socket EXCEPT ![k] = d]
      /\ UNCHANGED <<userDevice, account, sessionsMade, revoked, overlooked, staleDevice>>
      /\ UNCHANGED <<connections, activeInboxUsers, late, caller, loginsMet>>
  BY DEF CheckSession, deviceRows
<1>2. d \in SocketStates /\ d.pc = "checked" /\ d.user \in Holders
  BY SessionsAre DEF SessionsInv, SessionsTyped, DeviceStates, SocketStates
<1> HIDE DEF d
<1>3. socket' \in [Clients -> SocketStates] /\ socket'[k] = d /\ \A c \in Clients \ {k} : socket'[c] = socket[c]
  BY <1>1, <1>2 DEF SessionsInv, SessionsTyped
<1>4. SocketsSound'
  <2>1. \A c \in Clients :
       /\ socket'[c].pc = "open" /\ socket'[c].session \in revoked =>
            \/ socket'[c].session \in overlooked \/ c \in late
            \/ \E r \in Callers : caller[r].kind # "delete" /\ socket'[c].session \in caller[r].kill
       /\ socket'[c].pc # "off" => socket'[c].user \in Holders
       /\ \A r \in Callers : caller[r].pc = "commit" /\ socket'[c].pc = "open"
            /\ socket'[c].session \in caller[r].kill => c \in late
    BY <1>2, <1>3 DEF SessionsInv, SocketsSound
  <2>2. \A u \in Holders :
       connections[u] = {c \in Clients : socket'[c].pc \in {"open", "ghost"} /\ socket'[c].user = u}
    BY <1>1, <1>2, <1>3 DEF SessionsInv, SocketsSound
  <2>3. \A u \in activeInboxUsers : \E c \in connections[u] : socket'[c].pc = "open"
    <3> SUFFICES ASSUME NEW u \in activeInboxUsers PROVE \E c \in connections[u] : socket'[c].pc = "open"
      OBVIOUS
    <3>1. PICK c \in connections[u] : socket[c].pc = "open"
      BY DEF SessionsInv, SocketsSound
    <3>2. c \in Clients /\ c # k
      BY <1>1, <3>1 DEF SessionsInv, SessionsTyped
    <3> QED
      BY <1>3, <3>1, <3>2
  <2> QED
    BY <1>1, <2>1, <2>2, <2>3 DEF SocketsSound
<1> QED
  BY <1>1, <1>3, <1>4, RowsStay DEF SessionsInv, SessionsTyped, Proceeds

LEMMA SocketRegistered ==
  ASSUME SessionsInv, NEW k \in Clients, Register(k)
  PROVE  SessionsInv'
<1> DEFINE u == socket[k].user
           name == IF socket[k].pc = "checked" THEN "open" ELSE "ghost"
           d == IF ~account[u] THEN Closed ELSE [socket[k] EXCEPT !.pc = name]
<1>1. /\ socket[k].pc \in {"checked", "gone"} /\ socket' = [socket EXCEPT ![k] = d]
      /\ connections' = IF account[u] THEN [connections EXCEPT ![u] = @ \union {k}] ELSE connections
      /\ late' = IF TooLate(k) THEN late \union {k} ELSE late
      /\ UNCHANGED <<userDevice, account, sessionsMade, revoked, overlooked, staleDevice>>
      /\ UNCHANGED <<activeInboxUsers, caller, loginsMet>>
  BY DEF Register, deviceRows
<1>2. u \in Holders /\ socket[k] \in SocketStates
  BY <1>1 DEF SessionsInv, SocketsSound, SessionsTyped
<1>3. /\ d \in SocketStates
      /\ account[u] => d.pc \in {"open", "ghost"} /\ d.user = u /\ d.session = socket[k].session
      /\ ~account[u] => d.pc = "off"
  BY <1>2, BlankRows DEF SocketStates
<1> HIDE DEF d
<1>4. socket' \in [Clients -> SocketStates] /\ socket'[k] = d /\ \A c \in Clients \ {k} : socket'[c] = socket[c]
  BY <1>1, <1>3 DEF SessionsInv, SessionsTyped
<1>5. connections' \in [Holders -> SUBSET Clients] /\ late \subseteq late'
  BY <1>1 DEF SessionsInv, SessionsTyped
<1>6. SocketsSound'
  <2>1. ASSUME NEW c \in Clients
        PROVE  /\ socket'[c].pc = "open" /\ socket'[c].session \in revoked =>
                    \/ socket'[c].session \in overlooked \/ c \in late'
                    \/ \E r \in Callers : caller[r].kind # "delete" /\ socket'[c].session \in caller[r].kill
               /\ socket'[c].pc # "off" => socket'[c].user \in Holders
               /\ \A r \in Callers : caller[r].pc = "commit" /\ socket'[c].pc = "open"
                    /\ socket'[c].session \in caller[r].kill => c \in late'
    <3>1. CASE c = k
      BY <1>1, <1>2, <1>3, <1>4, <3>1 DEF TooLate
    <3>2. CASE c # k
      BY <1>4, <1>5, <3>2 DEF SessionsInv, SocketsSound
    <3> QED
      BY <3>1, <3>2
  <2>2. ASSUME NEW v \in Holders
        PROVE  connections'[v] = {c \in Clients : socket'[c].pc \in {"open", "ghost"} /\ socket'[c].user = v}
    <3>1. connections[v] = {c \in Clients : socket[c].pc \in {"open", "ghost"} /\ socket[c].user = v}
      BY DEF SessionsInv, SocketsSound
    <3>2. connections'[v] = IF account[u] /\ v = u THEN connections[v] \union {k} ELSE connections[v]
      BY <1>1, <1>2 DEF SessionsInv, SessionsTyped
    <3> QED
      BY <1>1, <1>3, <1>4, <3>1, <3>2
  <2>3. ASSUME NEW v \in activeInboxUsers PROVE \E c \in connections'[v] : socket'[c].pc = "open"
    <3>1. PICK c \in connections[v] : socket[c].pc = "open"
      BY DEF SessionsInv, SocketsSound
    <3>2. v \in Holders /\ c \in Clients /\ c # k
      BY <1>1, <3>1 DEF SessionsInv, SessionsTyped
    <3>3. c \in connections'[v]
      BY <1>1, <1>2, <3>1, <3>2 DEF SessionsInv, SessionsTyped
    <3> QED
      BY <1>4, <3>1, <3>2, <3>3
  <2> QED
    BY <1>1, <2>1, <2>2, <2>3 DEF SocketsSound
<1> QED
  BY <1>1, <1>4, <1>5, <1>6, RowsStay DEF SessionsInv, SessionsTyped, Proceeds

LEMMA ClientGone ==
  ASSUME SessionsInv, NEW k \in Clients, ClientLeaves(k)
  PROVE  SessionsInv'
<1>1. UNCHANGED <<userDevice, account, sessionsMade, revoked, overlooked, staleDevice, caller, loginsMet>>
  BY DEF ClientLeaves, deviceRows
<1>2. caller' \in [Callers -> CallerStates] /\ \A q \in Callers : Proceeds(q)
  BY <1>1 DEF SessionsInv, SessionsTyped, Proceeds
<1>3. CASE socket[k].pc = "open" /\ HandleDisconnect({k})
  <2>1. {k} \in SUBSET Clients /\ \A c \in {k} : socket[c].pc = "open"
    BY <1>3
  <2>2. /\ socket' \in [Clients -> SocketStates] /\ connections' \in [Holders -> SUBSET Clients]
        /\ activeInboxUsers' \subseteq Holders /\ SocketsSound'
    BY <1>1, <1>2, <1>3, <2>1, SocketsClose
  <2> QED
    BY <1>1, <1>2, <2>2, RowsStay
<1>4. CASE /\ socket[k].pc = "checked" /\ socket' = [socket EXCEPT ![k].pc = "gone"]
           /\ UNCHANGED <<connections, activeInboxUsers, late>>
  <2>1. PICK d \in SocketStates : /\ d.pc = "gone" /\ d.session = socket[k].session /\ d.user = socket[k].user
                                  /\ socket' = [socket EXCEPT ![k] = d]
    <3>1. socket[k] \in SocketStates
      BY DEF SessionsInv, SessionsTyped
    <3>2. [socket[k] EXCEPT !.pc = "gone"] \in SocketStates
      BY <3>1 DEF SocketStates
    <3> QED
      BY <1>4, <3>1, <3>2 DEF SocketStates
  <2>2. socket' \in [Clients -> SocketStates] /\ socket'[k] = d /\ \A c \in Clients \ {k} : socket'[c] = socket[c]
    BY <2>1 DEF SessionsInv, SessionsTyped
  <2>3. d.user \in Holders
    BY <1>4, <2>1 DEF SessionsInv, SocketsSound
  <2>4. SocketsSound'
    <3>1. \A c \in Clients :
         /\ socket'[c].pc = "open" /\ socket'[c].session \in revoked =>
              \/ socket'[c].session \in overlooked \/ c \in late
              \/ \E r \in Callers : caller[r].kind # "delete" /\ socket'[c].session \in caller[r].kill
         /\ socket'[c].pc # "off" => socket'[c].user \in Holders
         /\ \A r \in Callers : caller[r].pc = "commit" /\ socket'[c].pc = "open"
              /\ socket'[c].session \in caller[r].kill => c \in late
      BY <2>1, <2>2, <2>3 DEF SessionsInv, SocketsSound
    <3>2. \A u \in Holders :
         connections[u] = {c \in Clients : socket'[c].pc \in {"open", "ghost"} /\ socket'[c].user = u}
      BY <1>4, <2>1, <2>2 DEF SessionsInv, SocketsSound
    <3>3. ASSUME NEW u \in activeInboxUsers PROVE \E c \in connections[u] : socket'[c].pc = "open"
      <4>1. PICK c \in connections[u] : socket[c].pc = "open"
        BY DEF SessionsInv, SocketsSound
      <4>2. c \in Clients /\ c # k
        BY <1>4, <4>1 DEF SessionsInv, SessionsTyped
      <4> QED
        BY <2>2, <4>1, <4>2
    <3> QED
      BY <1>1, <1>4, <3>1, <3>2, <3>3 DEF SocketsSound
  <2> QED
    BY <1>1, <1>2, <1>4, <2>2, <2>4, RowsStay DEF SessionsInv, SessionsTyped
<1> QED
  BY <1>3, <1>4 DEF ClientLeaves

LEMMA InboxUsed ==
  ASSUME SessionsInv, NEW k \in Clients, EnterInbox(k) \/ LeaveInbox(k)
  PROVE  SessionsInv'
<1>1. /\ socket[k].pc = "open" /\ activeInboxUsers' \subseteq activeInboxUsers \union {socket[k].user}
      /\ UNCHANGED <<userDevice, account, sessionsMade, revoked, overlooked, staleDevice, caller, loginsMet>>
      /\ UNCHANGED <<socket, connections, late>>
  BY DEF EnterInbox, LeaveInbox, deviceRows
<1>2. socket[k].user \in Holders /\ k \in connections[socket[k].user]
  BY <1>1 DEF SessionsInv, SocketsSound
<1>3. SocketsSound' /\ activeInboxUsers' \subseteq Holders
  BY <1>1, <1>2 DEF SessionsInv, SessionsTyped, SocketsSound
<1> QED
  BY <1>1, <1>3, RowsStay DEF SessionsInv, SessionsTyped, Proceeds

LEMMA GatewayRestarted ==
  ASSUME SessionsInv, RestartGateway
  PROVE  SessionsInv'
<1>1. /\ UNCHANGED <<userDevice, account, sessionsMade, revoked, overlooked, staleDevice, loginsMet>>
      /\ caller' = [r \in Callers |-> Free] /\ socket' = [k \in Clients |-> Closed]
      /\ connections' = [u \in Holders |-> {}] /\ activeInboxUsers' = {} /\ late' = {}
  BY DEF RestartGateway, deviceRows
<1>2. caller' \in [Callers -> CallerStates] /\ \A q \in Callers : Proceeds(q)
  BY <1>1, BlankRows DEF Proceeds
<1>3. socket' \in [Clients -> SocketStates] /\ SocketsSound'
  BY <1>1, BlankRows DEF SocketsSound
<1> QED
  BY <1>1, <1>2, <1>3, RowsStay

LEMMA SessionsNextInv == SessionsInv /\ [SessionsNext]_loginVars => SessionsInv'
<1> SUFFICES ASSUME SessionsInv, [SessionsNext]_loginVars PROVE SessionsInv'
  OBVIOUS
<1>1. ASSUME NEW i \in Installations, DeactivateDevice(i) PROVE SessionsInv'
  BY <1>1, DeviceDeactivated
<1>2. ASSUME NEW r \in Callers,
             \/ \E i \in Installations :
                  Login(r, i) \/ RegisterDevice(r, i) \/ DeactivateByFcmToken(r, i) \/ Logout(r, i)
             \/ \E u \in Holders : LogoutEverywhere(r, u) \/ DeleteAccount(r, u)
             \/ LoadDevice(r)
      PROVE  SessionsInv'
  BY <1>2, RequestsBegin
<1>3. ASSUME NEW r \in Callers,
             \/ DeactivateOtherUsers(r) \/ StartAuthSession(r) \/ SaveDevice(r)
             \/ EndSessions(r) \/ CommitDeletion(r) \/ DisconnectSessions(r)
      PROVE  SessionsInv'
  BY <1>3, OtherUsersDeactivated, SessionStarted, DeviceSaved, SessionsEnded, DeletionCommitted,
     SessionsDisconnected
<1>4. ASSUME NEW k \in Clients,
             \/ \E i \in Installations : CheckSession(k, i)
             \/ Register(k) \/ ClientLeaves(k) \/ EnterInbox(k) \/ LeaveInbox(k)
      PROVE  SessionsInv'
  BY <1>4, SessionChecked, SocketRegistered, ClientGone, InboxUsed
<1>5. CASE RestartGateway
  BY <1>5, GatewayRestarted
<1>6. CASE UNCHANGED loginVars
  <2>1. /\ UNCHANGED <<userDevice, account, sessionsMade, revoked, overlooked, staleDevice, loginsMet, caller>>
        /\ UNCHANGED <<socket, connections, activeInboxUsers, late>>
    BY <1>6 DEF loginVars, deviceRows, sockets
  <2>2. SocketsSound'
    BY <2>1 DEF SessionsInv, SocketsSound
  <2> QED
    BY <2>1, <2>2, RowsStay DEF SessionsInv, SessionsTyped, Proceeds
<1> QED
  BY <1>1, <1>2, <1>3, <1>4, <1>5, <1>6 DEF SessionsNext

\* A session that was ended stays ended, a device has one user logged in and a
\* deleted account none, unless a copy of a row was saved over a newer one or logins
\* overlapped; an open socket is of a session that lasts, that is being ended or
\* whose end looked at no sockets or came while it connected; and the gateway's
\* maps hold the sockets there are (startAuthSession, deactivateOtherUsersForDevice,
\* disconnectSession, handleConnection, handleDisconnect).
THEOREM SessionsStayConsistent == SessionsSpec => []SessionsConsistent
<1>1. SessionsInit => SessionsInv
  BY SessionsInitInv
<1>2. SessionsInv /\ [SessionsNext]_loginVars => SessionsInv'
  BY SessionsNextInv
<1>3. SessionsInv => SessionsConsistent
  BY SessionsAreConsistent
<1> QED
  BY <1>1, <1>2, <1>3, PTL DEF SessionsSpec

-----------------------------------------------------------------------------
(* The rewards.                                                               *)

TaskStatuses == {"IN_PROGRESS", "COMPLETED", "CLAIMED"}
\* Where a request fixed what it pays, and where it is about to.
Paid == {"profile", "identity", "award", "credit", "boost", "finish"}
Paying == {"record", "insert"} \union Paid
Unpaid == {"idle", "START_OVER", "today", "reconcile"}
LearnerWork ==
  [pc : Unpaid \union Paying \union {"CONTINUE", "lesson", "chest", "activity"},
   award : Awards \union {NoAward}, amount : Nat, seen : Nat, item : TaskStatuses,
   picked : SUBSET QuizSessions]

QuizTyped ==
  /\ quizStatus \in [QuizSessions -> {"NONE", "IN_PROGRESS", "CANCELLED", "SUBMITTED"}]
  /\ answered \in [QuizSessions -> SUBSET Questions]
DayTyped ==
  /\ lessonDone \in BOOLEAN /\ chestOpened \in BOOLEAN
  /\ taskStatus \in [Tasks -> TaskStatuses]
  /\ taskProgress \in [Tasks -> 0..Target]
  /\ logged \subseteq QuizSessions
XpTyped ==
  /\ transaction \in [Awards -> Nat] /\ event \in [Awards -> Nat]
  /\ profileXp \in Nat /\ promotions \in Nat /\ boost \in BOOLEAN
RestTyped ==
  /\ requested \in 0..MaxRequests /\ learningFaults \in 0..MaxLearningFaults
  /\ interrupted \subseteq Awards /\ profileStale \in BOOLEAN
RewardsTyped ==
  QuizTyped /\ DayTyped /\ XpTyped /\ RestTyped /\ learner \in [Learners -> LearnerWork]

\* What a request holds fits what is stored: the amount it pays is that of the
\* award's transaction, and a task that is claimed is completed.
Fits(v, amounts, mirrored, status) ==
  /\ v.pc \in Unpaid => v.award = NoAward
  /\ v.pc \in Paying => v.award \in Awards
  /\ v.pc = "activity" => v.award \in QuizSessions
  /\ v.pc = "lesson" => v.award = "lesson"
  /\ v.pc = "chest" => v.award = "chest"
  /\ v.pc = "insert" => v.amount # 0
  /\ v.pc \in Paid => v.amount = amounts[v.award] /\ v.amount # 0
  /\ v.pc \in {"boost", "finish"} => mirrored[v.award] # 0
  /\ v.award \in Tasks => status[v.award] # "IN_PROGRESS"

\* The request will settle the award if it lives.
Carries(v, a, amount, mirror) ==
  /\ v.award = a
  /\ \/ v.pc \in {"record", "profile", "identity", "award", "boost", "finish"}
     \/ v.pc = "insert" /\ amount = 0
     \/ v.pc = "credit" /\ mirror = 0

\* What is marked and not yet paid, or paid and not yet marked.
Owed(a) ==
  \/ a = "lesson" /\ lessonDone = TRUE /\ event[a] = 0
  \/ a = "chest" /\ chestOpened = TRUE /\ event[a] = 0
  \/ a \in QuizSessions /\ transaction[a] # 0 /\ quizStatus[a] # "SUBMITTED"
  \/ a = "answers" /\ transaction[a] # 0 /\ taskStatus[a] # "CLAIMED"

Settled(a) ==
  \/ a \in interrupted
  \/ ~Owed(a)
  \/ \E q \in Learners : Carries(learner[q], a, transaction[a], event[a])

\* Submitted and claimed are paid, and the leaderboard mirrors transactions.
Marks ==
  /\ \A s \in QuizSessions : quizStatus[s] = "SUBMITTED" => event[s] # 0
  /\ \A t \in Tasks : taskStatus[t] = "CLAIMED" => event[t] # 0
  /\ \A a \in Awards : event[a] = 0 \/ event[a] = transaction[a]
  /\ \A t \in Tasks : taskStatus[t] = "IN_PROGRESS" <=> taskProgress[t] < Target
  /\ transaction["answers"] # 0 => taskStatus["answers"] # "IN_PROGRESS"

\* The profile is the sum of the events unless a stale copy was saved over it.
Adding(lost, xp, mirrored, rows) ==
  lost = FALSE  => /\ xp = Total(mirrored, Awards)
                   /\ rows = IF xp >= PromotionAt THEN 1 ELSE 0

RewardsInv ==
  /\ RewardsTyped
  /\ \A r \in Learners : Fits(learner[r], transaction, event, taskStatus)
  /\ \A a \in Awards : Settled(a)
  /\ Adding(profileStale, profileXp, event, promotions)
  /\ Marks

\* The awards are finitely many, and distinct from each other.
LEMMA AwardsAre ==
  /\ IsFiniteSet(Awards) /\ NoAward \notin Awards /\ Tasks \subseteq Awards /\ QuizSessions \subseteq Awards
  /\ "lesson" \in Awards /\ "chest" \in Awards /\ "answers" \in Tasks /\ "xp" \in Tasks
  /\ "lesson" \notin Tasks /\ "chest" \notin Tasks
  /\ \A s \in QuizSessions : s \notin Tasks /\ s # "lesson" /\ s # "chest" /\ s # "answers" /\ s # "xp"
<1>1. IsFiniteSet({"xp"} \union {"answers"})
  BY FS_Singleton, FS_Union
<1>2. IsFiniteSet({"lesson"} \union {"chest"})
  BY FS_Singleton, FS_Union
<1>3. Tasks = {"xp"} \union {"answers"} /\ {"lesson", "chest"} = {"lesson"} \union {"chest"}
  BY DEF Tasks
<1>4. IsFiniteSet(QuizSessions \union Tasks)
  BY <1>1, <1>3, FS_Union, LearningAssumption
<1>5. IsFiniteSet(Awards)
  BY <1>2, <1>3, <1>4, FS_Union DEF Awards
<1> QED
  BY <1>5, LearningAssumption DEF Awards, Tasks, NoAward

\* What rests is nothing.
LEMMA RestingIs ==
  /\ Resting \in LearnerWork /\ Resting.pc = "idle" /\ Resting.award = NoAward
  /\ \A amounts, mirrored, status : Fits(Resting, amounts, mirrored, status)
  /\ \A a \in Awards : \A amount, mirror : ~Carries(Resting, a, amount, mirror)
<1>1. Resting \in LearnerWork /\ Resting.pc = "idle" /\ Resting.award = NoAward
  BY DEF Resting, LearnerWork, TaskStatuses, Unpaid
<1>2. NoAward \notin Tasks /\ NoAward \notin Awards
  BY AwardsAre
<1>3. /\ "idle" \notin Paying /\ "idle" \notin Paid
  BY DEF Paying, Paid
<1>4. \A amounts, mirrored, status : Fits(Resting, amounts, mirrored, status)
  BY <1>1, <1>2, <1>3 DEF Fits
<1>5. \A a \in Awards : \A amount, mirror : ~Carries(Resting, a, amount, mirror)
  BY <1>1, <1>2 DEF Carries
<1> QED
  BY <1>1, <1>4, <1>5

\* A request that goes on to another step.
LEMMA WorkGoesTo ==
  ASSUME NEW w \in LearnerWork, NEW pc \in Unpaid \union Paying \union {"CONTINUE", "lesson", "chest", "activity"},
         NEW n \in Nat, NEW m \in Nat
  PROVE  \E v \in LearnerWork :
           /\ v = [pc |-> pc, award |-> w.award, amount |-> n, seen |-> m, item |-> w.item, picked |-> w.picked]
           /\ v.pc = pc /\ v.award = w.award /\ v.amount = n /\ v.seen = m
<1> DEFINE v == [pc |-> pc, award |-> w.award, amount |-> n, seen |-> m, item |-> w.item, picked |-> w.picked]
<1>1. v \in LearnerWork /\ v.pc = pc /\ v.award = w.award /\ v.amount = n /\ v.seen = m
  BY DEF LearnerWork
<1> QED
  BY <1>1

\* An award stays settled when a request goes on: it is marked as interrupted,
\* it is owed no more than before, and who carries it goes on carrying it.
LEMMA SettledStays ==
  ASSUME RewardsInv, NEW r \in Learners, NEW v \in LearnerWork, learner' = [learner EXCEPT ![r] = v],
         UNCHANGED <<transaction, event>>, NEW a \in Awards,
         a \in interrupted => a \in interrupted' \/ Carries(v, a, transaction[a], event[a]),
         Owed(a)' => Owed(a) \/ a \in interrupted',
         Carries(learner[r], a, transaction[a], event[a]) =>
           Carries(v, a, transaction[a], event[a]) \/ a \in interrupted' \/ ~Owed(a)'
  PROVE  Settled(a)'
<1>1. Settled(a) /\ learner \in [Learners -> LearnerWork]
  BY DEF RewardsInv, RewardsTyped
<1>2. learner'[r] = v /\ \A q \in Learners \ {r} : learner'[q] = learner[q]
  BY <1>1
<1>3. transaction' = transaction /\ event' = event
  OBVIOUS
<1>4. CASE a \in interrupted' \/ ~Owed(a)'
  BY <1>4 DEF Settled
<1>5. CASE Carries(v, a, transaction[a], event[a])
  BY <1>2, <1>3, <1>5 DEF Settled
<1>6. CASE ~(a \in interrupted' \/ ~Owed(a)' \/ Carries(v, a, transaction[a], event[a]))
  <2>1. PICK q \in Learners : Carries(learner[q], a, transaction[a], event[a])
    BY <1>1, <1>6 DEF Settled
  <2>2. q # r
    BY <1>6, <2>1
  <2>3. Carries(learner'[q], a, transaction'[a], event'[a])
    BY <1>2, <1>3, <2>1, <2>2
  <2> QED
    BY <2>3 DEF Settled
<1> QED
  BY <1>4, <1>5, <1>6

\* A step of a request that pays nothing.
LEMMA NothingPaid ==
  ASSUME RewardsInv, NEW r \in Learners, NEW v \in LearnerWork, learner' = [learner EXCEPT ![r] = v],
         UNCHANGED <<transaction, event, profileXp, promotions, profileStale>>,
         boost' \in BOOLEAN, QuizTyped', DayTyped', RestTyped',
         Fits(v, transaction, event, taskStatus'),
         \A t \in Tasks : /\ taskStatus'[t] = "IN_PROGRESS" <=> taskProgress'[t] < Target
                          /\ taskStatus'[t] = "CLAIMED" => event[t] # 0,
         \A t \in Tasks : taskStatus[t] # "IN_PROGRESS" /\ taskStatus'[t] = "IN_PROGRESS" =>
                            t # "answers" /\ \A q \in Learners \ {r} : learner[q].award # t,
         \A s \in QuizSessions : quizStatus'[s] = "SUBMITTED" => event[s] # 0,
         \A a \in Awards : Settled(a)'
  PROVE  RewardsInv'
<1>1. learner \in [Learners -> LearnerWork] /\ XpTyped
  BY DEF RewardsInv, RewardsTyped
<1>2. transaction' = transaction /\ event' = event /\ profileXp' = profileXp /\ promotions' = promotions
      /\ profileStale' = profileStale
  OBVIOUS
<1>3. learner' \in [Learners -> LearnerWork] /\ learner'[r] = v
      /\ \A q \in Learners \ {r} : learner'[q] = learner[q]
  BY <1>1
<1>4. RewardsTyped'
  BY <1>1, <1>2, <1>3 DEF RewardsTyped, XpTyped
<1>5. ASSUME NEW q \in Learners PROVE Fits(learner'[q], transaction', event', taskStatus')
  <2>1. CASE q = r
    BY <1>2, <1>3, <2>1
  <2>2. CASE q # r
    <3>1. Fits(learner[q], transaction, event, taskStatus) /\ learner'[q] = learner[q]
      BY <1>3, <2>2 DEF RewardsInv
    <3>2. learner[q].award \in Tasks => taskStatus'[learner[q].award] # "IN_PROGRESS"
      BY <2>2, <3>1 DEF Fits
    <3> QED
      BY <1>2, <3>1, <3>2 DEF Fits
  <2> QED
    BY <2>1, <2>2
<1>6. Adding(profileStale, profileXp, event, promotions)'
  BY <1>2 DEF RewardsInv
<1>7. Marks'
  <2>1. Marks
    BY DEF RewardsInv
  <2>2. "answers" \in Tasks
    BY AwardsAre
  <2>3. transaction'["answers"] # 0 => taskStatus'["answers"] # "IN_PROGRESS"
    BY <1>2, <2>1, <2>2 DEF Marks
  <2>4. \A a \in Awards : event'[a] = 0 \/ event'[a] = transaction'[a]
    BY <1>2, <2>1 DEF Marks
  <2> QED
    BY <1>2, <2>3, <2>4 DEF Marks
<1> QED
  BY <1>4, <1>5, <1>6, <1>7 DEF RewardsInv

\* A step that changes nothing but the request.
LEMMA OnlyTheRequest ==
  ASSUME RewardsInv, NEW r \in Learners, NEW v \in LearnerWork, learner' = [learner EXCEPT ![r] = v],
         UNCHANGED <<quizVars, dayVars, xpVars, profileStale>>, RestTyped',
         Fits(v, transaction, event, taskStatus),
         \A a \in Awards :
           /\ a \in interrupted => a \in interrupted' \/ Carries(v, a, transaction[a], event[a])
           /\ Carries(learner[r], a, transaction[a], event[a]) =>
                Carries(v, a, transaction[a], event[a]) \/ a \in interrupted'
  PROVE  RewardsInv'
<1>1. UNCHANGED <<quizStatus, answered, lessonDone, chestOpened, taskStatus, taskProgress, logged,
                  transaction, event, profileXp, promotions, boost, profileStale>>
  BY DEF quizVars, dayVars, xpVars
<1>2. QuizTyped' /\ DayTyped' /\ boost' \in BOOLEAN
  BY <1>1 DEF RewardsInv, RewardsTyped, QuizTyped, DayTyped, XpTyped
<1>3. Marks
  BY DEF RewardsInv
<1>4. \A t \in Tasks : /\ taskStatus'[t] = "IN_PROGRESS" <=> taskProgress'[t] < Target
                       /\ taskStatus'[t] = "CLAIMED" => event[t] # 0
  BY <1>1, <1>3 DEF Marks
<1>5. \A s \in QuizSessions : quizStatus'[s] = "SUBMITTED" => event[s] # 0
  BY <1>1, <1>3 DEF Marks
<1>6. \A a \in Awards : Owed(a)' => Owed(a)
  BY <1>1 DEF Owed
<1>7. \A a \in Awards : Settled(a)'
  BY <1>1, <1>6, SettledStays
<1>8. Fits(v, transaction, event, taskStatus')
  BY <1>1
<1>9. \A t \in Tasks : taskStatus[t] # "IN_PROGRESS" /\ taskStatus'[t] = "IN_PROGRESS" =>
                         t # "answers" /\ \A q \in Learners \ {r} : learner[q].award # t
  BY <1>1
<1> QED
  BY <1>1, <1>2, <1>4, <1>5, <1>7, <1>8, <1>9, NothingPaid

\* What a day has earned is a number.
LEMMA EarnedIsNat == ASSUME RewardsTyped PROVE EarnedToday \in Nat
<1> DEFINE T == QuizSessions \union {"lesson"}
<1>1. T \in SUBSET Awards /\ IsFiniteSet(T)
  BY AwardsAre, FS_Singleton, FS_Union, LearningAssumption
<1>2. transaction \in [Awards -> Nat]
  BY DEF RewardsTyped, XpTyped
<1>3. Total(transaction, T) \in Nat
  BY <1>1, <1>2, TotalIsNat
<1>4. EarnedToday = Total(transaction, T)
  BY DEF EarnedToday, Total
<1> QED
  BY <1>3, <1>4

\* A request that has nothing in hand carries nothing.
LEMMA NothingInHand ==
  ASSUME RewardsInv, NEW r \in Learners, learner[r].pc \notin Paying
  PROVE  \A a \in Awards : ~Carries(learner[r], a, transaction[a], event[a])
<1>1. /\ "record" \in Paying /\ "profile" \in Paying /\ "identity" \in Paying /\ "award" \in Paying
      /\ "boost" \in Paying /\ "finish" \in Paying /\ "insert" \in Paying /\ "credit" \in Paying
  BY DEF Paying, Paid
<1> QED
  BY <1>1 DEF Carries

\* A request that arrives takes up an award, or nothing.
LEMMA Arriving ==
  ASSUME RewardsInv, NEW r \in Learners, NEW v \in LearnerWork, Arrives(r, v),
         UNCHANGED <<quizVars, dayVars, xpVars, learningFaults, profileStale>>,
         interrupted' \subseteq Awards,
         \A a \in interrupted \ interrupted' : Carries(v, a, transaction[a], event[a]),
         Fits(v, transaction, event, taskStatus)
  PROVE  RewardsInv'
<1>1. learner[r].pc = "idle" /\ requested' = requested + 1 /\ requested < MaxRequests
      /\ learner' = [learner EXCEPT ![r] = v]
  BY DEF Arrives, Becomes
<1>2. requested \in 0..MaxRequests /\ learningFaults \in 0..MaxLearningFaults /\ profileStale \in BOOLEAN
  BY DEF RewardsInv, RewardsTyped, RestTyped
<1>3. requested' \in 0..MaxRequests
  BY <1>1, <1>2, LearningAssumption
<1>4. RestTyped'
  BY <1>2, <1>3 DEF RestTyped
<1>5. "idle" \notin Paying
  BY DEF Paying, Paid
<1>6. \A a \in Awards : ~Carries(learner[r], a, transaction[a], event[a])
  BY <1>1, <1>5, NothingInHand
<1> QED
  BY <1>1, <1>4, <1>6, OnlyTheRequest

\* A quiz session is started or taken up again...
LEMMA StartQuizInv == ASSUME RewardsInv, NEW r \in Learners, NEW mode \in {"START_OVER", "CONTINUE"}, StartQuiz(r, mode) PROVE RewardsInv'
<1>1. UNCHANGED <<quizVars, dayVars, xpVars, learningFaults, interrupted, profileStale>>
  BY DEF StartQuiz, learningHistory
<1>2. mode \in Unpaid \union Paying \union {"CONTINUE", "lesson", "chest", "activity"} /\ mode \notin Paying
      /\ mode \notin {"activity", "lesson", "chest"} /\ mode \notin {"insert", "boost", "finish"} /\ mode \notin Paid
  BY DEF Unpaid, Paying, Paid
<1>3. InProgress \in SUBSET QuizSessions
  BY DEF InProgress
<1>4. 0 \in Nat /\ "IN_PROGRESS" \in TaskStatuses
  BY DEF TaskStatuses
<1>5. interrupted' \subseteq Awards /\ interrupted' = interrupted
  BY <1>1 DEF RewardsInv, RewardsTyped, RestTyped
<1>6. CASE mode = "CONTINUE" /\ InProgress # {}
  <2>1. PICK canonical \in InProgress :
          Arrives(r, [Resting EXCEPT !.pc = mode, !.picked = InProgress, !.award = canonical])
    BY <1>6 DEF StartQuiz
  <2>2. canonical \in QuizSessions /\ canonical \in Awards /\ canonical \notin Tasks
    BY <1>3, AwardsAre
  <2> DEFINE v == [Resting EXCEPT !.pc = mode, !.picked = InProgress, !.award = canonical]
  <2>3. v \in LearnerWork /\ v.pc = mode /\ v.award = canonical
    BY <1>2, <1>3, <1>4, <2>2 DEF LearnerWork, Resting
  <2>4. Arrives(r, v)
    BY <2>1
  <2> HIDE DEF v
  <2>5. mode \notin Unpaid
    BY <1>6 DEF Unpaid
  <2>6. Fits(v, transaction, event, taskStatus)
    BY <1>2, <2>2, <2>3, <2>5 DEF Fits
  <2> QED
    BY <1>1, <1>5, <2>3, <2>4, <2>6, Arriving
<1>7. CASE ~(mode = "CONTINUE" /\ InProgress # {})
  <2>1. Arrives(r, [Resting EXCEPT !.pc = mode, !.picked = InProgress])
    BY <1>7 DEF StartQuiz
  <2>2. NoAward \in Awards \union {NoAward} /\ NoAward \notin Tasks
    BY AwardsAre
  <2> DEFINE v == [Resting EXCEPT !.pc = mode, !.picked = InProgress]
  <2>3. v \in LearnerWork /\ v.pc = mode /\ v.award = NoAward
    BY <1>2, <1>3, <1>4, <2>2 DEF LearnerWork, Resting
  <2>4. Arrives(r, v)
    BY <2>1
  <2> HIDE DEF v
  <2>5. Fits(v, transaction, event, taskStatus)
    BY <1>2, <2>2, <2>3 DEF Fits
  <2> QED
    BY <1>1, <1>5, <2>3, <2>4, <2>5, Arriving
<1> QED
  BY <1>6, <1>7

\* ... an award is taken up: the request will carry it, unless it is only read...
LEMMA TakesUp ==
  ASSUME RewardsInv, NEW r \in Learners, NEW a \in Awards, NEW pc \in {"record", "lesson", "chest"},
         Arrives(r, [Resting EXCEPT !.pc = pc, !.award = a]),
         UNCHANGED <<quizVars, dayVars, xpVars, learningFaults, profileStale>>,
         interrupted' = interrupted \/ (pc = "record" /\ interrupted' = interrupted \ {a}),
         pc \in {"lesson", "chest"} => a = pc, a \in Tasks => taskStatus[a] # "IN_PROGRESS"
  PROVE  RewardsInv'
<1>1. pc \in Unpaid \union Paying \union {"CONTINUE", "lesson", "chest", "activity"}
      /\ pc \notin Unpaid /\ pc \notin Paid /\ pc \notin {"activity", "insert", "boost", "finish"}
  BY DEF Unpaid, Paying, Paid
<1>2. 0 \in Nat /\ "IN_PROGRESS" \in TaskStatuses /\ {} \in SUBSET QuizSessions
  BY DEF TaskStatuses
<1> DEFINE v == [Resting EXCEPT !.pc = pc, !.award = a]
<1>3. v \in LearnerWork /\ v.pc = pc /\ v.award = a
  BY <1>1, <1>2 DEF LearnerWork, Resting
<1>4. Arrives(r, v)
  OBVIOUS
<1> HIDE DEF v
<1>5. Fits(v, transaction, event, taskStatus)
  BY <1>1, <1>3 DEF Fits
<1>6. interrupted' \subseteq Awards
  BY DEF RewardsInv, RewardsTyped, RestTyped
<1>7. \A b \in interrupted \ interrupted' : Carries(v, b, transaction[b], event[b])
  BY <1>3 DEF Carries
<1> QED
  BY <1>3, <1>4, <1>5, <1>6, <1>7, Arriving

LEMMA ArrivalInv ==
  ASSUME RewardsInv, NEW r \in Learners,
         \/ \E s \in QuizSessions : CompleteSession(r, s)
         \/ ReadLesson(r) \/ ReadChest(r) \/ \E t \in Tasks : ClaimTask(r, t)
  PROVE  RewardsInv'
<1>0. "lesson" \in Awards /\ "chest" \in Awards /\ "lesson" \notin Tasks /\ "chest" \notin Tasks /\ Tasks \subseteq Awards
      /\ QuizSessions \subseteq Awards /\ \A s \in QuizSessions : s \notin Tasks
  BY AwardsAre
<1>1. ASSUME NEW s \in QuizSessions, CompleteSession(r, s) PROVE RewardsInv'
  <2>1. Arrives(r, [Resting EXCEPT !.pc = "record", !.award = s]) /\ interrupted' = interrupted \ {s}
        /\ UNCHANGED <<quizVars, dayVars, xpVars, learningFaults, profileStale>>
    BY <1>1 DEF CompleteSession
  <2> QED
    BY <1>0, <2>1, TakesUp
<1>2. CASE ReadLesson(r)
  <2>1. Arrives(r, [Resting EXCEPT !.pc = "lesson", !.award = "lesson"]) /\ interrupted' = interrupted
        /\ UNCHANGED <<quizVars, dayVars, xpVars, learningFaults, profileStale>>
    BY <1>2 DEF ReadLesson, learningHistory
  <2> QED
    BY <1>0, <2>1, TakesUp
<1>3. CASE ReadChest(r)
  <2>1. Arrives(r, [Resting EXCEPT !.pc = "chest", !.award = "chest"]) /\ interrupted' = interrupted
        /\ UNCHANGED <<quizVars, dayVars, xpVars, learningFaults, profileStale>>
    BY <1>3 DEF ReadChest, learningHistory
  <2> QED
    BY <1>0, <2>1, TakesUp
<1>4. ASSUME NEW t \in Tasks, ClaimTask(r, t) PROVE RewardsInv'
  <2>1. Arrives(r, [Resting EXCEPT !.pc = "record", !.award = t]) /\ interrupted' = interrupted \ {t}
        /\ UNCHANGED <<quizVars, dayVars, xpVars, learningFaults, profileStale>> /\ taskStatus[t] = "COMPLETED"
    BY <1>4 DEF ClaimTask
  <2> QED
    BY <1>0, <2>1, TakesUp
<1> QED
  BY <1>1, <1>2, <1>3, <1>4

\* ... or the day is read, by a request of its own or after an activity.
LEMMA ReadTodayInv == ASSUME RewardsInv, NEW r \in Learners, ReadToday(r) PROVE RewardsInv'
<1> DEFINE copies == [Resting EXCEPT !.pc = "reconcile", !.item = taskStatus["xp"], !.seen = EarnedToday]
<1>1. UNCHANGED <<quizVars, dayVars, xpVars, learningFaults, interrupted, profileStale>>
  BY DEF ReadToday, learningHistory
<1>2. EarnedToday \in Nat /\ taskStatus["xp"] \in TaskStatuses /\ interrupted \subseteq Awards /\ RestTyped
  BY EarnedIsNat, AwardsAre DEF RewardsInv, RewardsTyped, DayTyped, RestTyped
<1>3. "reconcile" \in Unpaid /\ "reconcile" \notin Paying /\ "reconcile" \notin Paid /\ "today" \notin Paying
  BY DEF Unpaid, Paying, Paid
<1>4. copies \in LearnerWork /\ copies.pc = "reconcile" /\ copies.award = NoAward
  BY <1>2, <1>3 DEF LearnerWork, Resting
<1> HIDE DEF copies
<1>6. Fits(copies, transaction, event, taskStatus)
  BY <1>3, <1>4, AwardsAre DEF Fits
<1>7. CASE Arrives(r, copies)
  BY <1>1, <1>2, <1>4, <1>6, <1>7, Arriving
<1>8. CASE learner[r].pc = "today" /\ Becomes(r, copies) /\ UNCHANGED requested
  <2>1. learner' = [learner EXCEPT ![r] = copies]
    BY <1>8 DEF Becomes
  <2>2. RestTyped'
    BY <1>1, <1>2, <1>8 DEF RestTyped
  <2>3. \A a \in Awards : ~Carries(learner[r], a, transaction[a], event[a])
    BY <1>3, <1>8, NothingInHand
  <2> QED
    BY <1>1, <1>4, <1>6, <2>1, <2>2, <2>3, OnlyTheRequest
<1> QED
  BY <1>7, <1>8 DEF ReadToday, copies

\* Who carries an award settles it.
LEMMA CarriedIsSettled ==
  ASSUME NEW r \in Learners, NEW v, learner'[r] = v, NEW a, Carries(v, a, transaction'[a], event'[a])
  PROVE  Settled(a)'
BY DEF Settled

\* A request that pays goes on with what it pays.
LEMMA FitsOn ==
  ASSUME NEW v, NEW w, NEW amounts, NEW mirrored, NEW status, Fits(w, amounts, mirrored, status), w.award \in Awards,
         v.award = w.award, v.pc \in Paying, v.pc = "insert" => v.amount # 0,
         v.pc \in Paid => v.amount = amounts[v.award] /\ v.amount # 0,
         v.pc \in {"boost", "finish"} => mirrored[v.award] # 0
  PROVE  Fits(v, amounts, mirrored, status)
<1>1. v.pc \notin Unpaid /\ v.pc \notin {"activity", "lesson", "chest"}
  BY DEF Unpaid, Paying, Paid
<1> QED
  BY <1>1 DEF Fits

\* An award moves: its transaction, its event, or the profile it is added to.
LEMMA AwardMoves ==
  ASSUME RewardsInv, NEW r \in Learners, NEW v \in LearnerWork, learner' = [learner EXCEPT ![r] = v],
         NEW a \in Awards, learner[r].award = a, UNCHANGED <<quizVars, dayVars, interrupted>>, XpTyped', RestTyped',
         \A b \in Awards \ {a} : transaction'[b] = transaction[b] /\ event'[b] = event[b],
         transaction[a] # 0 => transaction'[a] = transaction[a], event[a] # 0 => event'[a] # 0,
         event'[a] = 0 \/ event'[a] = transaction'[a],
         Fits(v, transaction', event', taskStatus), Carries(v, a, transaction'[a], event'[a]),
         Adding(profileStale', profileXp', event', promotions')
  PROVE  RewardsInv'
<1>1. learner \in [Learners -> LearnerWork] /\ Marks
  BY DEF RewardsInv, RewardsTyped
<1>2. UNCHANGED <<quizStatus, answered, lessonDone, chestOpened, taskStatus, taskProgress, logged>>
  BY DEF quizVars, dayVars
<1>3. learner' \in [Learners -> LearnerWork] /\ learner'[r] = v
      /\ \A q \in Learners \ {r} : learner'[q] = learner[q]
  BY <1>1
<1>4. RewardsTyped'
  <2>1. QuizTyped' /\ DayTyped'
    BY <1>2 DEF RewardsInv, RewardsTyped, QuizTyped, DayTyped
  <2> QED
    BY <1>3, <2>1 DEF RewardsTyped
<1>5. ASSUME NEW q \in Learners PROVE Fits(learner'[q], transaction', event', taskStatus')
  <2>1. CASE q = r
    BY <1>2, <1>3, <2>1
  <2>2. CASE q # r
    <3>1. Fits(learner[q], transaction, event, taskStatus) /\ learner'[q] = learner[q]
      BY <1>3, <2>2 DEF RewardsInv
    <3>2. learner[q].pc \in Paid => learner[q].pc \in Paying
      BY DEF Paying
    <3>3. {"boost", "finish"} \subseteq Paying
      BY DEF Paying, Paid
    <3>4. learner[q].pc \in Paying => learner[q].award \in Awards
      BY <3>1 DEF Fits
    <3>5. learner[q].pc \in Paid =>
            learner[q].amount = transaction'[learner[q].award] /\ learner[q].amount # 0
      BY <3>1, <3>2, <3>4 DEF Fits
    <3>6. learner[q].pc \in {"boost", "finish"} => event'[learner[q].award] # 0
      BY <3>1, <3>3, <3>4 DEF Fits
    <3> QED
      BY <1>2, <3>1, <3>5, <3>6 DEF Fits
  <2> QED
    BY <2>1, <2>2
<1>6. ASSUME NEW b \in Awards PROVE Settled(b)'
  <2>1. CASE b = a
    BY <1>3, <2>1, CarriedIsSettled
  <2>2. CASE b # a
    <3>1. transaction'[b] = transaction[b] /\ event'[b] = event[b] /\ Settled(b) /\ interrupted' = interrupted
      BY <2>2 DEF RewardsInv
    <3>2. Owed(b)' => Owed(b)
      BY <1>2, <3>1 DEF Owed
    <3>3. ~Carries(learner[r], b, transaction[b], event[b])
      BY <2>2 DEF Carries
    <3>4. CASE b \in interrupted \/ ~Owed(b)
      BY <3>1, <3>2, <3>4 DEF Settled
    <3>5. CASE \E q \in Learners : Carries(learner[q], b, transaction[b], event[b])
      <4>1. PICK q \in Learners \ {r} : Carries(learner[q], b, transaction[b], event[b])
        BY <3>3, <3>5
      <4>2. Carries(learner'[q], b, transaction'[b], event'[b])
        BY <1>3, <3>1, <4>1
      <4> QED
        BY <4>2 DEF Settled
    <3> QED
      BY <3>1, <3>4, <3>5 DEF Settled
  <2> QED
    BY <2>1, <2>2
<1>7. Marks'
  <2>1. "answers" \in Tasks /\ Tasks \subseteq Awards /\ QuizSessions \subseteq Awards
    BY AwardsAre
  <2>2. \A b \in Awards : event[b] # 0 => event'[b] # 0
    OBVIOUS
  <2>3. \A b \in Awards : event'[b] = 0 \/ event'[b] = transaction'[b]
    BY <1>1 DEF Marks
  <2>4. transaction'["answers"] # 0 => taskStatus["answers"] # "IN_PROGRESS"
    <3>1. CASE a = "answers"
      BY <2>1, <3>1 DEF RewardsInv, Fits
    <3>2. CASE a # "answers"
      BY <1>1, <2>1, <3>2 DEF Marks
    <3> QED
      BY <3>1, <3>2
  <2>5. (\A s \in QuizSessions : quizStatus'[s] = "SUBMITTED" => event'[s] # 0)
        /\ (\A t \in Tasks : taskStatus'[t] = "CLAIMED" => event'[t] # 0)
    BY <1>1, <1>2, <2>1, <2>2 DEF Marks
  <2>6. \A t \in Tasks : taskStatus'[t] = "IN_PROGRESS" <=> taskProgress'[t] < Target
    BY <1>1, <1>2 DEF Marks
  <2> QED
    BY <1>2, <2>3, <2>4, <2>5, <2>6 DEF Marks
<1> QED
  BY <1>4, <1>5, <1>6, <1>7 DEF RewardsInv

\* Where requests are when they pay, and where when they do not.
LEMMA StepsAre ==
  /\ \A pc \in {"idle", "START_OVER", "today", "reconcile", "CONTINUE", "lesson", "chest", "activity"} : pc \notin Paying
  /\ \A pc \in {"profile", "identity", "award", "credit", "boost", "finish"} : pc \in Paying /\ pc \in Paid
  /\ \A pc \in {"record", "insert"} : pc \in Paying /\ pc \notin Paid
  /\ Unpaid = {"idle", "START_OVER", "today", "reconcile"}
  /\ \A pc \in Paying : pc \notin Unpaid /\ pc \notin {"activity", "lesson", "chest"}
BY DEF Unpaid, Paying, Paid

\* What a request that pays holds.
LEMMA PayingIs ==
  ASSUME RewardsInv, NEW r \in Learners, learner[r].pc \in Paying
  PROVE  /\ learner[r] \in LearnerWork /\ learner[r].award \in Awards /\ Fits(learner[r], transaction, event, taskStatus)
         /\ learner[r].amount \in Nat /\ learner[r].seen \in Nat /\ transaction[learner[r].award] \in Nat
         /\ event[learner[r].award] \in Nat
<1>1. learner[r] \in LearnerWork /\ Fits(learner[r], transaction, event, taskStatus)
  BY DEF RewardsInv, RewardsTyped
<1>2. learner[r].award \in Awards
  BY <1>1 DEF Fits
<1>3. learner[r].amount \in Nat /\ learner[r].seen \in Nat
  BY <1>1 DEF LearnerWork
<1>4. transaction \in [Awards -> Nat] /\ event \in [Awards -> Nat]
  BY DEF RewardsInv, RewardsTyped, XpTyped
<1> QED
  BY <1>1, <1>2, <1>3, <1>4

\* What is unchanged stays as typed.
LEMMA BookkeepingStays ==
  ASSUME RewardsInv, UNCHANGED bookkeeping
  PROVE  RestTyped' /\ profileStale' = profileStale /\ interrupted' = interrupted
BY DEF RewardsInv, RewardsTyped, RestTyped, bookkeeping, learningHistory

\* The transaction is looked for, and the amount fixed.
LEMMA FindTransactionInv == ASSUME RewardsInv, NEW r \in Learners, FindTransaction(r) PROVE RewardsInv'
<1> DEFINE w == learner[r]
           a == w.award
           fresh == IF boost /\ a \notin Tasks THEN 2 ELSE 1
<1>1. w.pc = "record" /\ UNCHANGED <<quizVars, dayVars, xpVars>> /\ UNCHANGED bookkeeping
  BY DEF FindTransaction
<1>2. /\ w \in LearnerWork /\ a \in Awards /\ Fits(w, transaction, event, taskStatus)
      /\ transaction[a] \in Nat /\ fresh \in Nat /\ fresh # 0
  BY <1>1, PayingIs, StepsAre
<1>3. RestTyped' /\ profileStale' = profileStale /\ interrupted' = interrupted
  BY <1>1, BookkeepingStays
<1>4. CASE transaction[a] # 0
  <2> DEFINE v == [w EXCEPT !.pc = "profile", !.amount = transaction[a]]
  <2>1. v \in LearnerWork /\ v.pc = "profile" /\ v.award = a /\ v.amount = transaction[a]
    BY <1>2, StepsAre DEF LearnerWork
  <2>2. learner' = [learner EXCEPT ![r] = v]
    BY <1>4 DEF FindTransaction, Becomes
  <2> HIDE DEF v
  <2>3. Fits(v, transaction, event, taskStatus)
    BY <1>2, <1>4, <2>1, StepsAre, FitsOn
  <2>4. \A b \in Awards : Carries(w, b, transaction[b], event[b]) => Carries(v, b, transaction[b], event[b])
    BY <2>1 DEF Carries
  <2> QED
    BY <1>1, <1>3, <2>1, <2>2, <2>3, <2>4, OnlyTheRequest
<1>5. CASE transaction[a] = 0
  <2> DEFINE v == [w EXCEPT !.pc = "insert", !.amount = fresh]
  <2>1. v \in LearnerWork /\ v.pc = "insert" /\ v.award = a /\ v.amount = fresh
    BY <1>2, StepsAre DEF LearnerWork
  <2>2. learner' = [learner EXCEPT ![r] = v]
    BY <1>5 DEF FindTransaction, Becomes
  <2> HIDE DEF v
  <2>3. Fits(v, transaction, event, taskStatus)
    BY <1>2, <2>1, StepsAre, FitsOn
  <2>4. \A b \in Awards : Carries(w, b, transaction[b], event[b]) => Carries(v, b, transaction[b], event[b])
    BY <1>5, <2>1 DEF Carries
  <2> QED
    BY <1>1, <1>3, <2>1, <2>2, <2>3, <2>4, OnlyTheRequest
<1> QED
  BY <1>2, <1>4, <1>5

\* The loser of a race fails, without having carried the award.
LEMMA LoserInv ==
  ASSUME RewardsInv, NEW r \in Learners, learner' = [learner EXCEPT ![r] = Resting],
         UNCHANGED <<quizVars, dayVars, xpVars, bookkeeping>>,
         \A a \in Awards : ~Carries(learner[r], a, transaction[a], event[a])
  PROVE  RewardsInv'
<1>1. RestTyped' /\ profileStale' = profileStale /\ interrupted' = interrupted
  BY BookkeepingStays
<1> QED
  BY <1>1, RestingIs, OnlyTheRequest

\* Whoever inserts the transaction carries the award on.
LEMMA InsertTransactionInv == ASSUME RewardsInv, NEW r \in Learners, InsertTransaction(r) PROVE RewardsInv'
<1> DEFINE w == learner[r]
           a == w.award
<1>1. w.pc = "insert" /\ UNCHANGED <<quizVars, dayVars, event, profileXp, promotions, boost>> /\ UNCHANGED bookkeeping
  BY DEF InsertTransaction
<1>2. /\ w \in LearnerWork /\ a \in Awards /\ Fits(w, transaction, event, taskStatus)
      /\ w.amount \in Nat /\ w.amount # 0
  BY <1>1, PayingIs, StepsAre DEF Fits
<1>3. RestTyped' /\ profileStale' = profileStale /\ interrupted' = interrupted
  BY <1>1, BookkeepingStays
<1>4. CASE transaction[a] # 0
  <2>1. learner' = [learner EXCEPT ![r] = Resting] /\ UNCHANGED transaction
    BY <1>4 DEF InsertTransaction, Becomes
  <2>2. \A b \in Awards : ~Carries(w, b, transaction[b], event[b])
    BY <1>1, <1>4 DEF Carries
  <2> QED
    BY <1>1, <2>1, <2>2, LoserInv DEF xpVars
<1>5. CASE transaction[a] = 0
  <2> DEFINE v == [w EXCEPT !.pc = "profile"]
  <2>1. v \in LearnerWork /\ v.pc = "profile" /\ v.award = a /\ v.amount = w.amount
    BY <1>2, StepsAre DEF LearnerWork
  <2>2. learner' = [learner EXCEPT ![r] = v] /\ transaction' = [transaction EXCEPT ![a] = w.amount]
    BY <1>5 DEF InsertTransaction, GoesTo
  <2> HIDE DEF v
  <2>3. XpTyped /\ transaction \in [Awards -> Nat] /\ event \in [Awards -> Nat]
    BY DEF RewardsInv, RewardsTyped, XpTyped
  <2>4. transaction' \in [Awards -> Nat] /\ transaction'[a] = w.amount
        /\ \A b \in Awards \ {a} : transaction'[b] = transaction[b] /\ event'[b] = event[b]
    BY <1>1, <1>2, <2>2, <2>3
  <2>5. XpTyped'
    BY <1>1, <2>3, <2>4 DEF XpTyped
  <2>6. event'[a] = 0 /\ event[a] = 0
    BY <1>1, <1>2, <1>5 DEF RewardsInv, Marks
  <2>7. v.pc # "insert" /\ v.pc \notin {"boost", "finish"} /\ v.pc \in Paying /\ v.award \in Awards
    BY <1>2, <2>1, StepsAre
  <2>8. Fits(v, transaction', event', taskStatus)
    <3>1. v.pc \notin Unpaid /\ v.pc \notin {"activity", "lesson", "chest"}
      BY <2>7, StepsAre
    <3>2. v.award \in Tasks => taskStatus[v.award] # "IN_PROGRESS"
      BY <1>2, <2>1 DEF Fits
    <3> QED
      BY <1>2, <2>1, <2>4, <2>7, <3>1, <3>2 DEF Fits
  <2>9. Carries(v, a, transaction'[a], event'[a])
    BY <2>1 DEF Carries
  <2>10. Adding(profileStale', profileXp', event', promotions')
    BY <1>1, <1>3 DEF RewardsInv
  <2> QED
    BY <1>1, <1>2, <1>3, <1>5, <2>1, <2>2, <2>4, <2>5, <2>6, <2>8, <2>9, <2>10, AwardMoves
<1> QED
  BY <1>4, <1>5

\* A paying request goes on, having paid nothing more.
LEMMA PayingGoesOn ==
  ASSUME RewardsInv, NEW r \in Learners, learner[r].pc \in Paying, NEW v \in LearnerWork,
         learner' = [learner EXCEPT ![r] = v], v.award = learner[r].award, v.amount = learner[r].amount,
         v.pc \in Paid, learner[r].pc \in Paid, v.pc \in {"boost", "finish"} => event[v.award] # 0,
         UNCHANGED <<quizVars, dayVars, xpVars, bookkeeping>>,
         Carries(v, v.award, transaction[v.award], event[v.award])
  PROVE  RewardsInv'
<1>1. RestTyped' /\ profileStale' = profileStale /\ interrupted' = interrupted
  BY BookkeepingStays
<1>2. learner[r].award \in Awards /\ Fits(learner[r], transaction, event, taskStatus)
  BY PayingIs
<1>3. v.amount = transaction[v.award] /\ v.amount # 0
  BY <1>2 DEF Fits
<1>4. v.pc # "insert" /\ v.pc \in Paying
  BY StepsAre DEF Paying
<1>5. Fits(v, transaction, event, taskStatus)
  BY <1>2, <1>3, <1>4, FitsOn
<1>6. \A b \in Awards : Carries(learner[r], b, transaction[b], event[b]) => Carries(v, b, transaction[b], event[b])
  BY DEF Carries
<1> QED
  BY <1>1, <1>5, <1>6, OnlyTheRequest

\* The profile is read; the event is looked for.
LEMMA ProfileAndEventInv == ASSUME RewardsInv, NEW r \in Learners, ReadProfile(r) \/ FindEvent(r) PROVE RewardsInv'
<1> DEFINE w == learner[r]
<1>1. CASE ReadProfile(r)
  <2>1. w.pc = "profile" /\ UNCHANGED <<quizVars, dayVars, xpVars, bookkeeping>>
    BY <1>1 DEF ReadProfile
  <2>2. w \in LearnerWork /\ profileXp \in Nat /\ w.pc \in Paying /\ w.pc \in Paid
    BY <2>1, PayingIs, StepsAre DEF RewardsInv, RewardsTyped, XpTyped
  <2> DEFINE v == [w EXCEPT !.pc = "identity", !.seen = profileXp]
  <2>3. v \in LearnerWork /\ v.pc = "identity" /\ v.award = w.award /\ v.amount = w.amount
    BY <2>2, StepsAre DEF LearnerWork
  <2>4. learner' = [learner EXCEPT ![r] = v]
    BY <1>1 DEF ReadProfile, Becomes
  <2> HIDE DEF v
  <2>5. v.pc \in Paid /\ Carries(v, v.award, transaction[v.award], event[v.award])
    BY <2>3, StepsAre DEF Carries
  <2> QED
    BY <2>1, <2>2, <2>3, <2>4, <2>5, PayingGoesOn
<1>2. CASE FindEvent(r)
  <2>1. w.pc = "award" /\ UNCHANGED <<quizVars, dayVars, xpVars, bookkeeping>>
    BY <1>2 DEF FindEvent
  <2>2. w \in LearnerWork /\ w.pc \in Paying /\ w.pc \in Paid
    BY <2>1, PayingIs, StepsAre
  <2> DEFINE pc == IF event[w.award] # 0 THEN "finish" ELSE "credit"
             v == [w EXCEPT !.pc = pc]
  <2>3. v \in LearnerWork /\ v.pc = pc /\ v.award = w.award /\ v.amount = w.amount
    BY <2>2, StepsAre DEF LearnerWork
  <2>4. learner' = [learner EXCEPT ![r] = v]
    BY <1>2 DEF FindEvent, GoesTo
  <2> HIDE DEF v
  <2>5. v.pc \in Paid /\ (v.pc \in {"boost", "finish"} => event[v.award] # 0)
        /\ Carries(v, v.award, transaction[v.award], event[v.award])
    BY <2>3, StepsAre DEF Carries
  <2> QED
    BY <2>1, <2>2, <2>3, <2>4, <2>5, PayingGoesOn
<1> QED
  BY <1>1, <1>2

\* A stale profile that is saved is known to be stale.
LEMMA SaveProfileInv == ASSUME RewardsInv, NEW r \in Learners, SaveProfile(r) PROVE RewardsInv'
<1> DEFINE w == learner[r]
           a == w.award
           v == [w EXCEPT !.pc = "award"]
<1>1. /\ w.pc = "identity" /\ UNCHANGED <<quizVars, dayVars, transaction, event, promotions, boost>>
      /\ learningFaults' = learningFaults /\ interrupted' = interrupted /\ requested' = requested
      /\ profileXp' = w.seen /\ profileStale' = (profileStale \/ profileXp # w.seen)
  BY DEF SaveProfile
<1>2. /\ w \in LearnerWork /\ a \in Awards /\ Fits(w, transaction, event, taskStatus) /\ w.seen \in Nat
  BY <1>1, PayingIs, StepsAre
<1>3. v \in LearnerWork /\ v.pc = "award" /\ v.award = a /\ v.amount = w.amount
  BY <1>2, StepsAre DEF LearnerWork
<1>4. learner' = [learner EXCEPT ![r] = v]
  BY DEF SaveProfile, GoesTo
<1> HIDE DEF v
<1>5. XpTyped' /\ RestTyped'
  BY <1>1, <1>2 DEF RewardsInv, RewardsTyped, XpTyped, RestTyped
<1>6. w.amount = transaction[a] /\ w.amount # 0
  BY <1>1, <1>2, StepsAre DEF Fits
<1>7. v.pc # "insert" /\ v.pc \in Paying /\ v.pc \notin {"boost", "finish"} /\ v.award \in Awards
  BY <1>2, <1>3, StepsAre
<1>8. Fits(v, transaction, event, taskStatus)
  BY <1>2, <1>3, <1>6, <1>7, FitsOn
<1>9. Carries(v, a, transaction[a], event[a])
  BY <1>3 DEF Carries
<1>10. Adding(profileStale', profileXp', event', promotions')
  <2>1. ASSUME profileStale' = FALSE PROVE profileXp' = profileXp /\ profileStale = FALSE
    BY <1>1, <2>1 DEF RewardsInv, RewardsTyped, RestTyped
  <2> QED
    BY <1>1, <2>1 DEF RewardsInv, Adding
<1>11. event[a] = 0 \/ event[a] = transaction[a]
  BY <1>2 DEF RewardsInv, Marks
<1> QED
  BY <1>1, <1>2, <1>3, <1>4, <1>5, <1>8, <1>9, <1>10, <1>11, AwardMoves

\* The event, the total and the promotion are written together.
LEMMA CreditProfileInv == ASSUME RewardsInv, NEW r \in Learners, CreditProfile(r) PROVE RewardsInv'
<1> DEFINE w == learner[r]
           a == w.award
<1>1. w.pc = "credit" /\ UNCHANGED <<quizVars, dayVars, transaction, boost>> /\ UNCHANGED bookkeeping
  BY DEF CreditProfile
<1>2. /\ w \in LearnerWork /\ a \in Awards /\ Fits(w, transaction, event, taskStatus)
      /\ w.amount \in Nat /\ w.amount = transaction[a] /\ w.amount # 0
  BY <1>1, PayingIs, StepsAre DEF Fits
<1>3. RestTyped' /\ profileStale' = profileStale /\ interrupted' = interrupted
  BY <1>1, BookkeepingStays
<1>4. CASE event[a] # 0
  <2>1. learner' = [learner EXCEPT ![r] = Resting] /\ UNCHANGED <<event, profileXp, promotions>>
    BY <1>4 DEF CreditProfile, Becomes
  <2>2. \A b \in Awards : ~Carries(w, b, transaction[b], event[b])
    BY <1>1, <1>4 DEF Carries
  <2> QED
    BY <1>1, <2>1, <2>2, LoserInv DEF xpVars
<1>5. CASE event[a] = 0
  <2> DEFINE promoted == profileXp < PromotionAt /\ Credited(r) >= PromotionAt
             pc == IF promoted THEN "boost" ELSE "finish"
             v == [w EXCEPT !.pc = pc]
  <2>1. v \in LearnerWork /\ v.pc = pc /\ v.award = a /\ v.amount = w.amount
    BY <1>2, StepsAre DEF LearnerWork
  <2>2. /\ learner' = [learner EXCEPT ![r] = v] /\ event' = [event EXCEPT ![a] = w.amount]
        /\ profileXp' = Credited(r) /\ promotions' = IF promoted THEN promotions + 1 ELSE promotions
    BY <1>5 DEF CreditProfile, GoesTo
  <2>3. v.pc \in Paid /\ v.pc \in Paying /\ v.pc # "insert" /\ v.pc \in {"boost", "finish"}
    BY <2>1, StepsAre
  <2> HIDE DEF v, pc
  <2>4. event \in [Awards -> Nat] /\ transaction \in [Awards -> Nat] /\ profileXp \in Nat /\ promotions \in Nat
        /\ boost \in BOOLEAN
    BY DEF RewardsInv, RewardsTyped, XpTyped
  <2>5. event' \in [Awards -> Nat] /\ event'[a] = w.amount /\ event'[a] = event[a] + w.amount
        /\ \A b \in Awards \ {a} : transaction'[b] = transaction[b] /\ event'[b] = event[b]
    BY <1>1, <1>2, <1>5, <2>2, <2>4
  <2>6. profileXp' = profileXp + w.amount
    BY <2>2 DEF Credited
  <2>7. XpTyped'
    BY <1>1, <1>2, <2>2, <2>4, <2>5, <2>6 DEF XpTyped
  <2>8. Fits(v, transaction', event', taskStatus)
    <3>1. v.pc \notin Unpaid /\ v.pc \notin {"activity", "lesson", "chest"}
      BY <2>3, StepsAre
    <3>2. v.award \in Tasks => taskStatus[v.award] # "IN_PROGRESS"
      BY <1>2, <2>1 DEF Fits
    <3> QED
      BY <1>1, <1>2, <2>1, <2>3, <2>5, <3>1, <3>2 DEF Fits
  <2>9. Carries(v, a, transaction'[a], event'[a])
    BY <2>1, <2>3 DEF Carries
  <2>10. Adding(profileStale', profileXp', event', promotions')
    <3> SUFFICES ASSUME profileStale' = FALSE
                 PROVE  /\ profileXp' = Total(event', Awards)
                        /\ promotions' = IF profileXp' >= PromotionAt THEN 1 ELSE 0
      BY DEF Adding
    <3>1. profileXp = Total(event, Awards) /\ promotions = IF profileXp >= PromotionAt THEN 1 ELSE 0
      BY <1>3 DEF RewardsInv, Adding
    <3>2. Total(event', Awards) = Total(event, Awards) + w.amount
      BY <1>2, <2>4, <2>5, AwardsAre, TotalGrows
    <3>3. promotions' = IF profileXp + w.amount >= PromotionAt THEN 1 ELSE 0
      BY <1>2, <2>2, <2>4, <3>1, LearningAssumption DEF Credited
    <3> QED
      BY <2>6, <3>1, <3>2, <3>3
  <2>11. event'[a] = transaction'[a] /\ event'[a] # 0 /\ transaction'[a] = transaction[a]
    BY <1>1, <1>2, <2>5
  <2> QED
    BY <1>1, <1>2, <1>3, <2>1, <2>2, <2>5, <2>7, <2>8, <2>9, <2>10, <2>11, AwardMoves
<1> QED
  BY <1>4, <1>5

\* The boost comes after the promotion.
LEMMA EnsureScoringBoostInv == ASSUME RewardsInv, NEW r \in Learners, EnsureScoringBoost(r) PROVE RewardsInv'
<1> DEFINE w == learner[r]
           a == w.award
           v == [w EXCEPT !.pc = "finish"]
<1>1. w.pc = "boost" /\ boost' = TRUE /\ UNCHANGED <<quizVars, dayVars, transaction, event, profileXp, promotions>>
      /\ UNCHANGED bookkeeping
  BY DEF EnsureScoringBoost
<1>2. /\ w \in LearnerWork /\ a \in Awards /\ Fits(w, transaction, event, taskStatus)
  BY <1>1, PayingIs, StepsAre
<1>3. v \in LearnerWork /\ v.pc = "finish" /\ v.award = a /\ v.amount = w.amount
  BY <1>2, StepsAre DEF LearnerWork
<1>4. learner' = [learner EXCEPT ![r] = v]
  BY DEF EnsureScoringBoost, GoesTo
<1> HIDE DEF v
<1>5. RestTyped' /\ profileStale' = profileStale /\ interrupted' = interrupted
  BY <1>1, BookkeepingStays
<1>6. w.amount = transaction[a] /\ w.amount # 0 /\ event[a] # 0
  BY <1>1, <1>2, StepsAre DEF Fits
<1>7. v.pc # "insert" /\ v.pc \in Paying
  BY <1>3, StepsAre
<1>8. Fits(v, transaction', event', taskStatus)
  BY <1>1, <1>2, <1>3, <1>6, <1>7, FitsOn
<1>9. Carries(v, a, transaction'[a], event'[a])
  BY <1>3 DEF Carries
<1>10. XpTyped' /\ Adding(profileStale', profileXp', event', promotions')
  BY <1>1, <1>5 DEF RewardsInv, RewardsTyped, XpTyped, Adding
<1>11. event[a] = 0 \/ event[a] = transaction[a]
  BY <1>2 DEF RewardsInv, Marks
<1> QED
  BY <1>1, <1>2, <1>3, <1>4, <1>5, <1>6, <1>8, <1>9, <1>10, <1>11, AwardMoves

\* The session is submitted, or the task claimed, when its award is paid.
LEMMA FinishAwardInv == ASSUME RewardsInv, NEW r \in Learners, FinishAward(r) PROVE RewardsInv'
<1> DEFINE w == learner[r]
           a == w.award
           v == IF a \in QuizSessions THEN [Resting EXCEPT !.pc = "activity", !.award = a] ELSE Resting
<1>1. /\ w.pc = "finish" /\ UNCHANGED <<answered, lessonDone, chestOpened, taskProgress, logged, xpVars>>
      /\ UNCHANGED bookkeeping
      /\ quizStatus' = [s \in QuizSessions |-> IF s = a THEN "SUBMITTED" ELSE quizStatus[s]]
      /\ taskStatus' = [t \in Tasks |-> IF t = a THEN "CLAIMED" ELSE taskStatus[t]]
      /\ learner' = [learner EXCEPT ![r] = v]
  BY DEF FinishAward, Becomes
<1>2. /\ w \in LearnerWork /\ a \in Awards /\ Fits(w, transaction, event, taskStatus) /\ event[a] # 0
      /\ (a \in Tasks => taskStatus[a] # "IN_PROGRESS")
  BY <1>1, PayingIs, StepsAre DEF Fits
<1>3. RestTyped' /\ profileStale' = profileStale /\ interrupted' = interrupted
  BY <1>1, BookkeepingStays
<1>4. Marks /\ QuizTyped /\ DayTyped /\ XpTyped /\ a \in QuizSessions \union Tasks \union {"lesson", "chest"}
  BY <1>2 DEF RewardsInv, RewardsTyped, Awards
<1>5. v \in LearnerWork /\ Fits(v, transaction, event, taskStatus')
  <2>1. CASE a \in QuizSessions
    <3>1. v \in LearnerWork /\ v.pc = "activity" /\ v.award = a
      BY <1>2, <2>1 DEF LearnerWork, Resting, TaskStatuses
    <3>2. v.award \notin Tasks
      BY <2>1, <3>1, AwardsAre
    <3>3. "activity" \notin Unpaid /\ "activity" \notin Paying /\ "activity" \notin Paid
      BY DEF Unpaid, Paying, Paid
    <3> QED
      BY <2>1, <3>1, <3>2, <3>3 DEF Fits
  <2>2. CASE a \notin QuizSessions
    BY <2>2, RestingIs
  <2> QED
    BY <2>1, <2>2
<1> HIDE DEF v
<1>6. QuizTyped' /\ DayTyped' /\ boost' \in BOOLEAN
  <2>1. QuizTyped'
    BY <1>1, <1>4 DEF QuizTyped
  <2>2. DayTyped'
    BY <1>1, <1>4 DEF DayTyped, TaskStatuses
  <2> QED
    BY <1>1, <1>4, <2>1, <2>2 DEF XpTyped, xpVars
<1>7. \A t \in Tasks : /\ taskStatus'[t] = "IN_PROGRESS" <=> taskProgress'[t] < Target
                       /\ taskStatus'[t] = "CLAIMED" => event[t] # 0
  BY <1>1, <1>2, <1>4 DEF Marks
<1>8. \A t \in Tasks : ~(taskStatus[t] # "IN_PROGRESS" /\ taskStatus'[t] = "IN_PROGRESS")
  BY <1>1
<1>9. \A s \in QuizSessions : quizStatus'[s] = "SUBMITTED" => event[s] # 0
  BY <1>1, <1>2, <1>4 DEF Marks
<1>10. transaction' = transaction /\ event' = event /\ UNCHANGED <<profileXp, promotions>>
  BY <1>1 DEF xpVars
<1>11. ASSUME NEW b \in Awards PROVE Settled(b)'
  <2>1. CASE b = a
    <3>1. ~Owed(b)'
      BY <1>1, <1>2, <1>10, <2>1, AwardsAre DEF Owed
    <3> QED
      BY <3>1 DEF Settled
  <2>2. CASE b # a
    <3>1. Owed(b)' => Owed(b)
      BY <1>1, <1>10, <2>2, AwardsAre DEF Owed
    <3>2. ~Carries(w, b, transaction[b], event[b])
      BY <2>2 DEF Carries
    <3> QED
      BY <1>1, <1>3, <1>5, <1>10, <3>1, <3>2, SettledStays
  <2> QED
    BY <2>1, <2>2
<1> QED
  BY <1>1, <1>3, <1>5, <1>6, <1>7, <1>8, <1>9, <1>10, <1>11, NothingPaid

\* Sessions are cancelled, merged or created: one that was submitted and is
\* cancelled is interrupted, and no award is paid.
LEMMA SessionsMove ==
  ASSUME RewardsInv, NEW r \in Learners, learner[r].pc \notin Paying, learner' = [learner EXCEPT ![r] = Resting],
         UNCHANGED <<dayVars, xpVars, learningFaults, profileStale, requested>>, QuizTyped',
         interrupted \subseteq interrupted', interrupted' \subseteq Awards,
         \A s \in QuizSessions :
           /\ quizStatus'[s] = "SUBMITTED" => quizStatus[s] = "SUBMITTED"
           /\ quizStatus[s] = "SUBMITTED" /\ quizStatus'[s] # "SUBMITTED" => s \in interrupted'
  PROVE  RewardsInv'
<1>1. UNCHANGED <<lessonDone, chestOpened, taskStatus, taskProgress, logged, transaction, event, profileXp,
                  promotions, boost>>
  BY DEF dayVars, xpVars
<1>2. DayTyped' /\ RestTyped' /\ boost' \in BOOLEAN
  BY <1>1 DEF RewardsInv, RewardsTyped, DayTyped, RestTyped, XpTyped
<1>3. Marks
  BY DEF RewardsInv
<1>4. \A t \in Tasks : /\ taskStatus'[t] = "IN_PROGRESS" <=> taskProgress'[t] < Target
                       /\ taskStatus'[t] = "CLAIMED" => event[t] # 0
  BY <1>1, <1>3 DEF Marks
<1>5. \A s \in QuizSessions : quizStatus'[s] = "SUBMITTED" => event[s] # 0
  BY <1>3 DEF Marks
<1>6. ASSUME NEW a \in Awards PROVE Settled(a)'
  <2>1. Owed(a)' => Owed(a) \/ a \in interrupted'
    BY <1>1 DEF Owed
  <2>2. ~Carries(learner[r], a, transaction[a], event[a])
    BY NothingInHand
  <2> QED
    BY <1>1, <2>1, <2>2, RestingIs, SettledStays
<1>7. \A t \in Tasks : ~(taskStatus[t] # "IN_PROGRESS" /\ taskStatus'[t] = "IN_PROGRESS")
  BY <1>1
<1> QED
  BY <1>1, <1>2, <1>4, <1>5, <1>6, <1>7, RestingIs, NothingPaid

\* A new session, or the answers of the others.
LEMMA QuizSessionsInv ==
  ASSUME RewardsInv, NEW r \in Learners, StartOver(r) \/ ConsolidateInProgressSessions(r) \/ CreateSession(r)
  PROVE  RewardsInv'
<1>0. /\ QuizTyped /\ interrupted \subseteq Awards /\ QuizSessions \subseteq Awards
      /\ learner[r] \in LearnerWork /\ learner[r].picked \subseteq QuizSessions
  BY AwardsAre DEF RewardsInv, RewardsTyped, RestTyped, LearnerWork
<1>1. CASE StartOver(r)
  <2>1. /\ learner[r].pc \notin Paying /\ learner' = [learner EXCEPT ![r] = Resting]
        /\ UNCHANGED <<answered, dayVars, xpVars, learningFaults, profileStale, requested>>
        /\ interrupted' = interrupted \union {s \in learner[r].picked : quizStatus[s] = "SUBMITTED"}
    BY <1>1, StepsAre DEF StartOver, Becomes
  <2>2. PICK new \in QuizSessions :
          /\ quizStatus[new] = "NONE"
          /\ quizStatus' = [s \in QuizSessions |->
                              IF s = new THEN "IN_PROGRESS"
                              ELSE IF s \in learner[r].picked THEN "CANCELLED" ELSE quizStatus[s]]
    BY <1>1 DEF StartOver
  <2>3. QuizTyped'
    BY <1>0, <2>1, <2>2 DEF QuizTyped
  <2>4. \A s \in QuizSessions :
           /\ quizStatus'[s] = "SUBMITTED" => quizStatus[s] = "SUBMITTED"
           /\ quizStatus[s] = "SUBMITTED" /\ quizStatus'[s] # "SUBMITTED" => s \in interrupted'
    BY <2>1, <2>2
  <2>5. interrupted \subseteq interrupted' /\ interrupted' \subseteq Awards
    BY <1>0, <2>1
  <2> QED
    BY <2>1, <2>3, <2>4, <2>5, SessionsMove
<1>2. CASE ConsolidateInProgressSessions(r)
  <2> DEFINE canonical == learner[r].award
             duplicates == learner[r].picked \ {canonical}
  <2>1. /\ learner[r].pc \notin Paying /\ learner' = [learner EXCEPT ![r] = Resting]
        /\ UNCHANGED <<dayVars, xpVars, learningFaults, profileStale, requested>>
        /\ interrupted' = interrupted \union {s \in duplicates : quizStatus[s] = "SUBMITTED"}
        /\ quizStatus' = [s \in QuizSessions |-> IF s \in duplicates THEN "CANCELLED" ELSE quizStatus[s]]
        /\ answered' = [answered EXCEPT ![canonical] = @ \union UNION {answered[s] : s \in duplicates}]
    BY <1>2, StepsAre DEF ConsolidateInProgressSessions, Becomes
  <2>2. UNION {answered[s] : s \in duplicates} \subseteq Questions
    BY <1>0 DEF QuizTyped
  <2>3. QuizTyped'
    <3>1. answered' \in [QuizSessions -> SUBSET Questions]
      BY <1>0, <2>1, <2>2 DEF QuizTyped
    <3> QED
      BY <1>0, <2>1, <3>1 DEF QuizTyped
  <2>4. \A s \in QuizSessions :
           /\ quizStatus'[s] = "SUBMITTED" => quizStatus[s] = "SUBMITTED"
           /\ quizStatus[s] = "SUBMITTED" /\ quizStatus'[s] # "SUBMITTED" => s \in interrupted'
    BY <2>1
  <2>5. interrupted \subseteq interrupted' /\ interrupted' \subseteq Awards
    BY <1>0, <2>1
  <2> QED
    BY <2>1, <2>3, <2>4, <2>5, SessionsMove
<1>3. CASE CreateSession(r)
  <2>1. /\ learner[r].pc \notin Paying /\ learner' = [learner EXCEPT ![r] = Resting]
        /\ UNCHANGED <<answered, dayVars, xpVars>> /\ UNCHANGED bookkeeping
    BY <1>3, StepsAre DEF CreateSession, Becomes
  <2>2. PICK s \in QuizSessions : quizStatus[s] = "NONE" /\ quizStatus' = [quizStatus EXCEPT ![s] = "IN_PROGRESS"]
    BY <1>3 DEF CreateSession
  <2>3. UNCHANGED <<learningFaults, profileStale, requested, interrupted>>
    BY <2>1 DEF bookkeeping, learningHistory
  <2>4. QuizTyped'
    BY <1>0, <2>1, <2>2 DEF QuizTyped
  <2>5. \A t \in QuizSessions :
           /\ quizStatus'[t] = "SUBMITTED" => quizStatus[t] = "SUBMITTED"
           /\ quizStatus[t] = "SUBMITTED" /\ quizStatus'[t] # "SUBMITTED" => t \in interrupted'
    BY <1>0, <2>2 DEF QuizTyped
  <2> QED
    BY <1>0, <2>1, <2>3, <2>4, <2>5, SessionsMove
<1> QED
  BY <1>1, <1>2, <1>3

\* The lesson is marked before it is paid, by a request that will pay it; so is
\* the chest, by the one that finds it unopened.
LEMMA MarkedInv == ASSUME RewardsInv, NEW r \in Learners, MarkLessonCompleted(r) \/ SaveChest(r) PROVE RewardsInv'
<1> DEFINE w == learner[r]
           v == [w EXCEPT !.pc = "record"]
<1>1. /\ w.pc \in {"lesson", "chest"} /\ UNCHANGED <<quizVars, taskStatus, taskProgress, logged, xpVars>>
      /\ UNCHANGED bookkeeping
  BY DEF MarkLessonCompleted, SaveChest
<1>2. w \in LearnerWork /\ Fits(w, transaction, event, taskStatus) /\ w.award \in Awards \ Tasks /\ w.award = w.pc
  BY <1>1, AwardsAre DEF RewardsInv, RewardsTyped, Fits
<1>3. v \in LearnerWork /\ v.pc = "record" /\ v.award = w.award
  BY <1>2, StepsAre DEF LearnerWork
<1>4. Fits(v, transaction, event, taskStatus')
  BY <1>2, <1>3, StepsAre DEF Fits
<1>5. RestTyped' /\ profileStale' = profileStale /\ interrupted' = interrupted
  BY <1>1, BookkeepingStays
<1>6. UNCHANGED <<quizStatus, answered, transaction, event, profileXp, promotions, boost>>
  BY <1>1 DEF quizVars, xpVars
<1>7. \A a \in Awards : ~Carries(w, a, transaction[a], event[a])
  BY <1>1, StepsAre, NothingInHand
<1>8. Marks /\ QuizTyped' /\ boost' \in BOOLEAN /\ DayTyped
  BY <1>6 DEF RewardsInv, RewardsTyped, QuizTyped, XpTyped
<1>9. \A t \in Tasks : /\ taskStatus'[t] = "IN_PROGRESS" <=> taskProgress'[t] < Target
                       /\ taskStatus'[t] = "CLAIMED" => event[t] # 0
  BY <1>1, <1>8 DEF Marks
<1>10. \A s \in QuizSessions : quizStatus'[s] = "SUBMITTED" => event[s] # 0
  BY <1>6, <1>8 DEF Marks
<1>11. \A t \in Tasks : ~(taskStatus[t] # "IN_PROGRESS" /\ taskStatus'[t] = "IN_PROGRESS")
  BY <1>1
<1>12. ASSUME learner' = [learner EXCEPT ![r] = v], DayTyped',
              \A a \in Awards \ {w.award} : Owed(a)' => Owed(a)
       PROVE  RewardsInv'
  <2>1. ASSUME NEW a \in Awards PROVE Settled(a)'
    <3>1. CASE a = w.award
      <4>1. learner'[r] = v
        BY <1>12 DEF RewardsInv, RewardsTyped
      <4>2. Carries(v, a, transaction'[a], event'[a])
        BY <1>3, <3>1 DEF Carries
      <4> QED
        BY <4>1, <4>2, CarriedIsSettled
    <3>2. CASE a # w.award
      BY <1>3, <1>5, <1>6, <1>7, <1>12, <3>2, SettledStays
    <3> QED
      BY <3>1, <3>2
  <2> QED
    BY <1>3, <1>4, <1>5, <1>6, <1>8, <1>9, <1>10, <1>11, <1>12, <2>1, NothingPaid
<1>13. CASE MarkLessonCompleted(r)
  <2>1. w.pc = "lesson" /\ lessonDone' = TRUE /\ UNCHANGED chestOpened /\ learner' = [learner EXCEPT ![r] = v]
    BY <1>13 DEF MarkLessonCompleted, GoesTo
  <2> HIDE DEF v
  <2>2. DayTyped'
    BY <1>1, <1>8, <2>1 DEF DayTyped
  <2>3. \A a \in Awards \ {w.award} : Owed(a)' => Owed(a)
    BY <1>1, <1>2, <1>6, <2>1 DEF Owed
  <2> QED
    BY <1>12, <2>1, <2>2, <2>3
<1>14. CASE SaveChest(r) /\ ~chestOpened
  <2>1. w.pc = "chest" /\ chestOpened' = TRUE /\ UNCHANGED lessonDone /\ learner' = [learner EXCEPT ![r] = v]
    BY <1>14 DEF SaveChest, GoesTo
  <2> HIDE DEF v
  <2>2. DayTyped'
    BY <1>1, <1>8, <2>1 DEF DayTyped
  <2>3. \A a \in Awards \ {w.award} : Owed(a)' => Owed(a)
    BY <1>1, <1>2, <1>6, <2>1 DEF Owed
  <2> QED
    BY <1>12, <2>1, <2>2, <2>3
<1>15. CASE SaveChest(r) /\ chestOpened
  <2>1. chestOpened' = chestOpened /\ UNCHANGED lessonDone /\ learner' = [learner EXCEPT ![r] = Resting]
    BY <1>8, <1>15 DEF SaveChest, Becomes, DayTyped
  <2>2. UNCHANGED <<quizVars, dayVars, xpVars, bookkeeping>>
    BY <1>1, <2>1 DEF dayVars
  <2> QED
    BY <1>7, <2>1, <2>2, LoserInv
<1> QED
  BY <1>13, <1>14, <1>15

\* What is logged and what is earned moves the tasks nobody is claiming.
LEMMA DayMoves ==
  ASSUME RewardsInv, NEW r \in Learners, learner[r].pc \notin Paying,
         NEW v \in LearnerWork, v.pc \in Unpaid, v.award = NoAward, learner' = [learner EXCEPT ![r] = v],
         UNCHANGED <<quizVars, lessonDone, chestOpened, xpVars, bookkeeping>>, logged' \subseteq QuizSessions,
         NEW t \in Tasks, ~WorkedOn(t), t = "answers" => taskStatus[t] = "IN_PROGRESS" \/ UNCHANGED taskStatus,
         NEW n \in 0..Target, NEW status \in {"IN_PROGRESS", "COMPLETED"}, status = "IN_PROGRESS" <=> n < Target,
         \/ UNCHANGED <<taskProgress, taskStatus>>
         \/ taskProgress' = [taskProgress EXCEPT ![t] = n] /\ taskStatus' = [taskStatus EXCEPT ![t] = status]
  PROVE  RewardsInv'
<1>1. RestTyped' /\ profileStale' = profileStale /\ interrupted' = interrupted
  BY BookkeepingStays
<1>2. UNCHANGED <<quizStatus, answered, transaction, event, profileXp, promotions, boost>>
  BY DEF quizVars, xpVars
<1>3. \A a \in Awards : ~Carries(learner[r], a, transaction[a], event[a])
  BY NothingInHand
<1>4. Marks /\ QuizTyped' /\ boost' \in BOOLEAN /\ DayTyped
  BY <1>2 DEF RewardsInv, RewardsTyped, QuizTyped, XpTyped
<1>5. DayTyped'
  BY <1>4 DEF DayTyped, TaskStatuses
<1>6. Fits(v, transaction, event, taskStatus')
  <2>1. NoAward \notin Tasks
    BY AwardsAre
  <2>2. v.pc \notin Paying /\ v.pc \notin Paid /\ v.pc \notin {"activity", "lesson", "chest", "insert", "boost", "finish"}
    BY DEF Unpaid, Paying, Paid
  <2> QED
    BY <2>1, <2>2 DEF Fits
<1>7. \A u \in Tasks : /\ taskStatus'[u] = "IN_PROGRESS" <=> taskProgress'[u] < Target
                       /\ taskStatus'[u] = "CLAIMED" => event[u] # 0
  BY <1>4 DEF Marks, DayTyped
<1>8. \A u \in Tasks \ {t} : taskStatus'[u] = taskStatus[u]
  BY <1>4 DEF DayTyped
<1>9. \A s \in QuizSessions : quizStatus'[s] = "SUBMITTED" => event[s] # 0
  BY <1>2, <1>4 DEF Marks
<1>10. \A u \in Tasks : taskStatus[u] # "IN_PROGRESS" /\ taskStatus'[u] = "IN_PROGRESS" =>
                          u # "answers" /\ \A q \in Learners \ {r} : learner[q].award # u
  <2>1. \A q \in Learners : learner[q].award # t
    BY DEF WorkedOn
  <2> QED
    BY <1>8, <2>1
<1>11. ASSUME NEW a \in Awards PROVE Settled(a)'
  <2>1. a = "answers" /\ taskStatus'[a] # "CLAIMED" => taskStatus[a] # "CLAIMED"
    BY <1>8, AwardsAre
  <2>2. Owed(a)' => Owed(a)
    BY <1>2, <2>1 DEF Owed
  <2> QED
    BY <1>1, <1>2, <1>3, <2>2, SettledStays
<1> QED
  BY <1>1, <1>2, <1>4, <1>5, <1>6, <1>7, <1>9, <1>10, <1>11, NothingPaid

\* The progress of a task is capped at its target, where it is completed.
LEMMA AtMostIs ==
  ASSUME NEW n \in Nat
  PROVE  /\ AtMost(Target, n) \in 0..Target /\ StatusAt(n) \in {"IN_PROGRESS", "COMPLETED"}
         /\ StatusAt(n) = "IN_PROGRESS" <=> AtMost(Target, n) < Target
         /\ StatusAt(AtMost(Target, n)) = StatusAt(n)
BY LearningAssumption DEF AtMost, StatusAt

\* A request without an award.
LEMMA EmptyHanded ==
  ASSUME NEW pc \in Unpaid
  PROVE  /\ [Resting EXCEPT !.pc = pc] \in LearnerWork /\ [Resting EXCEPT !.pc = pc].pc = pc
         /\ [Resting EXCEPT !.pc = pc].award = NoAward
BY DEF LearnerWork, Resting, TaskStatuses

LEMMA RecordActivityInv == ASSUME RewardsInv, NEW r \in Learners, RecordActivity(r) PROVE RewardsInv'
<1> DEFINE v == [Resting EXCEPT !.pc = "today"]
           n == taskProgress["answers"] + 1
           next == AtMost(Target, n)
<1>1. /\ learner[r].pc = "activity" /\ learner[r].pc \notin Paying /\ ~WorkedOn("answers")
      /\ learner' = [learner EXCEPT ![r] = v]
      /\ UNCHANGED <<quizVars, lessonDone, chestOpened, xpVars>> /\ UNCHANGED bookkeeping
      /\ logged' = logged \union {learner[r].award}
  BY StepsAre DEF RecordActivity, Becomes
<1>2. v \in LearnerWork /\ v.pc \in Unpaid /\ v.award = NoAward
  BY StepsAre, EmptyHanded
<1>3. logged' \subseteq QuizSessions
  BY <1>1 DEF RewardsInv, RewardsTyped, DayTyped, Fits
<1>4. "answers" \in Tasks /\ n \in Nat
  BY AwardsAre DEF RewardsInv, RewardsTyped, DayTyped
<1>5. \/ UNCHANGED <<taskProgress, taskStatus>>
      \/ /\ taskStatus["answers"] = "IN_PROGRESS"
         /\ taskProgress' = [taskProgress EXCEPT !["answers"] = next]
         /\ taskStatus' = [taskStatus EXCEPT !["answers"] = StatusAt(next)]
  BY DEF RecordActivity
<1>6. next \in 0..Target /\ StatusAt(next) \in {"IN_PROGRESS", "COMPLETED"} /\ (StatusAt(next) = "IN_PROGRESS" <=> next < Target)
  BY <1>4, AtMostIs
<1> HIDE DEF v, next, n
<1>7. taskStatus["answers"] = "IN_PROGRESS" \/ UNCHANGED taskStatus
  BY <1>5
<1> QED
  BY <1>1, <1>2, <1>3, <1>4, <1>5, <1>6, <1>7, DayMoves

LEMMA ReconcileProgressInv == ASSUME RewardsInv, NEW r \in Learners, ReconcileProgress(r) PROVE RewardsInv'
<1> DEFINE n == learner[r].seen
<1>1. /\ learner[r].pc \notin Paying /\ ~WorkedOn("xp") /\ learner' = [learner EXCEPT ![r] = Resting]
      /\ UNCHANGED <<quizVars, lessonDone, chestOpened, xpVars>> /\ UNCHANGED bookkeeping /\ logged' = logged
  BY StepsAre DEF ReconcileProgress, Becomes
<1>2. "idle" \in Unpaid
  BY StepsAre
<1>3. n \in Nat /\ logged' \subseteq QuizSessions
  BY <1>1 DEF RewardsInv, RewardsTyped, DayTyped, LearnerWork
<1>4. \/ UNCHANGED <<taskProgress, taskStatus>>
      \/ /\ taskProgress' = [taskProgress EXCEPT !["xp"] = AtMost(Target, n)]
         /\ taskStatus' = [taskStatus EXCEPT !["xp"] = StatusAt(n)]
  BY DEF ReconcileProgress
<1>5. AtMost(Target, n) \in 0..Target /\ StatusAt(n) \in {"IN_PROGRESS", "COMPLETED"}
      /\ (StatusAt(n) = "IN_PROGRESS" <=> AtMost(Target, n) < Target)
  BY <1>3, AtMostIs
<1> HIDE DEF n
<1>6. "xp" \in Tasks /\ "xp" # "answers"
  BY AwardsAre
<1> QED
  BY <1>1, <1>2, <1>3, <1>4, <1>5, <1>6, RestingIs, DayMoves

\* A request that dies leaves its award interrupted.
LEMMA RequestDiesInv == ASSUME RewardsInv, NEW r \in Learners, RequestDies(r) PROVE RewardsInv'
<1>1. /\ learner' = [learner EXCEPT ![r] = Resting] /\ interrupted' = (interrupted \union {learner[r].award}) \ {NoAward}
      /\ learningFaults < MaxLearningFaults /\ learningFaults' = learningFaults + 1
      /\ UNCHANGED <<quizVars, dayVars, xpVars, profileStale, requested>>
  BY DEF RequestDies, Becomes
<1>2. learner[r].award \in Awards \union {NoAward} /\ RestTyped
  BY DEF RewardsInv, RewardsTyped, LearnerWork
<1>3. RestTyped'
  BY <1>1, <1>2, LearningAssumption DEF RestTyped
<1>4. \A a \in Awards : /\ a \in interrupted => a \in interrupted'
                        /\ Carries(learner[r], a, transaction[a], event[a]) => a \in interrupted'
  BY <1>1, AwardsAre DEF Carries
<1> QED
  BY <1>1, <1>3, <1>4, RestingIs, OnlyTheRequest

\* An answer, or the end of a boost, is no award.
LEMMA NoRequestInv ==
  ASSUME RewardsInv, BoostExpires \/ \E s \in QuizSessions, q \in Questions : CheckAnswer(s, q)
  PROVE  RewardsInv'
<1>1. UNCHANGED <<quizStatus, lessonDone, chestOpened, taskStatus, taskProgress, logged, transaction, event,
                  profileXp, promotions, learner, requested, learningFaults, interrupted, profileStale>>
      /\ boost' \in BOOLEAN /\ answered' \in [QuizSessions -> SUBSET Questions]
  <2>1. CASE BoostExpires
    BY <2>1 DEF BoostExpires, quizVars, dayVars, bookkeeping, learningHistory, RewardsInv, RewardsTyped, QuizTyped
  <2>2. ASSUME NEW s \in QuizSessions, NEW q \in Questions, CheckAnswer(s, q)
        PROVE  UNCHANGED <<quizStatus, lessonDone, chestOpened, taskStatus, taskProgress, logged, transaction, event,
                           profileXp, promotions, learner, requested, learningFaults, interrupted, profileStale>>
               /\ boost' \in BOOLEAN /\ answered' \in [QuizSessions -> SUBSET Questions]
    BY <2>2 DEF CheckAnswer, dayVars, xpVars, bookkeeping, learningHistory, RewardsInv, RewardsTyped, QuizTyped, XpTyped
  <2> QED
    BY <2>1, <2>2
<1>2. RewardsTyped'
  BY <1>1 DEF RewardsInv, RewardsTyped, QuizTyped, DayTyped, XpTyped, RestTyped
<1>3. \A r \in Learners : Fits(learner'[r], transaction', event', taskStatus')
  BY <1>1 DEF RewardsInv
<1>4. \A a \in Awards : Settled(a)'
  BY <1>1 DEF RewardsInv, Settled, Owed
<1>5. Adding(profileStale', profileXp', event', promotions')
  BY <1>1 DEF RewardsInv
<1>6. Marks'
  BY <1>1 DEF RewardsInv, Marks
<1> QED
  BY <1>2, <1>3, <1>4, <1>5, <1>6 DEF RewardsInv

\* At first nothing is owed, and the sum of nothing is 0.
LEMMA RewardsInitInv == LearningInit => RewardsInv
<1> SUFFICES ASSUME LearningInit PROVE RewardsInv
  OBVIOUS
<1>1. RewardsTyped
  <2>1. QuizTyped
    <3>1. PICK open \in SUBSET QuizSessions :
            quizStatus = [s \in QuizSessions |-> IF s \in open THEN "IN_PROGRESS" ELSE "NONE"]
      BY DEF LearningInit
    <3> QED
      BY <3>1 DEF LearningInit, QuizTyped
  <2>2. DayTyped /\ XpTyped /\ RestTyped
    <3>0. 0 \in 0..Target /\ 0 \in 0..MaxRequests /\ 0 \in 0..MaxLearningFaults
      BY LearningAssumption
    <3>1. DayTyped
      BY <3>0 DEF LearningInit, DayTyped, TaskStatuses
    <3>2. XpTyped
      BY DEF LearningInit, XpTyped
    <3>3. RestTyped
      BY <3>0 DEF LearningInit, RestTyped
    <3> QED
      BY <3>1, <3>2, <3>3
  <2>3. learner \in [Learners -> LearnerWork]
    BY RestingIs DEF LearningInit
  <2> QED
    BY <2>1, <2>2, <2>3 DEF RewardsTyped
<1>2. \A r \in Learners : Fits(learner[r], transaction, event, taskStatus)
  BY RestingIs DEF LearningInit
<1>3. \A a \in Awards : Settled(a)
  BY AwardsAre DEF LearningInit, Settled, Owed
<1>4. Adding(profileStale, profileXp, event, promotions)
  <2>1. Total(event, Awards) = 0
    BY AwardsAre, TotalOfNothing DEF LearningInit
  <2>2. profileXp = 0 /\ promotions = 0 /\ ~(0 >= PromotionAt)
    BY LearningAssumption DEF LearningInit
  <2> QED
    BY <2>1, <2>2 DEF Adding
<1>5. Marks
  BY AwardsAre, LearningAssumption DEF LearningInit, Marks
<1> QED
  BY <1>1, <1>2, <1>3, <1>4, <1>5 DEF RewardsInv

\* The invariant says what RewardsConsistent says.
LEMMA RewardsInvSays == RewardsInv => RewardsConsistent
<1> SUFFICES ASSUME RewardsInv PROVE RewardsConsistent
  OBVIOUS
<1>1. LearningTypeOK
  BY DEF RewardsInv, RewardsTyped, QuizTyped, DayTyped, XpTyped, RestTyped, LearningTypeOK, LearnerWork, TaskStatuses
<1>2. RewardsAreSettled
  <2> SUFFICES ASSUME NEW a \in Awards \ interrupted, ~WorkedOn(a) PROVE ~Owed(a)
    BY DEF RewardsAreSettled, Owed
  <2>1. \A q \in Learners : learner[q].award # a
    BY DEF WorkedOn
  <2>2. ~ \E q \in Learners : Carries(learner[q], a, transaction[a], event[a])
    BY <2>1 DEF Carries
  <2> QED
    BY <2>2 DEF RewardsInv, Settled
<1>3. TotalIsTheEvents
  <2>1. Total(event, Awards) = MapThenSumSet(LAMBDA a : event[a], Awards)
    BY DEF Total
  <2>2. ~profileStale => profileStale = FALSE
    BY DEF RewardsInv, RewardsTyped, RestTyped
  <2> QED
    BY <2>1, <2>2 DEF RewardsInv, Adding, TotalIsTheEvents
<1>4. /\ \A s \in QuizSessions : quizStatus[s] = "SUBMITTED" => event[s] # 0
      /\ \A t \in Tasks : taskStatus[t] = "CLAIMED" => event[t] # 0
      /\ \A a \in Awards : event[a] \in {0, transaction[a]}
      /\ \A t \in Tasks : taskStatus[t] = "IN_PROGRESS" <=> taskProgress[t] < Target
      /\ transaction["answers"] # 0 => taskStatus["answers"] # "IN_PROGRESS"
  BY DEF RewardsInv, Marks
<1> QED
  BY <1>1, <1>2, <1>3, <1>4 DEF RewardsConsistent

\* Every step keeps the invariant.
LEMMA RewardsStepInv == RewardsInv /\ [LearningNext]_learningVars => RewardsInv'
<1> SUFFICES ASSUME RewardsInv, [LearningNext]_learningVars PROVE RewardsInv'
  OBVIOUS
<1>1. CASE BoostExpires \/ \E s \in QuizSessions, q \in Questions : CheckAnswer(s, q)
  BY <1>1, NoRequestInv
<1>2. ASSUME NEW r \in Learners, NEW mode \in {"START_OVER", "CONTINUE"}, StartQuiz(r, mode) PROVE RewardsInv'
  BY <1>2, StartQuizInv
<1>3. ASSUME NEW r \in Learners, StartOver(r) \/ ConsolidateInProgressSessions(r) \/ CreateSession(r) PROVE RewardsInv'
  BY <1>3, QuizSessionsInv
<1>4. ASSUME NEW r \in Learners,
             (\E s \in QuizSessions : CompleteSession(r, s)) \/ ReadLesson(r) \/ ReadChest(r) \/ \E t \in Tasks : ClaimTask(r, t)
      PROVE  RewardsInv'
  BY <1>4, ArrivalInv
<1>5. ASSUME NEW r \in Learners, MarkLessonCompleted(r) \/ SaveChest(r) PROVE RewardsInv'
  BY <1>5, MarkedInv
<1>6. ASSUME NEW r \in Learners, FindTransaction(r) \/ InsertTransaction(r) PROVE RewardsInv'
  BY <1>6, FindTransactionInv, InsertTransactionInv
<1>7. ASSUME NEW r \in Learners, ReadProfile(r) \/ FindEvent(r) \/ SaveProfile(r) PROVE RewardsInv'
  BY <1>7, ProfileAndEventInv, SaveProfileInv
<1>8. ASSUME NEW r \in Learners, CreditProfile(r) \/ EnsureScoringBoost(r) \/ FinishAward(r) PROVE RewardsInv'
  BY <1>8, CreditProfileInv, EnsureScoringBoostInv, FinishAwardInv
<1>9. ASSUME NEW r \in Learners, RecordActivity(r) \/ ReadToday(r) \/ ReconcileProgress(r) \/ RequestDies(r) PROVE RewardsInv'
  BY <1>9, RecordActivityInv, ReadTodayInv, ReconcileProgressInv, RequestDiesInv
<1>10. CASE UNCHANGED learningVars
  <2>1. RewardsTyped' /\ \A r \in Learners : Fits(learner'[r], transaction', event', taskStatus')
    BY <1>10 DEF RewardsInv, RewardsTyped, QuizTyped, DayTyped, XpTyped, RestTyped, learningVars
  <2>2. \A a \in Awards : Settled(a)'
    BY <1>10 DEF RewardsInv, Settled, Owed, learningVars
  <2>3. Adding(profileStale', profileXp', event', promotions') /\ Marks'
    BY <1>10 DEF RewardsInv, Marks, learningVars
  <2> QED
    BY <2>1, <2>2, <2>3 DEF RewardsInv
<1> QED
  BY <1>1, <1>2, <1>3, <1>4, <1>5, <1>6, <1>7, <1>8, <1>9, <1>10 DEF LearningNext

\* However the learner's requests interleave and die, what is marked is paid or
\* will be, the leaderboard mirrors the transactions and adds up to the total.
THEOREM RewardsAreConsistent == LearningSpec => []RewardsConsistent
<1>1. LearningInit => RewardsInv
  BY RewardsInitInv
<1>2. RewardsInv /\ [LearningNext]_learningVars => RewardsInv'
  BY RewardsStepInv
<1>3. RewardsInv => RewardsConsistent
  BY RewardsInvSays
<1> QED
  BY <1>1, <1>2, <1>3, PTL DEF LearningSpec

-----------------------------------------------------------------------------
(* The streak.                                                                *)

StreakRows ==
  {s \in [currentDays : 0..LastLocalDay, longestDays : 0..LastLocalDay, lastActivityDate : 0..LastLocalDay, freezes : Nat] :
     /\ s.currentDays <= s.lastActivityDate /\ s.currentDays <= s.longestDays
     /\ s.lastActivityDate # 0 => s.currentDays # 0}
StreakVisits ==
  [pc : {"idle", "show", "update", "add", "grant", "reverse"}, copy : StreakRows, behind : BOOLEAN, day : 0..LastLocalDay]

StreaksTyped ==
  /\ streak \in StreakRows /\ localDay \in Days /\ offset \in Offsets /\ monthly \subseteq Days
  /\ visit \in [Streakers -> StreakVisits] /\ visits \in 0..MaxVisits /\ granted \in Int
  /\ active \subseteq Days /\ frozen \subseteq Days /\ bridged \subseteq Days /\ stale \in BOOLEAN

\* How far the server's day may be ahead of the learner's.
Ahead == IF offset > 0 THEN 1 ELSE 0

\* The days without a gap that end on `last`.
RunOf(counted, last) == {d \in 1..last : d..last \subseteq counted}

\* What the row says of the days behind it: nothing counts after its last day,
\* and once it has lost its streak the day before today does not count.
RunHolds(row, grants, act, bridge, froze, today) ==
  /\ row.freezes = grants - Cardinality(froze) /\ froze \intersect monthly = {} /\ froze \subseteq bridge
  /\ row.lastActivityDate <= today
  /\ row.lastActivityDate = 0 => act \union bridge \subseteq 1..(today + Ahead - 2)
  /\ row.lastActivityDate # 0 => act \union bridge \subseteq 1..row.lastActivityDate
  /\ offset <= 0 =>
       /\ row.currentDays = Cardinality(RunOf(act \union bridge, row.lastActivityDate))
       /\ act \intersect bridge = {} /\ bridge \subseteq 1..(today - 1)

\* What a request may rely on.
VisitSound(v, row, counted, today, old) ==
  /\ v.pc # "idle" /\ v.behind = FALSE => v.copy = row
  /\ v.pc = "update" => v.day \in 1..today
  /\ v.day <= today + Ahead
  /\ old = FALSE /\ v.pc = "update" /\ v.behind = FALSE /\ row.lastActivityDate = 0 =>
       counted \subseteq 1..(v.day + Ahead - 2)

StreaksInv ==
  /\ StreaksTyped
  /\ \A r \in Streakers : VisitSound(visit[r], streak, active \union bridged, localDay, stale)
  /\ stale = FALSE => RunHolds(streak, granted, active, bridged, frozen, localDay)

\* Days are numbers, and finitely many of them are missed.
LEMMA MissedIs ==
  ASSUME NEW copy \in StreakRows, NEW day \in Days
  PROVE  /\ copy.lastActivityDate \in Nat /\ day \in Nat \ {0} /\ copy.freezes \in Nat
         /\ copy.currentDays \in Nat /\ copy.longestDays \in Nat
         /\ IsFiniteSet(MissedDays(copy, day)) /\ MissedDays(copy, day) \subseteq Nat \ {0}
         /\ \A d \in MissedDays(copy, day) : d > copy.lastActivityDate /\ d <= day - 1
         /\ IsFiniteSet(Passed(copy, day)) /\ IsFiniteSet(Frozen(copy, day))
         /\ Frozen(copy, day) \subseteq Passed(copy, day) /\ Passed(copy, day) \subseteq MissedDays(copy, day)
         /\ Frozen(copy, day) \intersect monthly = {}
<1>1. copy.lastActivityDate \in Nat /\ copy.freezes \in Nat /\ copy.currentDays \in Nat /\ copy.longestDays \in Nat
  BY StreaksAssumption DEF StreakRows
<1>2. day \in Nat \ {0}
  BY StreaksAssumption DEF Days
<1>3. IsFiniteSet(MissedDays(copy, day)) /\ MissedDays(copy, day) \subseteq Nat \ {0}
  <2>1. copy.lastActivityDate + 1 \in Int /\ day - 1 \in Int
    BY <1>1, <1>2
  <2>2. IsFiniteSet((copy.lastActivityDate + 1)..(day - 1))
    BY <2>1, FS_Interval
  <2>3. (copy.lastActivityDate + 1)..(day - 1) \subseteq Nat \ {0}
    BY <1>1, <1>2
  <2> QED
    BY <2>2, <2>3 DEF MissedDays
<1>4. \A d \in MissedDays(copy, day) : d > copy.lastActivityDate /\ d <= day - 1
  BY <1>1, <1>2 DEF MissedDays
<1>5. /\ Frozen(copy, day) \subseteq Passed(copy, day) /\ Passed(copy, day) \subseteq MissedDays(copy, day)
      /\ Frozen(copy, day) \intersect monthly = {}
  BY DEF Frozen, Passed
<1>6. IsFiniteSet(Passed(copy, day)) /\ IsFiniteSet(Frozen(copy, day))
  BY <1>3, <1>5, FS_Subset
<1> QED
  BY <1>1, <1>2, <1>3, <1>4, <1>5, <1>6

\* The unprotected days up to a day.
LEMMA UnprotectedUpTo ==
  ASSUME NEW copy \in StreakRows, NEW day \in Days, NEW d
  PROVE  LET U(e) == {u \in Unprotected(copy, day) : u <= e}
         IN /\ IsFiniteSet(U(d)) /\ Cardinality(U(d)) \in Nat
            /\ \A S \in SUBSET U(d) : IsFiniteSet(S) /\ Cardinality(S) \in Nat /\ Cardinality(S) <= Cardinality(U(d))
<1> DEFINE U == {u \in Unprotected(copy, day) : u <= d}
<1>1. U \subseteq MissedDays(copy, day)
  BY DEF Unprotected
<1>2. IsFiniteSet(U)
  BY <1>1, MissedIs, FS_Subset
<1>3. \A S \in SUBSET U : IsFiniteSet(S) /\ Cardinality(S) <= Cardinality(U)
  BY <1>2, FS_Subset
<1>4. \A S \in SUBSET U : Cardinality(S) \in Nat
  BY <1>3, FS_CardinalityType
<1>5. Cardinality(U) \in Nat
  BY <1>2, FS_CardinalityType
<1> HIDE DEF U
<1> QED
  BY <1>2, <1>3, <1>4, <1>5 DEF U

\* What was passed before a passed day was passed too.
LEMMA PassedIsPrefix ==
  ASSUME NEW copy \in StreakRows, NEW day \in Days, NEW d \in Passed(copy, day), NEW e \in MissedDays(copy, day), e <= d
  PROVE  e \in Passed(copy, day)
<1> DEFINE U(x) == {u \in Unprotected(copy, day) : u <= x}
<1>1. d \in Nat /\ e \in Nat /\ copy.freezes \in Nat /\ MissedDays(copy, day) \subseteq Nat
  BY MissedIs
<1>2. U(e) \subseteq U(d)
  BY <1>1 DEF Unprotected
<1>3. Cardinality(U(e)) <= Cardinality(U(d)) /\ Cardinality(U(e)) \in Nat /\ Cardinality(U(d)) \in Nat
  BY <1>2, UnprotectedUpTo
<1>4. Cardinality(U(d)) <= copy.freezes
  BY DEF Passed
<1>5. Cardinality(U(e)) <= copy.freezes
  BY <1>1, <1>3, <1>4
<1> QED
  BY <1>5 DEF Passed

\* A reset takes no more freezes than there are.
LEMMA FrozenAtMost ==
  ASSUME NEW copy \in StreakRows, NEW day \in Days
  PROVE  Cardinality(Frozen(copy, day)) \in Nat /\ Cardinality(Frozen(copy, day)) <= copy.freezes
<1> DEFINE F == Frozen(copy, day)
           Before(n) == {d \in F : d <= n}
           A == {n \in Nat : Cardinality(Before(n)) <= copy.freezes}
<1>0. IsFiniteSet(F) /\ F \subseteq Nat \ {0} /\ copy.freezes \in Nat /\ day \in Nat \ {0} /\ \A d \in F : d <= day - 1
  BY MissedIs
<1>1. 0 \in A
  <2>1. Before(0) = {}
    BY <1>0
  <2> QED
    BY <1>0, <2>1, FS_EmptySet
<1>2. ASSUME NEW n \in A PROVE n + 1 \in A
  <2>1. CASE n + 1 \in F
    <3>1. Before(n + 1) \subseteq {u \in Unprotected(copy, day) : u <= n + 1}
      BY DEF Frozen, Passed, Unprotected
    <3>2. Cardinality({u \in Unprotected(copy, day) : u <= n + 1}) <= copy.freezes
      BY <2>1 DEF Frozen, Passed
    <3>3. Cardinality(Before(n + 1)) \in Nat /\ Cardinality({u \in Unprotected(copy, day) : u <= n + 1}) \in Nat
          /\ Cardinality(Before(n + 1)) <= Cardinality({u \in Unprotected(copy, day) : u <= n + 1})
      BY <3>1, UnprotectedUpTo
    <3> QED
      BY <1>0, <3>2, <3>3
  <2>2. CASE n + 1 \notin F
    <3>1. Before(n + 1) = Before(n)
      BY <1>0, <2>2
    <3> QED
      BY <3>1
  <2> QED
    BY <2>1, <2>2
<1>3. A \in SUBSET Nat
  OBVIOUS
<1> HIDE DEF A
<1>4. A = Nat
  BY <1>1, <1>2, <1>3, NumbersByInduction
<1>5. day \in A /\ F = Before(day)
  BY <1>0, <1>4
<1>6. Cardinality(F) <= copy.freezes
  BY <1>5 DEF A
<1> QED
  BY <1>0, <1>6, FS_CardinalityType

\* What a reset makes of a row: either every missed day is passed and joins the
\* streak, or the streak is gone and the day before is none of those passed.
LEMMA ResetIs ==
  ASSUME NEW copy \in StreakRows, NEW day \in Days, StreakExpired(copy, day), NEW row, row = ResetExpired(copy, day)
  PROVE  /\ row \in StreakRows /\ copy.lastActivityDate # 0 /\ copy.lastActivityDate < day - 1
         /\ row.freezes = copy.freezes - Cardinality(Frozen(copy, day))
         /\ row.lastActivityDate # copy.lastActivityDate
         /\ \/ /\ Passed(copy, day) = (copy.lastActivityDate + 1)..(day - 1) /\ row.lastActivityDate = day - 1
               /\ row.currentDays = copy.currentDays + (day - 1 - copy.lastActivityDate)
            \/ /\ row.lastActivityDate = 0 /\ row.currentDays = 0
               /\ Passed(copy, day) \subseteq (copy.lastActivityDate + 1)..(day - 2)
<1> DEFINE T == copy.lastActivityDate
           P == Passed(copy, day)
           days == copy.currentDays + Cardinality(P)
<1>1. /\ T \in Nat /\ day \in Nat /\ copy.freezes \in Nat /\ copy.currentDays \in Nat /\ copy.longestDays \in Nat
      /\ T # 0 /\ day - T > 1 /\ copy.currentDays <= T /\ copy.currentDays <= copy.longestDays
      /\ day <= LastLocalDay /\ copy.longestDays <= LastLocalDay /\ LastLocalDay \in Nat /\ copy.currentDays > 0
  BY MissedIs, StreaksAssumption DEF StreakExpired, StreakRows, Days
<1>2. T + 1 \in Int /\ day - 1 \in Int /\ ~(T + 1 > day - 1)
  BY <1>1
<1>3. Cardinality((T + 1)..(day - 1)) = (day - 1) - (T + 1) + 1 /\ IsFiniteSet((T + 1)..(day - 1))
  BY <1>2, FS_Interval
<1>4. P \subseteq (T + 1)..(day - 1) /\ MissedDays(copy, day) = (T + 1)..(day - 1)
  BY MissedIs DEF MissedDays
<1>5. Cardinality(P) \in Nat /\ Cardinality(P) <= Cardinality((T + 1)..(day - 1))
  BY <1>3, <1>4, FS_Subset, FS_CardinalityType
<1>6. days \in Nat /\ days <= day - 1 /\ days <= LastLocalDay /\ copy.currentDays <= days
  <2>1. PICK n \in Nat : n = Cardinality(P)
    BY <1>5
  <2>2. n <= (day - 1) - T
    BY <1>1, <1>3, <1>5, <2>1
  <2>3. days = copy.currentDays + n
    BY <2>1
  <2> HIDE DEF days, P, T
  <2> QED
    BY <1>1, <2>2, <2>3
<1>7. Cardinality(Frozen(copy, day)) \in Nat /\ copy.freezes - Cardinality(Frozen(copy, day)) \in Nat
  BY <1>1, FrozenAtMost
<1>8. AtLeast(copy.longestDays, days) \in 0..LastLocalDay /\ AtLeast(copy.longestDays, days) >= days
  BY <1>1, <1>6 DEF AtLeast
<1> HIDE DEF T
<1>9. CASE P = MissedDays(copy, day)
  <2>1. row = [currentDays |-> days, longestDays |-> AtLeast(copy.longestDays, days),
               lastActivityDate |-> day - 1, freezes |-> copy.freezes - Cardinality(Frozen(copy, day))]
    BY <1>9 DEF ResetExpired
  <2>2. days = copy.currentDays + (day - 1 - T)
    BY <1>1, <1>3, <1>4, <1>9
  <2> HIDE DEF days, P
  <2>3. day - 1 \in 0..LastLocalDay /\ day - 1 # 0 /\ days # 0 /\ days \in 0..LastLocalDay /\ T < day - 1
    BY <1>1, <1>6, <2>2
  <2>4. row \in StreakRows
    BY <1>6, <1>7, <1>8, <2>1, <2>3 DEF StreakRows
  <2> QED
    BY <1>1, <1>4, <1>9, <2>1, <2>2, <2>3, <2>4 DEF T, P
<1>10. CASE P # MissedDays(copy, day)
  <2>1. row = [currentDays |-> 0, longestDays |-> AtLeast(copy.longestDays, days),
               lastActivityDate |-> 0, freezes |-> copy.freezes - Cardinality(Frozen(copy, day))]
    BY <1>10 DEF ResetExpired
  <2>2. PICK e \in (T + 1)..(day - 1) : e \notin P
    BY <1>4, <1>10
  <2>3. ASSUME NEW d \in P PROVE d \in (T + 1)..(day - 2)
    <3>1. d \in (T + 1)..(day - 1)
      BY <1>4
    <3>2. CASE d = day - 1
      <4>1. e <= d
        BY <1>1, <2>2, <3>2
      <4> QED
        BY <1>4, <2>2, <4>1, PassedIsPrefix
    <3> QED
      BY <1>1, <3>1, <3>2
  <2>4. P \subseteq (T + 1)..(day - 2)
    BY <2>3
  <2> HIDE DEF days, P
  <2>5. row \in StreakRows
    BY <1>1, <1>6, <1>7, <1>8, <2>1 DEF StreakRows
  <2> QED
    BY <1>1, <2>1, <2>4, <2>5 DEF T, P
<1> QED
  BY <1>9, <1>10

\* A run is finite, and its own last day is in it unless it is empty.
LEMMA RunIs ==
  ASSUME NEW counted, NEW last \in Nat
  PROVE  /\ IsFiniteSet(RunOf(counted, last)) /\ Cardinality(RunOf(counted, last)) \in Nat
         /\ RunOf(counted, last) \subseteq 1..last
         /\ Cardinality(RunOf(counted, last)) # 0 => last \in counted /\ last # 0
         /\ \A n \in Nat : n <= last /\ 1..last \subseteq counted => Cardinality(RunOf(counted, last)) >= n
<1>1. RunOf(counted, last) \subseteq 1..last
  BY DEF RunOf
<1>2. IsFiniteSet(1..last) /\ Cardinality(1..last) = last
  <2>1. 1 \in Int /\ last \in Int
    OBVIOUS
  <2> QED
    BY <2>1, FS_Interval
<1>3. IsFiniteSet(RunOf(counted, last)) /\ Cardinality(RunOf(counted, last)) \in Nat
  BY <1>1, <1>2, FS_Subset, FS_CardinalityType
<1>4. ASSUME Cardinality(RunOf(counted, last)) # 0 PROVE last \in counted /\ last # 0
  <2>1. RunOf(counted, last) # {}
    BY <1>4, FS_EmptySet
  <2>2. PICK d \in 1..last : d..last \subseteq counted
    BY <2>1 DEF RunOf
  <2> QED
    BY <2>2
<1>5. ASSUME NEW n \in Nat, n <= last, 1..last \subseteq counted PROVE Cardinality(RunOf(counted, last)) >= n
  <2>1. RunOf(counted, last) = 1..last
    BY <1>5 DEF RunOf
  <2> QED
    BY <1>2, <1>5, <2>1
<1> QED
  BY <1>1, <1>3, <1>4, <1>5

\* A run of days that goes on for more days.
LEMMA RunGoesOn ==
  ASSUME NEW counted \in SUBSET Nat, NEW last \in Nat \ {0}, NEW to \in Nat, last < to, last \in counted,
         counted \subseteq 1..last
  PROVE  Cardinality(RunOf(counted \union (last + 1)..to, to)) = Cardinality(RunOf(counted, last)) + (to - last)
<1> DEFINE more == (last + 1)..to
           R == RunOf(counted, last)
<1>1. ASSUME NEW d \in 1..last PROVE d..to \subseteq counted \union more <=> d..last \subseteq counted
  <2>1. ASSUME d..to \subseteq counted \union more, NEW x \in d..last PROVE x \in counted
    <3>1. x \in d..to /\ x \notin more
      OBVIOUS
    <3> QED
      BY <2>1, <3>1
  <2>2. ASSUME d..last \subseteq counted, NEW x \in d..to PROVE x \in counted \union more
    <3>1. x \in d..last \/ x \in more
      OBVIOUS
    <3> QED
      BY <2>2, <3>1
  <2> QED
    BY <2>1, <2>2
<1>2. ASSUME NEW d \in more PROVE d..to \subseteq counted \union more
  OBVIOUS
<1>3. RunOf(counted \union more, to) = R \union more
  <2>1. 1..to = 1..last \union more
    OBVIOUS
  <2> QED
    BY <1>1, <1>2, <2>1 DEF RunOf
<1>4. R \intersect more = {} /\ IsFiniteSet(R)
  BY RunIs
<1>5. IsFiniteSet(more) /\ Cardinality(more) = to - last
  <2>1. last + 1 \in Int /\ to \in Int /\ ~(last + 1 > to)
    OBVIOUS
  <2>2. IsFiniteSet((last + 1)..to) /\ Cardinality((last + 1)..to) = to - (last + 1) + 1
    BY <2>1, FS_Interval
  <2> QED
    BY <2>2
<1>6. Cardinality(R \union more) = Cardinality(R) + Cardinality(more) - Cardinality(R \intersect more)
  BY <1>4, <1>5, FS_Union
<1>7. Cardinality(R \intersect more) = 0 /\ Cardinality(R) \in Nat
  BY <1>4, FS_EmptySet, RunIs
<1> HIDE DEF R, more
<1>8. Cardinality(R \union more) = Cardinality(R) + (to - last)
  BY <1>5, <1>6, <1>7
<1> QED
  BY <1>3, <1>8 DEF R, more

\* A run that begins.
LEMMA RunBegins ==
  ASSUME NEW counted \in SUBSET Nat, NEW day \in Nat \ {0}, counted \subseteq 1..(day - 2)
  PROVE  Cardinality(RunOf(counted \union {day}, day)) = 1
<1>1. ASSUME NEW d \in 1..day, d..day \subseteq counted \union {day} PROVE d = day
  <2>1. CASE d < day
    <3>1. day - 1 \in d..day /\ day - 1 # day /\ day - 1 \notin 1..(day - 2)
      BY <2>1
    <3> QED
      BY <1>1, <3>1
  <2> QED
    BY <2>1
<1>2. day..day \subseteq counted \union {day} /\ day \in 1..day
  OBVIOUS
<1>3. RunOf(counted \union {day}, day) = {day}
  BY <1>1, <1>2 DEF RunOf
<1> QED
  BY <1>3, FS_Singleton

\* The rows and days of a state that is typed.
LEMMA StreakNumbers ==
  ASSUME StreaksTyped
  PROVE  /\ Ahead \in {0, 1} /\ offset \in Int /\ (offset <= 0 => Ahead = 0) /\ offset <= Ahead
         /\ localDay \in Nat \ {0} /\ localDay <= LastLocalDay /\ granted \in Int
         /\ \A row \in StreakRows : row.lastActivityDate \in Nat /\ row.currentDays \in Nat /\ row.freezes \in Nat
<1>1. offset \in -1..1
  BY StreaksAssumption DEF StreaksTyped
<1>2. Ahead \in {0, 1} /\ offset \in Int /\ (offset <= 0 => Ahead = 0) /\ offset <= Ahead
  BY <1>1 DEF Ahead
<1>3. localDay \in Nat \ {0} /\ localDay <= LastLocalDay /\ granted \in Int
  BY StreaksAssumption DEF StreaksTyped, Days
<1>4. \A row \in StreakRows : row.lastActivityDate \in Nat /\ row.currentDays \in Nat /\ row.freezes \in Nat
  BY StreaksAssumption DEF StreakRows
<1> QED
  BY <1>2, <1>3, <1>4

\* A reset: the days it passes are after all that counted.
LEMMA RunAfterReset ==
  ASSUME StreaksTyped, NEW copy \in StreakRows, NEW day \in Days, StreakExpired(copy, day), day <= localDay + Ahead,
         NEW row, row = ResetExpired(copy, day), RunHolds(copy, granted, active, bridged, frozen, localDay)
  PROVE  /\ RunHolds(row, granted, active, bridged \union Passed(copy, day), frozen \union Frozen(copy, day), localDay)
         /\ row.lastActivityDate = 0 => active \union bridged \union Passed(copy, day) \subseteq 1..(day - 2)
<1> DEFINE T == copy.lastActivityDate
           P == Passed(copy, day)
           F == Frozen(copy, day)
           more == (T + 1)..(day - 1)
           counted == active \union bridged
<1>1. /\ T \in Nat \ {0} /\ T < day - 1 /\ day \in Nat \ {0} /\ copy.currentDays \in Nat /\ copy.freezes \in Nat
      /\ row.freezes = copy.freezes - Cardinality(F)
  BY ResetIs, MissedIs
<1>2. \/ P = more /\ row.lastActivityDate = day - 1 /\ row.currentDays = copy.currentDays + (day - 1 - T)
      \/ row.lastActivityDate = 0 /\ row.currentDays = 0 /\ P \subseteq (T + 1)..(day - 2)
  BY ResetIs
<1>3. /\ Ahead \in {0, 1} /\ (offset <= 0 => Ahead = 0) /\ localDay \in Nat \ {0} /\ granted \in Int
  BY StreakNumbers
<1>4. counted \subseteq 1..T /\ IsFiniteSet(frozen) /\ frozen \subseteq bridged
  <2>1. counted \subseteq 1..T /\ frozen \subseteq 1..T /\ frozen \subseteq bridged
    BY <1>1 DEF RunHolds
  <2>2. IsFiniteSet(1..T)
    <3>1. 1 \in Int /\ T \in Int
      BY <1>1
    <3> QED
      BY <3>1, FS_Interval
  <2> QED
    BY <2>1, <2>2, FS_Subset
<1>5. P \subseteq more /\ F \subseteq P /\ IsFiniteSet(F) /\ F \intersect monthly = {}
  BY MissedIs DEF MissedDays
<1>6. counted \intersect more = {}
  BY <1>1, <1>4
<1>7. row.freezes = granted - Cardinality(frozen \union F)
  <2>1. frozen \intersect F = {}
    BY <1>4, <1>5, <1>6
  <2>2. Cardinality(frozen \union F) = Cardinality(frozen) + Cardinality(F) - Cardinality(frozen \intersect F)
    BY <1>4, <1>5, FS_Union
  <2>3. Cardinality(frozen) \in Nat /\ Cardinality(F) \in Nat /\ Cardinality(frozen \intersect F) = 0
    BY <1>4, <1>5, <2>1, FS_CardinalityType, FS_EmptySet
  <2>4. copy.freezes = granted - Cardinality(frozen)
    BY DEF RunHolds
  <2> QED
    BY <1>1, <1>3, <2>2, <2>3, <2>4
<1>8. (frozen \union F) \intersect monthly = {} /\ frozen \union F \subseteq bridged \union P
  BY <1>4, <1>5 DEF RunHolds
<1>9. row.lastActivityDate <= localDay
  BY <1>1, <1>2, <1>3
<1>10. row.lastActivityDate = 0 => active \union bridged \union P \subseteq 1..(day - 2)
  <2>1. SUFFICES ASSUME row.lastActivityDate = 0 PROVE active \union bridged \union P \subseteq 1..(day - 2)
    OBVIOUS
  <2>2. P \subseteq (T + 1)..(day - 2)
    BY <1>1, <1>2, <2>1
  <2> QED
    BY <1>1, <1>4, <2>2
<1>11. row.lastActivityDate = 0 => active \union (bridged \union P) \subseteq 1..(localDay + Ahead - 2)
  BY <1>1, <1>3, <1>10
<1>12. row.lastActivityDate # 0 => active \union (bridged \union P) \subseteq 1..row.lastActivityDate
  BY <1>1, <1>2, <1>4, <1>5
<1>13. ASSUME offset <= 0
       PROVE  /\ row.currentDays = Cardinality(RunOf(active \union (bridged \union P), row.lastActivityDate))
              /\ active \intersect (bridged \union P) = {} /\ bridged \union P \subseteq 1..(localDay - 1)
  <2>1. copy.currentDays = Cardinality(RunOf(counted, T)) /\ active \intersect bridged = {} /\ bridged \subseteq 1..(localDay - 1)
    BY <1>13 DEF RunHolds
  <2>2. active \intersect (bridged \union P) = {}
    BY <1>5, <1>6, <2>1
  <2>3. bridged \union P \subseteq 1..(localDay - 1)
    <3>1. day <= localDay
      BY <1>1, <1>3, <1>13
    <3>2. more \subseteq 1..(localDay - 1)
      BY <1>1, <1>3, <3>1
    <3> QED
      BY <1>5, <2>1, <3>2
  <2>4. row.currentDays = Cardinality(RunOf(active \union (bridged \union P), row.lastActivityDate))
    <3>1. CASE row.lastActivityDate = 0
      <4>1. RunOf(active \union (bridged \union P), 0) = {}
        BY DEF RunOf
      <4>2. row.currentDays = 0
        BY <1>1, <1>2, <3>1
      <4> QED
        BY <3>1, <4>1, <4>2, FS_EmptySet
    <3>2. CASE row.lastActivityDate # 0
      <4>1. P = more /\ row.lastActivityDate = day - 1 /\ row.currentDays = copy.currentDays + (day - 1 - T)
        BY <1>2, <3>2
      <4>2. copy.currentDays # 0
        BY <1>1 DEF StreakRows
      <4>3. T \in counted
        BY <1>1, <2>1, <4>2, RunIs
      <4>4. counted \in SUBSET Nat /\ day - 1 \in Nat
        BY <1>1, <1>4
      <4>5. Cardinality(RunOf(counted \union more, day - 1)) = Cardinality(RunOf(counted, T)) + ((day - 1) - T)
        BY <1>1, <1>4, <4>3, <4>4, RunGoesOn
      <4>6. active \union (bridged \union P) = counted \union more
        BY <4>1
      <4> QED
        BY <1>1, <2>1, <4>1, <4>5, <4>6
    <3> QED
      BY <3>1, <3>2
  <2> QED
    BY <2>2, <2>3, <2>4
<1> HIDE DEF P, F
<1>14. RunHolds(row, granted, active, bridged \union P, frozen \union F, localDay)
  BY <1>7, <1>8, <1>9, <1>11, <1>12, <1>13 DEF RunHolds
<1> QED
  BY <1>10, <1>14 DEF P, F

\* An activity of a later day: the streak goes on, or begins.
LEMMA RunAfterUpdate ==
  ASSUME StreaksTyped, NEW copy \in StreakRows, NEW day \in 1..localDay, ~StreakExpired(copy, day),
         copy.lastActivityDate < day, NEW row, row = Extended(copy, day),
         RunHolds(copy, granted, active, bridged, frozen, localDay),
         copy.lastActivityDate = 0 => active \union bridged \subseteq 1..(day + Ahead - 2)
  PROVE  RunHolds(row, granted, active \union {day}, bridged, frozen, localDay)
<1> DEFINE T == copy.lastActivityDate
           counted == active \union bridged
<1>1. /\ T \in Nat /\ copy.currentDays \in Nat /\ copy.freezes \in Nat /\ day \in Nat \ {0} /\ localDay \in Nat
      /\ Ahead \in {0, 1} /\ (offset <= 0 => Ahead = 0)
  BY StreakNumbers
<1>2. T # 0 => copy.currentDays # 0
  BY DEF StreakRows
<1>3. T # 0 => day - T = 1
  BY <1>1, <1>2 DEF StreakExpired
<1>4. /\ row.lastActivityDate = day /\ row.freezes = copy.freezes
      /\ row.currentDays = IF T # 0 THEN copy.currentDays + 1 ELSE 1
  <2>1. (T # 0 /\ day - T = 1) <=> T # 0
    BY <1>3
  <2> QED
    BY <2>1 DEF Extended, StreakRows
<1>5. counted \subseteq 1..day
  <2>1. CASE T = 0
    BY <1>1, <2>1
  <2>2. CASE T # 0
    BY <1>1, <1>3, <2>2 DEF RunHolds
  <2> QED
    BY <2>1, <2>2
<1>6. (active \union {day}) \union bridged \subseteq 1..day /\ (active \union {day}) \union bridged = counted \union {day}
  BY <1>1, <1>5
<1>7. ASSUME offset <= 0
      PROVE  /\ row.currentDays = Cardinality(RunOf((active \union {day}) \union bridged, day))
             /\ (active \union {day}) \intersect bridged = {} /\ bridged \subseteq 1..(localDay - 1)
  <2>1. copy.currentDays = Cardinality(RunOf(counted, T)) /\ active \intersect bridged = {} /\ bridged \subseteq 1..(localDay - 1)
    BY <1>7 DEF RunHolds
  <2>2. CASE T = 0
    <3>1. counted \subseteq 1..(day - 2)
      BY <1>1, <1>7, <2>2
    <3>2. counted \in SUBSET Nat
      BY <3>1
    <3>3. Cardinality(RunOf(counted \union {day}, day)) = 1
      BY <1>1, <3>1, <3>2, RunBegins
    <3>4. day \notin bridged
      BY <1>1, <3>1
    <3> QED
      BY <1>4, <1>6, <2>1, <2>2, <3>3, <3>4
  <2>3. CASE T # 0
    <3>1. counted \subseteq 1..T /\ T + 1 = day /\ T < day /\ (T + 1)..day = {day}
      BY <1>1, <1>3, <2>3 DEF RunHolds
    <3>2. counted \in SUBSET Nat
      BY <3>1
    <3>3. T \in counted
      BY <1>1, <1>2, <2>1, <2>3, RunIs
    <3>4. Cardinality(RunOf(counted \union (T + 1)..day, day)) = Cardinality(RunOf(counted, T)) + (day - T)
      BY <1>1, <2>3, <3>1, <3>2, <3>3, RunGoesOn
    <3>5. day \notin bridged
      BY <1>1, <3>1
    <3>6. day - T = 1
      BY <1>3, <2>3
    <3> QED
      BY <1>1, <1>4, <1>6, <2>1, <2>3, <3>1, <3>4, <3>5, <3>6
  <2> QED
    BY <2>2, <2>3
<1>8. /\ copy.freezes = granted - Cardinality(frozen) /\ frozen \intersect monthly = {} /\ frozen \subseteq bridged
  BY DEF RunHolds
<1> HIDE DEF counted
<1> QED
  BY <1>1, <1>4, <1>6, <1>7, <1>8 DEF RunHolds

\* A second activity of today, a freeze more or less, and midnight.
LEMMA RunAfterToday ==
  ASSUME StreaksTyped, NEW row \in StreakRows, row.lastActivityDate = localDay,
         RunHolds(row, granted, active, bridged, frozen, localDay)
  PROVE  RunHolds(row, granted, active \union {localDay}, bridged, frozen, localDay)
<1>1. localDay \in Nat \ {0} /\ row.currentDays \in Nat
  BY StreakNumbers
<1>2. active \union bridged \subseteq 1..localDay
  BY <1>1 DEF RunHolds
<1>3. (active \union {localDay}) \union bridged \subseteq 1..localDay
  BY <1>1, <1>2
<1>4. ASSUME offset <= 0
      PROVE  /\ (active \union {localDay}) \union bridged = active \union bridged
             /\ (active \union {localDay}) \intersect bridged = {} /\ bridged \subseteq 1..(localDay - 1)
             /\ row.currentDays = Cardinality(RunOf(active \union bridged, localDay))
  <2>1. row.currentDays = Cardinality(RunOf(active \union bridged, localDay)) /\ active \intersect bridged = {}
        /\ bridged \subseteq 1..(localDay - 1)
    BY <1>4 DEF RunHolds
  <2>2. row.currentDays # 0
    BY <1>1 DEF StreakRows
  <2>3. localDay \in active \union bridged
    BY <1>1, <2>1, <2>2, RunIs
  <2>4. localDay \notin bridged
    BY <1>1, <2>1
  <2> QED
    BY <2>1, <2>3, <2>4
<1> QED
  BY <1>1, <1>3, <1>4 DEF RunHolds

LEMMA RunAfterFreezes ==
  ASSUME StreaksTyped, NEW copy \in StreakRows, NEW row \in StreakRows, NEW c \in Int, NEW grants, grants = granted + c,
         row.freezes = copy.freezes + c, row.lastActivityDate = copy.lastActivityDate, row.currentDays = copy.currentDays,
         RunHolds(copy, granted, active, bridged, frozen, localDay)
  PROVE  RunHolds(row, grants, active, bridged, frozen, localDay)
<1>1. granted \in Int /\ copy.freezes \in Nat
  BY StreakNumbers
<1>2. copy.freezes = granted - Cardinality(frozen)
  BY DEF RunHolds
<1>3. IsFiniteSet(frozen)
  <2>1. 1 \in Int /\ LastLocalDay \in Int
    BY StreaksAssumption
  <2>2. IsFiniteSet(Days)
    BY <2>1, FS_Interval DEF Days
  <2> QED
    BY <2>2, FS_Subset DEF StreaksTyped
<1>4. Cardinality(frozen) \in Nat
  BY <1>3, FS_CardinalityType
<1>5. row.freezes = grants - Cardinality(frozen)
  BY <1>1, <1>2, <1>4
<1>6. /\ frozen \intersect monthly = {} /\ frozen \subseteq bridged
      /\ row.lastActivityDate <= localDay
      /\ row.lastActivityDate = 0 => active \union bridged \subseteq 1..(localDay + Ahead - 2)
      /\ row.lastActivityDate # 0 => active \union bridged \subseteq 1..row.lastActivityDate
      /\ offset <= 0 =>
           /\ row.currentDays = Cardinality(RunOf(active \union bridged, row.lastActivityDate))
           /\ active \intersect bridged = {} /\ bridged \subseteq 1..(localDay - 1)
  BY DEF RunHolds
<1> QED
  BY <1>5, <1>6 DEF RunHolds

LEMMA RunAfterMidnight ==
  ASSUME StreaksTyped, NEW today, today = localDay + 1, RunHolds(streak, granted, active, bridged, frozen, localDay)
  PROVE  RunHolds(streak, granted, active, bridged, frozen, today)
<1>1. /\ localDay \in Nat \ {0} /\ Ahead \in {0, 1} /\ streak.lastActivityDate \in Nat
  BY StreakNumbers DEF StreaksTyped
<1>2. 1..(localDay + Ahead - 2) \subseteq 1..(today + Ahead - 2) /\ 1..(localDay - 1) \subseteq 1..(today - 1)
  BY <1>1
<1>3. streak.lastActivityDate <= localDay => streak.lastActivityDate <= today
  BY <1>1
<1>4. /\ streak.freezes = granted - Cardinality(frozen) /\ frozen \intersect monthly = {} /\ frozen \subseteq bridged
      /\ streak.lastActivityDate # 0 => active \union bridged \subseteq 1..streak.lastActivityDate
  BY DEF RunHolds
<1>5. /\ streak.lastActivityDate <= today
      /\ streak.lastActivityDate = 0 => active \union bridged \subseteq 1..(today + Ahead - 2)
  BY <1>2, <1>3 DEF RunHolds
<1>6. offset <= 0 =>
        /\ streak.currentDays = Cardinality(RunOf(active \union bridged, streak.lastActivityDate))
        /\ active \intersect bridged = {} /\ bridged \subseteq 1..(today - 1)
  BY <1>2 DEF RunHolds
<1> QED
  BY <1>4, <1>5, <1>6 DEF RunHolds

\* A step after which everything holds again, the two zones and the plan being
\* what they were.
LEMMA StreakStep ==
  ASSUME StreaksInv, UNCHANGED <<offset, monthly>>, StreaksTyped',
         \A r \in Streakers : VisitSound(visit'[r], streak', active' \union bridged', localDay', stale'),
         stale' = FALSE => RunHolds(streak', granted', active', bridged', frozen', localDay')
  PROVE  StreaksInv'
<1>1. Ahead' = Ahead
  BY DEF Ahead
<1>2. ASSUME NEW r \in Streakers PROVE VisitSound(visit[r], streak, active \union bridged, localDay, stale)'
  BY <1>1 DEF VisitSound
<1>3. ASSUME stale' = FALSE PROVE RunHolds(streak, granted, active, bridged, frozen, localDay)'
  BY <1>1, <1>3 DEF RunHolds, RunOf
<1> QED
  BY <1>2, <1>3 DEF StreaksInv

\* A request that has left relies on nothing.
LEMMA NotVisitingIs ==
  ASSUME StreaksTyped
  PROVE  /\ NoStreak \in StreakRows /\ NotVisiting \in StreakVisits /\ NotVisiting.pc = "idle"
         /\ \A row, counted, today, old : today \in Nat => VisitSound(NotVisiting, row, counted, today, old)
<1>1. NoStreak \in StreakRows
  BY StreaksAssumption DEF NoStreak, StreakRows
<1>2. NotVisiting \in StreakVisits
  BY <1>1, StreaksAssumption DEF NotVisiting, StreakVisits
<1>3. NotVisiting.pc = "idle" /\ NotVisiting.day = 0
  BY DEF NotVisiting
<1>4. Ahead \in {0, 1}
  BY StreakNumbers
<1>5. ASSUME NEW row, NEW counted, NEW today \in Nat, NEW old PROVE VisitSound(NotVisiting, row, counted, today, old)
  BY <1>3, <1>4 DEF VisitSound
<1> QED
  BY <1>1, <1>2, <1>3, <1>5

\* Only the request moves: it loads the row, or leaves.
LEMMA OnlyVisits ==
  ASSUME StreaksInv, NEW r \in Streakers, NEW v \in StreakVisits, visit' = [visit EXCEPT ![r] = v],
         UNCHANGED <<streak, streakWorld, granted, streakHistory, stale>>, visits' \in 0..MaxVisits,
         VisitSound(v, streak, active \union bridged, localDay, stale)
  PROVE  StreaksInv'
<1>1. UNCHANGED <<streak, localDay, offset, monthly, granted, active, frozen, bridged, stale>>
  BY DEF streakWorld, streakHistory
<1>2. StreaksTyped'
  BY <1>1 DEF StreaksInv, StreaksTyped
<1>3. \A q \in Streakers : visit'[q] = IF q = r THEN v ELSE visit[q]
  BY DEF StreaksInv, StreaksTyped
<1>4. \A q \in Streakers : VisitSound(visit'[q], streak', active' \union bridged', localDay', stale')
  BY <1>1, <1>3 DEF StreaksInv
<1>5. stale' = FALSE => RunHolds(streak', granted', active', bridged', frozen', localDay')
  BY <1>1 DEF StreaksInv
<1> QED
  BY <1>1, <1>2, <1>4, <1>5, StreakStep

\* A request saves a row: what others hold is behind if it changed.
LEMMA StreakSaved ==
  ASSUME StreaksInv, NEW r \in Streakers, NEW row \in StreakRows, NEW same, NEW after \in StreakVisits,
         Saves(r, row, same, after), UNCHANGED <<streakWorld, visits>>,
         granted' \in Int, active' \subseteq Days, frozen' \subseteq Days, bridged' \subseteq Days,
         VisitSound(after, row, active' \union bridged', localDay, stale'),
         row = streak /\ row.lastActivityDate = 0 => active' \union bridged' \subseteq active \union bridged,
         stale = FALSE /\ (visit[r].behind = FALSE \/ streak \in same) =>
           RunHolds(row, granted', active', bridged', frozen', localDay)
  PROVE  StreaksInv'
<1>1. UNCHANGED <<localDay, offset, monthly, visits>>
  BY DEF streakWorld
<1>2. /\ streak' = row /\ stale' = (stale \/ (visit[r].behind /\ streak \notin same))
      /\ visit' = [q \in Streakers |-> IF q = r THEN after ELSE Outdated(visit[q], row)]
  BY DEF Saves
<1>3. StreaksTyped /\ stale \in BOOLEAN /\ \A q \in Streakers : visit[q] \in StreakVisits /\ visit[q].behind \in BOOLEAN
  BY DEF StreaksInv, StreaksTyped, StreakVisits
<1>4. stale' \in BOOLEAN /\ (stale' = FALSE => stale = FALSE /\ (visit[r].behind = FALSE \/ streak \in same))
  BY <1>2, <1>3
<1>5. ASSUME NEW q \in Streakers, q # r
      PROVE  LET v == visit[q]
                 w == visit'[q]
             IN /\ w \in StreakVisits /\ w.pc = v.pc /\ w.copy = v.copy /\ w.day = v.day
                /\ w.behind = FALSE => v.behind = FALSE /\ (v.pc = "idle" \/ row = streak)
  <2> DEFINE v == visit[q]
             b == v.behind \/ (v.pc # "idle" /\ row # streak)
             w == [v EXCEPT !.behind = b]
  <2>1. visit'[q] = w
    BY <1>2, <1>5 DEF Outdated
  <2>2. v \in StreakVisits /\ b \in BOOLEAN
    BY <1>3
  <2> HIDE DEF b
  <2>3. w \in StreakVisits /\ w.pc = v.pc /\ w.copy = v.copy /\ w.day = v.day /\ w.behind = b
    BY <2>2 DEF StreakVisits
  <2>4. b = FALSE => v.behind = FALSE /\ (v.pc = "idle" \/ row = streak)
    BY <1>3 DEF b
  <2> HIDE DEF w
  <2> QED
    BY <2>1, <2>3, <2>4
<1>6. visit'[r] = after
  BY <1>2
<1>7. visit' \in [Streakers -> StreakVisits]
  BY <1>2, <1>5, <1>6
<1>8. StreaksTyped'
  BY <1>1, <1>2, <1>3, <1>4, <1>7 DEF StreaksTyped
<1>9. ASSUME NEW q \in Streakers PROVE VisitSound(visit'[q], row, active' \union bridged', localDay, stale')
  <2>1. CASE q = r
    BY <1>6, <2>1
  <2>2. CASE q # r
    <3> DEFINE v == visit[q]
               w == visit'[q]
    <3>1. VisitSound(v, streak, active \union bridged, localDay, stale)
      BY DEF StreaksInv
    <3>2. /\ w.pc = v.pc /\ w.copy = v.copy /\ w.day = v.day
          /\ w.behind = FALSE => v.behind = FALSE /\ (v.pc = "idle" \/ row = streak)
      BY <1>5, <2>2
    <3> HIDE DEF v, w
    <3>3. w.pc # "idle" /\ w.behind = FALSE => w.copy = row
      BY <3>1, <3>2 DEF VisitSound
    <3>4. (w.pc = "update" => w.day \in 1..localDay) /\ w.day <= localDay + Ahead
      BY <3>1, <3>2 DEF VisitSound
    <3>5. ASSUME stale' = FALSE, w.pc = "update", w.behind = FALSE, row.lastActivityDate = 0
          PROVE  active' \union bridged' \subseteq 1..(w.day + Ahead - 2)
      <4>1. row = streak /\ v.behind = FALSE /\ stale = FALSE
        BY <1>4, <3>2, <3>5
      <4>2. active \union bridged \subseteq 1..(v.day + Ahead - 2)
        BY <3>1, <3>2, <3>5, <4>1 DEF VisitSound
      <4>3. active' \union bridged' \subseteq active \union bridged
        BY <3>5, <4>1
      <4> QED
        BY <3>2, <4>2, <4>3
    <3>6. VisitSound(w, row, active' \union bridged', localDay, stale')
      BY <3>3, <3>4, <3>5 DEF VisitSound
    <3> QED
      BY <3>6 DEF w
  <2> QED
    BY <2>1, <2>2
<1>10. stale' = FALSE => RunHolds(row, granted', active', bridged', frozen', localDay)
  BY <1>4
<1> QED
  BY <1>1, <1>2, <1>8, <1>9, <1>10, StreakStep

\* A request loads the row.
LEMMA LoadsInv ==
  ASSUME StreaksInv, NEW r \in Streakers, NEW purpose \in {"show", "update", "add", "grant", "reverse"},
         NEW day \in 0..LastLocalDay, Loads(r, purpose, day), day <= localDay + Ahead,
         purpose = "update" => day = localDay
  PROVE  StreaksInv'
<1> DEFINE v == [NotVisiting EXCEPT !.pc = purpose, !.copy = streak, !.day = day]
<1>1. StreaksTyped /\ streak \in StreakRows /\ visits \in 0..MaxVisits
  BY DEF StreaksInv, StreaksTyped
<1>2. /\ v \in StreakVisits /\ v.pc = purpose /\ v.copy = streak /\ v.day = day /\ v.behind = FALSE
  <2>1. NotVisiting \in StreakVisits /\ NotVisiting.behind = FALSE
    BY <1>1, NotVisitingIs DEF NotVisiting
  <2> QED
    BY <1>1, <2>1 DEF StreakVisits
<1>3. /\ visit' = [visit EXCEPT ![r] = v] /\ visits < MaxVisits /\ visits' = visits + 1
      /\ UNCHANGED <<streak, streakWorld, granted, streakHistory, stale>>
  BY DEF Loads
<1> HIDE DEF v
<1>4. visits' \in 0..MaxVisits
  BY <1>1, <1>3, StreaksAssumption
<1>5. localDay \in Nat \ {0}
  BY <1>1, StreakNumbers
<1>6. ASSUME stale = FALSE, v.pc = "update", streak.lastActivityDate = 0
      PROVE  active \union bridged \subseteq 1..(v.day + Ahead - 2)
  <2>1. RunHolds(streak, granted, active, bridged, frozen, localDay)
    BY <1>6 DEF StreaksInv
  <2>2. v.day = localDay
    BY <1>2, <1>6
  <2>3. active \union bridged \subseteq 1..(localDay + Ahead - 2)
    BY <1>6, <2>1 DEF RunHolds
  <2> QED
    BY <2>2, <2>3
<1>7. (v.pc = "update" => v.day \in 1..localDay) /\ v.day <= localDay + Ahead
  BY <1>2, <1>5
<1>8. VisitSound(v, streak, active \union bridged, localDay, stale)
  BY <1>2, <1>6, <1>7 DEF VisitSound
<1> QED
  BY <1>2, <1>3, <1>4, <1>8, OnlyVisits

\* A request leaves.
LEMMA LeavesInv ==
  ASSUME StreaksInv, NEW r \in Streakers, Leaves(r),
         UNCHANGED <<streak, streakWorld, visits, granted, streakHistory, stale>>
  PROVE  StreaksInv'
<1>1. StreaksTyped /\ visits' \in 0..MaxVisits
  BY DEF StreaksInv, StreaksTyped
<1>2. localDay \in Nat
  BY <1>1, StreakNumbers
<1>3. NotVisiting \in StreakVisits /\ VisitSound(NotVisiting, streak, active \union bridged, localDay, stale)
  BY <1>1, <1>2, NotVisitingIs
<1>4. visit' = [visit EXCEPT ![r] = NotVisiting]
  BY DEF Leaves
<1> QED
  BY <1>1, <1>3, <1>4, OnlyVisits

\* What a request that is under way holds.
LEMMA VisitIs ==
  ASSUME StreaksInv, NEW r \in Streakers, visit[r].pc # "idle"
  PROVE  /\ visit[r] \in StreakVisits /\ visit[r].copy \in StreakRows /\ visit[r].day \in Nat
         /\ visit[r].day # 0 => visit[r].day \in Days
         /\ visit[r].behind \in BOOLEAN /\ visit[r].day <= localDay + Ahead
         /\ visit[r].behind = FALSE => visit[r].copy = streak
         /\ visit[r].pc = "update" => visit[r].day \in 1..localDay
<1>1. visit[r] \in StreakVisits /\ VisitSound(visit[r], streak, active \union bridged, localDay, stale)
  BY DEF StreaksInv, StreaksTyped
<1>2. visit[r].copy \in StreakRows /\ visit[r].day \in 0..LastLocalDay /\ visit[r].behind \in BOOLEAN
  BY <1>1 DEF StreakVisits
<1>3. visit[r].day \in Nat /\ (visit[r].day # 0 => visit[r].day \in Days)
  BY <1>2, StreaksAssumption DEF Days
<1>4. /\ visit[r].day <= localDay + Ahead
      /\ visit[r].behind = FALSE => visit[r].copy = streak
      /\ visit[r].pc = "update" => visit[r].day \in 1..localDay
  BY <1>1 DEF VisitSound
<1> QED
  BY <1>1, <1>2, <1>3, <1>4

\* A reset that finds the row it would write.
LEMMA ResetAgain ==
  ASSUME StreaksInv, NEW r \in Streakers, SaveReset(r), streak = ResetExpired(visit[r].copy, visit[r].day)
  PROVE  StreaksInv'
<1> DEFINE v == visit[r]
           behindStill == v.behind /\ v.pc = "update" /\ v.day # localDay
           after == [v EXCEPT !.copy = streak, !.behind = behindStill]
<1>1. StreaksTyped /\ streak \in StreakRows /\ granted \in Int /\ active \subseteq Days /\ frozen \subseteq Days /\ bridged \subseteq Days
  BY DEF StreaksInv, StreaksTyped
<1>2. /\ v.pc # "idle" /\ v.day # 0 /\ StreakExpired(v.copy, v.day)
      /\ Saves(r, streak, {streak}, after) /\ UNCHANGED <<frozen, bridged, streakWorld, visits, granted, active>>
  BY DEF SaveReset, ExpiredNow
<1>3. /\ v \in StreakVisits /\ v.copy \in StreakRows /\ v.day \in Days /\ v.day <= localDay + Ahead /\ v.behind \in BOOLEAN
      /\ (v.behind = FALSE => v.copy = streak) /\ (v.pc = "update" => v.day \in 1..localDay)
  BY <1>2, VisitIs
<1>4. streak.lastActivityDate # v.copy.lastActivityDate
  BY <1>2, <1>3, ResetIs
<1>5. v.behind = TRUE
  BY <1>3, <1>4
<1> HIDE DEF v
<1>6. behindStill \in BOOLEAN
  BY <1>3
<1>7. behindStill = FALSE => v.pc # "update" \/ v.day = localDay
  BY <1>5
<1> HIDE DEF behindStill
<1>8. after \in StreakVisits /\ after.pc = v.pc /\ after.copy = streak /\ after.day = v.day /\ after.behind = behindStill
  BY <1>1, <1>3, <1>6 DEF StreakVisits
<1> HIDE DEF after
<1>9. UNCHANGED <<streak, stale>>
  <2>1. streak' = streak /\ stale' = (stale \/ (v.behind /\ streak \notin {streak}))
    BY <1>2 DEF Saves, v
  <2>2. stale \in BOOLEAN
    BY <1>1 DEF StreaksTyped
  <2> QED
    BY <2>1, <2>2
<1>10. stale = FALSE => RunHolds(streak, granted, active, bridged, frozen, localDay)
  BY DEF StreaksInv
<1>11. ASSUME stale = FALSE, after.pc = "update", after.behind = FALSE, streak.lastActivityDate = 0
       PROVE  active \union bridged \subseteq 1..(after.day + Ahead - 2)
  <2>1. after.day = localDay
    BY <1>7, <1>8, <1>11
  <2>2. active \union bridged \subseteq 1..(localDay + Ahead - 2)
    BY <1>10, <1>11 DEF RunHolds
  <2> QED
    BY <2>1, <2>2
<1>12. VisitSound(after, streak, active \union bridged, localDay, stale)
  BY <1>3, <1>8, <1>11 DEF VisitSound
<1>13. VisitSound(after, streak, active' \union bridged', localDay, stale')
  BY <1>2, <1>9, <1>12
<1>14. stale = FALSE => RunHolds(streak, granted', active', bridged', frozen', localDay)
  <2>1. UNCHANGED <<granted, active, bridged, frozen>>
    BY <1>2 DEF streakWorld
  <2> QED
    BY <1>10, <2>1
<1>15. granted' \in Int /\ active' \subseteq Days /\ frozen' \subseteq Days /\ bridged' \subseteq Days
       /\ active' \union bridged' \subseteq active \union bridged
  BY <1>1, <1>2
<1>16. PICK row, held, same : row = streak /\ held = after /\ same = {row}
  OBVIOUS
<1>17. /\ row \in StreakRows /\ held \in StreakVisits /\ Saves(r, row, same, held)
       /\ VisitSound(held, row, active' \union bridged', localDay, stale')
       /\ stale = FALSE /\ (visit[r].behind = FALSE \/ streak \in same) =>
            RunHolds(row, granted', active', bridged', frozen', localDay)
       /\ row = streak /\ row.lastActivityDate = 0 => active' \union bridged' \subseteq active \union bridged
  BY <1>1, <1>2, <1>8, <1>13, <1>14, <1>15, <1>16
<1>18. UNCHANGED <<streakWorld, visits>>
  BY <1>2
<1> QED
  BY <1>15, <1>17, <1>18, StreakSaved

\* A reset that changes the row.
LEMMA ResetChanges ==
  ASSUME StreaksInv, NEW r \in Streakers, SaveReset(r), streak # ResetExpired(visit[r].copy, visit[r].day)
  PROVE  StreaksInv'
<1> DEFINE v == visit[r]
           row == ResetExpired(v.copy, v.day)
           behindStill == v.behind /\ v.pc = "update" /\ v.day # localDay
           after == [v EXCEPT !.copy = row, !.behind = behindStill]
           P == Passed(v.copy, v.day)
           F == Frozen(v.copy, v.day)
<1>1. StreaksTyped /\ granted \in Int /\ active \subseteq Days /\ frozen \subseteq Days /\ bridged \subseteq Days /\ stale \in BOOLEAN
  BY DEF StreaksInv, StreaksTyped
<1>2. /\ v.pc # "idle" /\ v.day # 0 /\ StreakExpired(v.copy, v.day)
      /\ Saves(r, row, {row}, after) /\ UNCHANGED <<streakWorld, visits, granted, active>>
      /\ frozen' = frozen \union F /\ bridged' = bridged \union P
  BY DEF SaveReset, ExpiredNow
<1>3. /\ v \in StreakVisits /\ v.copy \in StreakRows /\ v.day \in Days /\ v.day <= localDay + Ahead /\ v.behind \in BOOLEAN
      /\ (v.behind = FALSE => v.copy = streak) /\ (v.pc = "update" => v.day \in 1..localDay)
  BY <1>2, VisitIs
<1>4. row \in StreakRows
  BY <1>2, <1>3, ResetIs
<1>5. P \subseteq Days /\ F \subseteq Days
  <2>1. P \subseteq Nat \ {0} /\ F \subseteq P /\ \A d \in P : d <= v.day - 1
    BY <1>3, MissedIs
  <2>2. v.day <= LastLocalDay /\ v.day \in Nat /\ LastLocalDay \in Nat
    BY <1>3, StreaksAssumption DEF Days
  <2> HIDE DEF P, F
  <2>3. ASSUME NEW d \in P PROVE d \in 1..LastLocalDay
    <3>1. d \in Nat \ {0} /\ d <= v.day - 1
      BY <2>1
    <3> QED
      BY <2>2, <3>1
  <2> QED
    BY <2>1, <2>3 DEF Days
<1>6. ASSUME stale = FALSE, v.behind = FALSE
      PROVE  /\ RunHolds(row, granted, active, bridged \union P, frozen \union F, localDay)
             /\ row.lastActivityDate = 0 => active \union bridged \union P \subseteq 1..(v.day - 2)
  <2>1. v.copy = streak
    BY <1>3, <1>6
  <2>2. RunHolds(v.copy, granted, active, bridged, frozen, localDay)
    BY <1>6, <2>1 DEF StreaksInv
  <2> HIDE DEF v
  <2> QED
    BY <1>1, <1>2, <1>3, <2>2, RunAfterReset
<1>7. /\ stale' = (stale \/ (v.behind /\ streak \notin {row})) /\ streak # row
  BY <1>2 DEF Saves
<1>8. stale' = FALSE => stale = FALSE /\ v.behind = FALSE
  BY <1>1, <1>3, <1>7
<1> HIDE DEF v, P, F, row
<1>9. behindStill \in BOOLEAN
  BY <1>3
<1> HIDE DEF behindStill
<1>10. after \in StreakVisits /\ after.pc = v.pc /\ after.copy = row /\ after.day = v.day /\ after.behind = behindStill
  BY <1>3, <1>4, <1>9 DEF StreakVisits
<1> HIDE DEF after
<1>11. ASSUME stale' = FALSE, after.pc = "update", after.behind = FALSE, row.lastActivityDate = 0
       PROVE  active \union (bridged \union P) \subseteq 1..(after.day + Ahead - 2)
  <2>1. active \union bridged \union P \subseteq 1..(v.day - 2)
    BY <1>6, <1>8, <1>11
  <2>2. Ahead \in {0, 1} /\ v.day \in Nat
    BY <1>1, <1>3, StreakNumbers, StreaksAssumption DEF Days
  <2>3. 1..(v.day - 2) \subseteq 1..(v.day + Ahead - 2)
    BY <2>2
  <2> QED
    BY <1>10, <2>1, <2>3
<1>12. VisitSound(after, row, active \union (bridged \union P), localDay, stale')
  BY <1>3, <1>10, <1>11 DEF VisitSound
<1>13. VisitSound(after, row, active' \union bridged', localDay, stale')
  BY <1>2, <1>12
<1>14. ASSUME stale = FALSE, v.behind = FALSE \/ streak \in {row}
       PROVE  RunHolds(row, granted', active', bridged', frozen', localDay)
  <2>1. RunHolds(row, granted, active, bridged \union P, frozen \union F, localDay)
    BY <1>6, <1>7, <1>14
  <2>2. UNCHANGED <<granted, active>>
    BY <1>2 DEF streakWorld
  <2> QED
    BY <1>2, <2>1, <2>2
<1>15. granted' \in Int /\ active' \subseteq Days /\ frozen' \subseteq Days /\ bridged' \subseteq Days
  BY <1>1, <1>2, <1>5
<1>16. row # streak
  BY <1>7
<1>17. visit[r].behind = FALSE <=> v.behind = FALSE
  BY DEF v
<1>18. PICK new, held, same : new = row /\ held = after /\ same = {new}
  OBVIOUS
<1>19. /\ new \in StreakRows /\ held \in StreakVisits /\ Saves(r, new, same, held)
       /\ new = streak /\ new.lastActivityDate = 0 => active' \union bridged' \subseteq active \union bridged
       /\ VisitSound(held, new, active' \union bridged', localDay, stale')
       /\ stale = FALSE /\ (visit[r].behind = FALSE \/ streak \in same) =>
            RunHolds(new, granted', active', bridged', frozen', localDay)
  BY <1>2, <1>4, <1>10, <1>13, <1>14, <1>16, <1>17, <1>18
<1>20. UNCHANGED <<streakWorld, visits>>
  BY <1>2
<1> QED
  BY <1>15, <1>19, <1>20, StreakSaved

\* The reset that is saved before a request goes on.
LEMMA SaveResetInv ==
  ASSUME StreaksInv, NEW r \in Streakers, SaveReset(r)
  PROVE  StreaksInv'
  BY ResetAgain, ResetChanges

\* The streak that an activity makes is a row.
LEMMA ExtendedIs ==
  ASSUME NEW copy \in StreakRows, NEW day \in Days, copy.lastActivityDate < day
  PROVE  Extended(copy, day) \in StreakRows /\ Extended(copy, day).lastActivityDate = day
<1> DEFINE goesOn == copy.lastActivityDate # 0 /\ day - copy.lastActivityDate = 1
           days == IF goesOn THEN copy.currentDays + 1 ELSE 1
           longest == AtLeast(copy.longestDays, days)
<1>1. /\ copy.lastActivityDate \in Nat /\ copy.currentDays \in Nat /\ copy.longestDays \in Nat /\ copy.freezes \in Nat
      /\ copy.currentDays <= copy.lastActivityDate /\ copy.longestDays <= LastLocalDay
      /\ day \in Nat \ {0} /\ day <= LastLocalDay /\ LastLocalDay \in Nat
  BY StreaksAssumption DEF StreakRows, Days
<1>2. days \in Nat \ {0} /\ days <= day
  BY <1>1
<1> HIDE DEF days
<1>3. longest \in 0..LastLocalDay /\ days <= longest /\ days \in 0..LastLocalDay
  BY <1>1, <1>2 DEF AtLeast
<1> HIDE DEF longest
<1>4. day \in 0..LastLocalDay
  BY <1>1
<1> DEFINE row == [copy EXCEPT !.currentDays = days, !.lastActivityDate = day, !.longestDays = longest]
<1>5. Extended(copy, day) = row
  BY DEF Extended, days, longest
<1>6. row \in StreakRows /\ row.lastActivityDate = day
  BY <1>2, <1>3, <1>4 DEF StreakRows
<1> HIDE DEF row
<1> QED
  BY <1>5, <1>6

\* An update of a day after the last one.
LEMMA UpdateCounts ==
  ASSUME StreaksInv, NEW r \in Streakers, SaveUpdate(r), visit[r].copy.lastActivityDate < visit[r].day
  PROVE  StreaksInv'
<1>1. PICK v : v = visit[r]
  OBVIOUS
<1>2. /\ v.pc = "update" /\ ~ExpiredNow(r)
      /\ Saves(r, Extended(v.copy, v.day), IF v.day = localDay THEN {Extended(v.copy, v.day)} ELSE {}, NotVisiting)
      /\ active' = active \union {v.day} /\ UNCHANGED <<streakWorld, visits, granted, frozen, bridged>>
  BY <1>1 DEF SaveUpdate
<1>3. /\ StreaksTyped /\ granted \in Int /\ active \subseteq Days /\ frozen \subseteq Days /\ bridged \subseteq Days
      /\ localDay \in Nat \ {0}
      /\ \A counted, old, row : VisitSound(NotVisiting, row, counted, localDay, old) /\ NotVisiting \in StreakVisits
  <2>1. StreaksTyped /\ granted \in Int /\ active \subseteq Days /\ frozen \subseteq Days /\ bridged \subseteq Days
    BY DEF StreaksInv, StreaksTyped
  <2>2. localDay \in Nat \ {0}
    BY <2>1, StreakNumbers
  <2> QED
    BY <2>1, <2>2, NotVisitingIs
<1>4. /\ v.copy \in StreakRows /\ v.day \in Days /\ v.day \in 1..localDay
      /\ (v.behind = FALSE => v.copy = streak)
  <2>1. visit[r].pc # "idle"
    BY <1>1, <1>2
  <2>2. /\ v.copy \in StreakRows /\ v.day \in 1..localDay
        /\ (v.behind = FALSE => v.copy = streak) /\ (v.day # 0 => v.day \in Days)
    BY <1>1, <1>2, <2>1, VisitIs
  <2> QED
    BY <2>2
<1>5. ~StreakExpired(v.copy, v.day)
  BY <1>1, <1>2, <1>4 DEF ExpiredNow
<1>6. PICK row, same : row = Extended(v.copy, v.day) /\ same = IF v.day = localDay THEN {row} ELSE {}
  OBVIOUS
<1>7. row \in StreakRows /\ row.lastActivityDate = v.day /\ v.day # 0
  BY <1>1, <1>4, <1>6, ExtendedIs
<1>8. Saves(r, row, same, NotVisiting)
  BY <1>2, <1>6
<1>9. ASSUME stale = FALSE, v.behind = FALSE
      PROVE  RunHolds(row, granted, active \union {v.day}, bridged, frozen, localDay)
  <2>1. v.copy = streak
    BY <1>4, <1>9
  <2>2. RunHolds(v.copy, granted, active, bridged, frozen, localDay)
    BY <1>9, <2>1 DEF StreaksInv
  <2>3. VisitSound(v, v.copy, active \union bridged, localDay, stale)
    BY <1>1, <2>1 DEF StreaksInv
  <2>4. v.copy.lastActivityDate = 0 => active \union bridged \subseteq 1..(v.day + Ahead - 2)
    BY <1>2, <1>9, <2>3 DEF VisitSound
  <2>5. v.copy.lastActivityDate < v.day
    BY <1>1
  <2> QED
    BY <1>3, <1>4, <1>5, <1>6, <2>2, <2>4, <2>5, RunAfterUpdate
<1>10. ASSUME stale = FALSE, streak \in same
       PROVE  RunHolds(row, granted, active \union {v.day}, bridged, frozen, localDay)
  <2>1. v.day = localDay /\ streak = row
    BY <1>6, <1>10
  <2>2. RunHolds(row, granted, active, bridged, frozen, localDay)
    BY <1>10, <2>1 DEF StreaksInv
  <2>3. row.lastActivityDate = localDay
    BY <1>7, <2>1
  <2> QED
    BY <1>3, <1>7, <2>1, <2>2, <2>3, RunAfterToday
<1>11. stale = FALSE /\ (visit[r].behind = FALSE \/ streak \in same) =>
         RunHolds(row, granted', active', bridged', frozen', localDay)
  BY <1>1, <1>2, <1>9, <1>10
<1>12. granted' \in Int /\ active' \subseteq Days /\ frozen' \subseteq Days /\ bridged' \subseteq Days
  BY <1>2, <1>3, <1>4
<1>13. UNCHANGED <<streakWorld, visits>>
  BY <1>2
<1>14. VisitSound(NotVisiting, row, active' \union bridged', localDay, stale') /\ NotVisiting \in StreakVisits
  BY <1>3
<1> QED
  BY <1>7, <1>8, <1>11, <1>12, <1>13, <1>14, StreakSaved

\* An update of the last day, that writes the row as it was loaded.
LEMMA UpdateAgain ==
  ASSUME StreaksInv, NEW r \in Streakers, visit[r].pc = "update",
         Saves(r, visit[r].copy, {visit[r].copy}, NotVisiting),
         UNCHANGED <<streakWorld, visits, granted, active, frozen, bridged>>
  PROVE  StreaksInv'
<1>1. PICK row, same : row = visit[r].copy /\ same = {row}
  OBVIOUS
<1>2. /\ StreaksTyped /\ granted \in Int /\ active \subseteq Days /\ frozen \subseteq Days /\ bridged \subseteq Days
  BY DEF StreaksInv, StreaksTyped
<1>3. row \in StreakRows /\ (visit[r].behind = FALSE => row = streak)
  BY <1>1, VisitIs
<1>4. localDay \in Nat
  BY <1>2, StreakNumbers
<1>5. Saves(r, row, same, NotVisiting)
  BY <1>1
<1>6. NotVisiting \in StreakVisits /\ VisitSound(NotVisiting, row, active' \union bridged', localDay, stale')
  BY <1>2, <1>4, NotVisitingIs
<1>7. ASSUME stale = FALSE, visit[r].behind = FALSE \/ streak \in same
      PROVE  RunHolds(row, granted', active', bridged', frozen', localDay)
  <2>1. row = streak
    BY <1>1, <1>3, <1>7
  <2> QED
    BY <1>7, <2>1 DEF StreaksInv
<1>8. granted' \in Int /\ active' \subseteq Days /\ frozen' \subseteq Days /\ bridged' \subseteq Days
      /\ active' \union bridged' \subseteq active \union bridged
  BY <1>2
<1>9. UNCHANGED <<streakWorld, visits>>
  OBVIOUS
<1> QED
  BY <1>3, <1>5, <1>6, <1>7, <1>8, <1>9, StreakSaved

\* The rest of updateDailyStreak.
LEMMA SaveUpdateInv ==
  ASSUME StreaksInv, NEW r \in Streakers, SaveUpdate(r)
  PROVE  StreaksInv'
<1>1. CASE visit[r].copy.lastActivityDate < visit[r].day
  BY <1>1, UpdateCounts
<1>2. CASE ~(visit[r].copy.lastActivityDate < visit[r].day) /\ visit[r].copy.lastActivityDate = visit[r].day
  <2>1. /\ visit[r].pc = "update" /\ Saves(r, visit[r].copy, {visit[r].copy}, NotVisiting)
        /\ UNCHANGED <<streakWorld, visits, granted, active, frozen, bridged>>
    BY <1>2 DEF SaveUpdate
  <2> QED
    BY <2>1, UpdateAgain
<1>3. CASE ~(visit[r].copy.lastActivityDate < visit[r].day) /\ visit[r].copy.lastActivityDate # visit[r].day
  <2>1. Leaves(r) /\ UNCHANGED <<streak, streakWorld, visits, granted, streakHistory, stale>>
    BY <1>3 DEF SaveUpdate, streakHistory
  <2> QED
    BY <2>1, LeavesInv
<1> QED
  BY <1>1, <1>2, <1>3

\* A freeze more, or less.
LEMMA SaveFreezesInv ==
  ASSUME StreaksInv, NEW r \in Streakers, SaveFreezes(r)
  PROVE  StreaksInv'
<1> DEFINE v == visit[r]
           change == IF v.pc # "reverse" THEN 1 ELSE IF v.copy.freezes > 0 THEN -1 ELSE 0
           held == [v.copy EXCEPT !.freezes = v.copy.freezes + change]
<1>1. /\ v.pc # "idle" /\ Saves(r, held, {}, NotVisiting) /\ granted' = granted + change
      /\ UNCHANGED <<streakWorld, visits, streakHistory>>
  BY DEF SaveFreezes
<1>2. /\ StreaksTyped /\ granted \in Int /\ active \subseteq Days /\ frozen \subseteq Days /\ bridged \subseteq Days
  BY DEF StreaksInv, StreaksTyped
<1>3. v.copy \in StreakRows /\ (v.behind = FALSE => v.copy = streak)
  BY <1>1, VisitIs
<1>4. localDay \in Nat /\ v.copy.freezes \in Nat
  BY <1>2, <1>3, StreakNumbers
<1>5. change \in Int /\ v.copy.freezes + change \in Nat
  BY <1>4
<1> HIDE DEF change
<1>6. /\ held \in StreakRows /\ held.freezes = v.copy.freezes + change
      /\ held.lastActivityDate = v.copy.lastActivityDate /\ held.currentDays = v.copy.currentDays
  BY <1>3, <1>5 DEF StreakRows
<1> HIDE DEF held
<1>7. PICK row, same, grants, c : row = held /\ same = {} /\ grants = granted + change /\ c = change
  OBVIOUS
<1>8. /\ row \in StreakRows /\ c \in Int /\ row.freezes = v.copy.freezes + c /\ grants = granted + c
      /\ row.lastActivityDate = v.copy.lastActivityDate /\ row.currentDays = v.copy.currentDays
      /\ Saves(r, row, same, NotVisiting) /\ granted' = grants /\ grants \in Int
  BY <1>1, <1>2, <1>5, <1>6, <1>7
<1>9. UNCHANGED <<active, frozen, bridged>>
  BY <1>1 DEF streakHistory
<1>10. NotVisiting \in StreakVisits /\ VisitSound(NotVisiting, row, active' \union bridged', localDay, stale')
  BY <1>2, <1>4, NotVisitingIs
<1>11. ASSUME stale = FALSE, visit[r].behind = FALSE \/ streak \in same
       PROVE  RunHolds(row, granted', active', bridged', frozen', localDay)
  <2>1. v.copy = streak
    BY <1>3, <1>7, <1>11
  <2>2. RunHolds(v.copy, granted, active, bridged, frozen, localDay)
    BY <1>11, <2>1 DEF StreaksInv
  <2> HIDE DEF v
  <2>3. RunHolds(row, grants, active, bridged, frozen, localDay)
    BY <1>2, <1>3, <1>8, <2>2, RunAfterFreezes
  <2> QED
    BY <1>8, <1>9, <2>3
<1>12. granted' \in Int /\ active' \subseteq Days /\ frozen' \subseteq Days /\ bridged' \subseteq Days
       /\ active' \union bridged' \subseteq active \union bridged
  BY <1>2, <1>8, <1>9
<1>13. UNCHANGED <<streakWorld, visits>> /\ Saves(r, row, same, NotVisiting)
  BY <1>1, <1>8
<1> QED
  BY <1>8, <1>10, <1>11, <1>12, <1>13, StreakSaved

\* A new day.
LEMMA MidnightInv ==
  ASSUME StreaksInv, Midnight
  PROVE  StreaksInv'
<1>1. /\ localDay < LastLocalDay /\ localDay' = localDay + 1
      /\ UNCHANGED <<streak, offset, monthly, visit, visits, granted, active, frozen, bridged, stale>>
  BY DEF Midnight, streakHistory
<1>2. StreaksTyped /\ localDay \in Nat \ {0} /\ Ahead \in {0, 1}
  <2>1. StreaksTyped
    BY DEF StreaksInv
  <2> QED
    BY <2>1, StreakNumbers
<1>3. StreaksTyped'
  <2>1. localDay' \in Days
    BY <1>1, <1>2, StreaksAssumption DEF Days
  <2> QED
    BY <1>1, <1>2, <2>1 DEF StreaksTyped
<1>4. PICK today : today = localDay + 1
  OBVIOUS
<1>5. ASSUME NEW r \in Streakers PROVE VisitSound(visit[r], streak, active \union bridged, today, stale)
  <2>1. VisitSound(visit[r], streak, active \union bridged, localDay, stale) /\ visit[r] \in StreakVisits
    BY <1>2 DEF StreaksInv, StreaksTyped
  <2>2. visit[r].day \in Nat
    BY <2>1, StreaksAssumption DEF StreakVisits
  <2>3. visit[r].day <= today + Ahead
    BY <1>2, <1>4, <2>1, <2>2 DEF VisitSound
  <2>4. visit[r].pc = "update" => visit[r].day \in 1..today
    BY <1>2, <1>4, <2>1, <2>2 DEF VisitSound
  <2> QED
    BY <2>1, <2>3, <2>4 DEF VisitSound
<1>6. stale = FALSE => RunHolds(streak, granted, active, bridged, frozen, today)
  BY <1>2, <1>4, RunAfterMidnight DEF StreaksInv
<1>7. \A r \in Streakers : VisitSound(visit'[r], streak', active' \union bridged', localDay', stale')
  BY <1>1, <1>4, <1>5
<1>8. stale' = FALSE => RunHolds(streak', granted', active', bridged', frozen', localDay')
  BY <1>1, <1>4, <1>6
<1> QED
  BY <1>1, <1>3, <1>7, <1>8, StreakStep

\* The requests that load the row, whatever dates them.
LEMMA ArrivesInv ==
  ASSUME StreaksInv, NEW r \in Streakers,
         GetUserStreak(r) \/ UpdateDailyStreak(r) \/ AddStreakFreeze(r) \/ WalletLoads(r)
  PROVE  StreaksInv'
<1>1. /\ localDay \in Nat \ {0} /\ localDay <= LastLocalDay /\ Ahead \in {0, 1} /\ offset \in Int /\ offset <= Ahead
      /\ LastLocalDay \in Nat
  BY StreakNumbers, StreaksAssumption DEF StreaksInv
<1>2. ASSUME NEW day \in Days PROVE day \in 0..LastLocalDay
  BY <1>1 DEF Days
<1>3. localDay \in 0..LastLocalDay /\ 0 \in 0..LastLocalDay /\ localDay <= localDay + Ahead /\ 0 <= localDay + Ahead
      /\ localDay + offset <= localDay + Ahead
  BY <1>1
<1>4. CASE GetUserStreak(r)
  <2>1. PICK day \in {localDay, localDay + offset} : day \in Days /\ Loads(r, "show", day)
    BY <1>4 DEF GetUserStreak
  <2>2. day \in 0..LastLocalDay /\ day <= localDay + Ahead
    BY <1>2, <1>3, <2>1
  <2> QED
    BY <2>1, <2>2, LoadsInv
<1>5. CASE UpdateDailyStreak(r)
  <2>1. PICK day : day = localDay
    OBVIOUS
  <2>2. Loads(r, "update", day) /\ day \in 0..LastLocalDay /\ day <= localDay + Ahead
    BY <1>3, <1>5, <2>1 DEF UpdateDailyStreak
  <2> QED
    BY <2>1, <2>2, LoadsInv
<1>6. CASE AddStreakFreeze(r)
  <2>1. PICK day : day = localDay + offset
    OBVIOUS
  <2>2. Loads(r, "add", day) /\ day \in 0..LastLocalDay /\ day <= localDay + Ahead
    BY <1>2, <1>3, <1>6, <2>1 DEF AddStreakFreeze
  <2> QED
    BY <2>2, LoadsInv
<1>7. CASE WalletLoads(r)
  <2>1. PICK purpose \in {"grant", "reverse"} : Loads(r, purpose, 0)
    BY <1>7 DEF WalletLoads
  <2>2. PICK day : day = 0
    OBVIOUS
  <2>3. Loads(r, purpose, day) /\ day \in 0..LastLocalDay /\ day <= localDay + Ahead
    BY <1>3, <2>1, <2>2
  <2> QED
    BY <2>3, LoadsInv
<1> QED
  BY <1>4, <1>5, <1>6, <1>7

\* A learner who has done nothing yet.
LEMMA StreaksStart ==
  ASSUME StreaksInit
  PROVE  StreaksInv
<1>1. /\ streak = NoStreak /\ localDay = 1 /\ offset \in Offsets /\ monthly \subseteq 2..LastLocalDay
      /\ visit = [r \in Streakers |-> NotVisiting] /\ visits = 0
      /\ granted = 0 /\ active = {} /\ frozen = {} /\ bridged = {} /\ stale = FALSE
  BY DEF StreaksInit
<1>2. NoStreak \in StreakRows
  BY StreaksAssumption DEF NoStreak, StreakRows
<1>3. NotVisiting \in StreakVisits
  BY <1>2, StreaksAssumption DEF NotVisiting, StreakVisits
<1>4. localDay \in Days /\ monthly \subseteq Days /\ visits \in 0..MaxVisits
  BY <1>1, StreaksAssumption DEF Days
<1>5. StreaksTyped
  <2>1. visit \in [Streakers -> StreakVisits]
    BY <1>1, <1>3
  <2>2. streak \in StreakRows
    BY <1>1, <1>2
  <2>3. active \subseteq Days /\ frozen \subseteq Days /\ bridged \subseteq Days
    BY <1>1
  <2>4. granted \in Int /\ offset \in Offsets
    BY <1>1
  <2>5. stale = FALSE /\ stale \in BOOLEAN
    BY <1>1, Zenon
  <2> QED
    BY <1>4, <2>1, <2>2, <2>3, <2>4, <2>5 DEF StreaksTyped
<1>6. ASSUME NEW r \in Streakers PROVE VisitSound(visit[r], streak, active \union bridged, localDay, stale)
  <2>1. visit[r] = NotVisiting /\ localDay \in Nat
    BY <1>1
  <2> QED
    BY <1>5, <2>1, NotVisitingIs
<1>7. RunHolds(streak, granted, active, bridged, frozen, localDay)
  <2>1. streak.freezes = 0 /\ streak.lastActivityDate = 0 /\ streak.currentDays = 0
    BY <1>1 DEF NoStreak
  <2>2. Cardinality({}) = 0 /\ RunOf({}, 0) = {}
    BY FS_EmptySet DEF RunOf
  <2>3. {} \union {} = {}
    OBVIOUS
  <2> QED
    BY <1>1, <2>1, <2>2, <2>3 DEF RunHolds
<1> QED
  BY <1>5, <1>6, <1>7 DEF StreaksInv

\* Every step of the model preserves the invariant.
LEMMA StreaksStep ==
  ASSUME StreaksInv, [StreaksNext]_streakVars
  PROVE  StreaksInv'
<1>1. CASE Midnight
  BY <1>1, MidnightInv
<1>2. ASSUME NEW r \in Streakers,
             \/ GetUserStreak(r) \/ UpdateDailyStreak(r) \/ AddStreakFreeze(r) \/ WalletLoads(r)
             \/ SaveReset(r) \/ Shown(r) \/ SaveUpdate(r) \/ SaveFreezes(r) \/ VisitDies(r)
      PROVE  StreaksInv'
  <2>1. CASE GetUserStreak(r) \/ UpdateDailyStreak(r) \/ AddStreakFreeze(r) \/ WalletLoads(r)
    BY <2>1, ArrivesInv
  <2>2. CASE SaveReset(r)
    BY <2>2, SaveResetInv
  <2>3. CASE Shown(r)
    BY <2>3, LeavesInv DEF Shown
  <2>4. CASE SaveUpdate(r)
    BY <2>4, SaveUpdateInv
  <2>5. CASE SaveFreezes(r)
    BY <2>5, SaveFreezesInv
  <2>6. CASE VisitDies(r)
    BY <2>6, LeavesInv DEF VisitDies
  <2> QED
    BY <1>2, <2>1, <2>2, <2>3, <2>4, <2>5, <2>6
<1>3. CASE UNCHANGED streakVars
  <2>1. UNCHANGED <<streak, localDay, offset, monthly, visit, visits, granted, active, frozen, bridged, stale>>
    BY <1>3 DEF streakVars
  <2>2. StreaksTyped'
    BY <2>1 DEF StreaksInv, StreaksTyped
  <2>3. /\ \A r \in Streakers : VisitSound(visit'[r], streak', active' \union bridged', localDay', stale')
        /\ stale' = FALSE => RunHolds(streak', granted', active', bridged', frozen', localDay')
    BY <2>1 DEF StreaksInv
  <2> QED
    BY <2>1, <2>2, <2>3, StreakStep
<1> QED
  BY <1>1, <1>2, <1>3 DEF StreaksNext

\* The types that the run checks.
LEMMA StreaksTypeSays ==
  ASSUME StreaksInv
  PROVE  StreaksTypeOK
<1>1. StreaksTyped
  BY DEF StreaksInv
<1>2. streak \in [currentDays : 0..LastLocalDay, longestDays : 0..LastLocalDay,
                  lastActivityDate : 0..LastLocalDay, freezes : Nat]
  BY <1>1 DEF StreaksTyped, StreakRows
<1>3. ASSUME NEW r \in Streakers PROVE visit[r].pc \in {"idle", "show", "update", "add", "grant", "reverse"}
  BY <1>1 DEF StreaksTyped, StreakVisits
<1> QED
  BY <1>1, <1>2, <1>3 DEF StreaksTyped, StreaksTypeOK

\* The learner who was active on every day so far.
LEMMA EveryDayKept ==
  ASSUME StreaksInv, stale = FALSE, offset <= 0, 1..(localDay - 1) \subseteq active
  PROVE  frozen = {} /\ streak.currentDays >= localDay - 1
<1> DEFINE T == streak.lastActivityDate
           counted == active \union bridged
<1>1. /\ RunHolds(streak, granted, active, bridged, frozen, localDay) /\ streak \in StreakRows
      /\ localDay \in Nat \ {0} /\ T \in Nat /\ streak.currentDays \in Nat /\ Ahead = 0
  BY StreakNumbers DEF StreaksInv, StreaksTyped
<1>2. /\ frozen \subseteq bridged /\ active \intersect bridged = {} /\ bridged \subseteq 1..(localDay - 1)
      /\ streak.currentDays = Cardinality(RunOf(counted, T)) /\ T <= localDay
      /\ T = 0 => counted \subseteq 1..(localDay + Ahead - 2)
      /\ T # 0 => counted \subseteq 1..T
  BY <1>1 DEF RunHolds
<1>3. frozen = {}
  BY <1>2
<1>4. streak.currentDays >= localDay - 1
  <2>1. CASE localDay = 1
    BY <1>1, <2>1
  <2>2. CASE localDay # 1
    <3>1. localDay - 1 \in counted /\ localDay - 1 \in Nat /\ localDay - 1 \notin 1..(localDay - 2)
      BY <1>1, <2>2
    <3>2. T # 0
      <4>1. localDay + Ahead - 2 = localDay - 2
        BY <1>1
      <4> QED
        BY <1>2, <3>1, <4>1
    <3>3. counted \subseteq 1..T
      BY <1>2, <3>2
    <3>4. T = localDay - 1 \/ T = localDay
      <4>1. localDay - 1 <= T
        BY <1>1, <3>1, <3>3
      <4> QED
        BY <1>1, <1>2, <4>1
    <3>5. streak.currentDays # 0
      BY <1>1, <3>2 DEF StreakRows
    <3>6. T \in counted
      BY <1>1, <1>2, <3>5, RunIs
    <3>7. 1..T \subseteq counted
      BY <1>1, <3>4, <3>6
    <3>8. localDay - 1 <= T
      BY <1>1, <3>4
    <3>9. Cardinality(RunOf(counted, T)) >= localDay - 1
      <4>1. PICK n, last : n = localDay - 1 /\ last = T
        OBVIOUS
      <4>2. n \in Nat /\ last \in Nat /\ n <= last /\ 1..last \subseteq counted
        BY <1>1, <3>1, <3>7, <3>8, <4>1
      <4>3. Cardinality(RunOf(counted, last)) >= n
        BY <4>2, RunIs
      <4> QED
        BY <4>1, <4>3
    <3> QED
      BY <1>2, <3>9
  <2> QED
    BY <2>1, <2>2
<1> QED
  BY <1>3, <1>4

\* The invariant says what the run checks.
LEMMA StreaksInvSays ==
  ASSUME StreaksInv
  PROVE  StreakIsTheRun
<1>1. StreaksTypeOK /\ StreaksTyped /\ streak \in StreakRows /\ stale \in BOOLEAN
  BY StreaksTypeSays DEF StreaksInv, StreaksTyped
<1>2. ASSUME ~stale
      PROVE  /\ streak.freezes = granted - Cardinality(frozen) /\ frozen \intersect monthly = {}
             /\ streak.longestDays >= streak.currentDays
  <2>1. RunHolds(streak, granted, active, bridged, frozen, localDay)
    BY <1>1, <1>2 DEF StreaksInv
  <2>2. streak.currentDays <= streak.longestDays /\ streak.currentDays \in Nat /\ streak.longestDays \in Nat
    BY <1>1, StreaksAssumption DEF StreakRows
  <2> QED
    BY <2>1, <2>2 DEF RunHolds
<1>3. ASSUME ~stale, offset <= 0
      PROVE  streak.currentDays = Cardinality(RunEnding(streak.lastActivityDate))
  <2>1. RunHolds(streak, granted, active, bridged, frozen, localDay)
    BY <1>1, <1>3 DEF StreaksInv
  <2>2. streak.currentDays = Cardinality(RunOf(active \union bridged, streak.lastActivityDate))
    BY <1>3, <2>1 DEF RunHolds
  <2> QED
    BY <2>2 DEF RunEnding, RunOf, Counted
<1>4. ASSUME ~stale, offset <= 0, 1..(localDay - 1) \subseteq active
      PROVE  frozen = {} /\ streak.currentDays >= localDay - 1
  <2>1. stale = FALSE
    BY <1>1, <1>4
  <2> QED
    BY <1>4, <2>1, EveryDayKept
<1> QED
  BY <1>1, <1>2, <1>3, <1>4 DEF StreakIsTheRun

\* The streak shown is the run of days it stands for, and no freeze is spent on a
\* day that did not need it, while no save changed a row that others had changed
\* (resetExpiredStreakIfNeeded, updateDailyStreak).
THEOREM StreakIsTheRunAlways == StreaksSpec => []StreakIsTheRun
<1>1. StreaksInit => StreaksInv
  BY StreaksStart
<1>2. StreaksInv /\ [StreaksNext]_streakVars => StreaksInv'
  BY StreaksStep
<1>3. StreaksInv => StreakIsTheRun
  BY StreaksInvSays
<1> QED
  BY <1>1, <1>2, <1>3, PTL DEF StreaksSpec
=============================================================================
