------------------------ MODULE AuthenticationProofs ------------------------
(***************************************************************************)
(* Proofs about Authentication, for any users, instances, times and limits. *)
(***************************************************************************)
EXTENDS Authentication, SequenceTheorems, FiniteSetTheorems, WellFoundedInduction, TLAPS

-----------------------------------------------------------------------------
(* The inductive invariant.                                                *)

\* Challenges and tokens are not from the future, and a token has its challenge.
Dated ==
  /\ \A c \in DOMAIN challenges : challenges[c].started <= now
  /\ \A t \in DOMAIN tokens : tokens[t].issued <= now /\ tokens[t].by \in {ByPassword} \cup DOMAIN challenges

\* What a blocked user asked for, or got by password, came before the block.
OlderThanBlock ==
  \A u \in User : blockedSince[u] # Never =>
    /\ \A c \in DOMAIN challenges :
         challenges[c].user = u => challenges[c].started <= blockedSince[u]
    /\ \A t \in DOMAIN tokens :
         tokens[t].user = u /\ tokens[t].by = ByPassword => tokens[t].issued <= blockedSince[u]

\* An instance knows only real revocations, and the writer forgets none in its time.
RevocationsKept ==
  /\ \A i \in Instance : revoked[i] \subseteq revokedEver
  /\ restarts = 0 => \A t \in revokedEver : t \in revoked[Writer] \/ PastExp(t)

\* A lockout lasts as long as it was meant to.
LockoutsKept ==
  restarts = 0 => \A u \in User :
    lockedAt[u] # Never /\ now < lockedAt[u] + BlockDuration
      => lockouts[u] = lockedAt[u] + BlockDuration

IInv ==
  TypeOK /\ Dated /\ CodeLogsInOnce /\ OlderThanBlock /\ RevocationsKept /\ LockoutsKept

-----------------------------------------------------------------------------
(* What a step does to challenges and tokens.                              *)

\* The next challenge, or token, is added at the end.
Added(s, t, e) ==
  /\ Len(t) = Len(s) + 1
  /\ \A k \in DOMAIN s : t[k] = s[k]
  /\ t[Len(s) + 1] = e

\* Append adds.
LEMMA AppendAdds ==
  ASSUME NEW S, NEW s \in Seq(S), NEW e \in S
  PROVE  Append(s, e) \in Seq(S) /\ Added(s, Append(s, e), e)
BY AppendProperties DEF Added

\* The steps of a challenge: an attempt is used up or all are dropped.
Worn(new, old) ==
  /\ new.user = old.user /\ new.started = old.started
  /\ new.left <= old.left
  /\ new.open => old.open

\* Challenge c is closed, and nothing else happens to any.
LEMMA CloseWears ==
  ASSUME TypeOK, NEW c \in DOMAIN challenges, challenges' = Close(c)
  PROVE  /\ challenges' \in Seq(Challenge) /\ Len(challenges') = Len(challenges)
         /\ \A k \in DOMAIN challenges : k # c => challenges'[k] = challenges[k]
         /\ ~challenges'[c].open /\ Worn(challenges'[c], challenges[c])
<1> DEFINE e == [challenges[c] EXCEPT !.open = FALSE]
<1>1. challenges \in Seq(Challenge) /\ c \in 1..Len(challenges)
  BY DEF TypeOK
<1>2. challenges[c] \in Challenge
  BY <1>1, ElementOfSeq
<1>3. e \in Challenge
  BY <1>2 DEF Challenge
<1>4. challenges' = [challenges EXCEPT ![c] = e]
  BY DEF Close
<1>5. e.open = FALSE /\ Worn(e, challenges[c])
  BY <1>2 DEF Worn, Challenge
<1> HIDE DEF e
<1> QED
  BY <1>1, <1>3, <1>4, <1>5, ExceptSeq

\* A wrong code uses up one attempt, and the last one closes the challenge.
LEMMA WrongCodeWears ==
  ASSUME TypeOK, NEW c \in DOMAIN challenges, WrongCode(c)
  PROVE  /\ challenges' \in Seq(Challenge) /\ Len(challenges') = Len(challenges)
         /\ \A k \in DOMAIN challenges : k # c => challenges'[k] = challenges[k]
         /\ challenges'[c].left = challenges[c].left - 1
         /\ challenges'[c].open <=> challenges'[c].left > 0
         /\ Worn(challenges'[c], challenges[c])
<1> DEFINE left == challenges[c].left - 1
<1>1. challenges \in Seq(Challenge) /\ c \in 1..Len(challenges)
  BY DEF TypeOK
<1>2. challenges[c] \in Challenge /\ challenges[c].open /\ challenges[c].left > 0
  BY <1>1, ElementOfSeq DEF WrongCode, Verifiable, TypeOK
<1>3. left \in 0..MaxAttempts /\ left \in Int
  BY <1>2, AuthenticationAssumption DEF Challenge
<1> DEFINE open == left > 0
<1>4. open \in BOOLEAN
  OBVIOUS
<1>5. challenges' = [challenges EXCEPT ![c] = [challenges[c] EXCEPT !.left = left, !.open = open]]
  BY DEF WrongCode
<1>6. left <= challenges[c].left
  BY <1>2, AuthenticationAssumption DEF Challenge
<1>7. left > 0 <=> open
  OBVIOUS
<1> HIDE DEF left, open
<1> DEFINE e == [challenges[c] EXCEPT !.left = left, !.open = open]
<1>8. e \in Challenge
  BY <1>2, <1>3, <1>4 DEF Challenge
<1>9. e.left = left /\ e.open = open /\ Worn(e, challenges[c])
  BY <1>2, <1>6 DEF Worn, Challenge
<1> HIDE DEF e
<1>10. challenges' = [challenges EXCEPT ![c] = e]
  BY <1>5 DEF e
<1>11. /\ challenges' \in Seq(Challenge) /\ Len(challenges') = Len(challenges)
       /\ \A k \in DOMAIN challenges : k # c => challenges'[k] = challenges[k]
       /\ challenges'[c] = e
  BY <1>1, <1>8, <1>10, ExceptSeq
<1> QED
  BY <1>7, <1>9, <1>11 DEF left

\* A restart of the writer closes them all.
LEMMA RestartWears ==
  ASSUME TypeOK,
         challenges' = [c \in DOMAIN challenges |-> [challenges[c] EXCEPT !.open = FALSE]]
  PROVE  /\ challenges' \in Seq(Challenge) /\ Len(challenges') = Len(challenges)
         /\ \A k \in DOMAIN challenges : ~challenges'[k].open /\ Worn(challenges'[k], challenges[k])
<1>1. challenges \in Seq(Challenge) /\ Len(challenges) \in Nat /\ DOMAIN challenges = 1..Len(challenges)
  BY DEF TypeOK
<1>2. \A k \in DOMAIN challenges : challenges[k] \in Challenge
  BY <1>1, ElementOfSeq
<1>3. ASSUME NEW k \in DOMAIN challenges
      PROVE  /\ challenges'[k] \in Challenge /\ ~challenges'[k].open
             /\ Worn(challenges'[k], challenges[k])
  <2> DEFINE old == challenges[k]
  <2>1. challenges'[k] = [old EXCEPT !.open = FALSE]
    OBVIOUS
  <2>2. old \in Challenge /\ old.left \in Nat
    BY <1>2, AuthenticationAssumption DEF Challenge
  <2> HIDE DEF old
  <2> DEFINE e == [old EXCEPT !.open = FALSE]
  <2>3. e \in Challenge
    BY <2>2 DEF Challenge
  <2>4. e.open = FALSE /\ Worn(e, old)
    BY <2>2 DEF Worn, Challenge
  <2> QED
    BY <2>1, <2>3, <2>4 DEF old
<1>4. challenges' \in [1..Len(challenges) -> Challenge]
  BY <1>1, <1>3
<1>5. challenges' \in Seq(Challenge) /\ Len(challenges') = Len(challenges)
  BY <1>1, <1>4, LenProperties
<1> QED
  BY <1>3, <1>5

\* A new challenge has all its attempts.
LEMMA StartAdds ==
  ASSUME TypeOK, NEW u \in User, StartChallenge(u)
  PROVE  /\ challenges' \in Seq(Challenge)
         /\ Added(challenges, challenges', [user |-> u, started |-> now,
                                            left |-> MaxAttempts, open |-> TRUE])
<1>1. [user |-> u, started |-> now, left |-> MaxAttempts, open |-> TRUE] \in Challenge
  BY AuthenticationAssumption DEF TypeOK, Challenge
<1> QED
  BY <1>1, AppendAdds DEF TypeOK, StartChallenge

\* So is the next token.
LEMMA IssueAdds ==
  ASSUME TypeOK, NEW u \in User, NEW c \in Nat, IssueToken(u, c)
  PROVE  /\ tokens' \in Seq(Token)
         /\ Added(tokens, tokens', [user |-> u, issued |-> now, by |-> c])
<1>1. [user |-> u, issued |-> now, by |-> c] \in Token
  BY DEF TypeOK, Token
<1> QED
  BY <1>1, AppendAdds DEF TypeOK, IssueToken

\* The user of a challenge, and of a token.
LEMMA Fields ==
  ASSUME TypeOK
  PROVE  /\ Len(challenges) \in Nat /\ DOMAIN challenges = 1..Len(challenges)
         /\ Len(tokens) \in Nat /\ DOMAIN tokens = 1..Len(tokens)
         /\ \A c \in DOMAIN challenges : challenges[c] \in Challenge
         /\ \A t \in DOMAIN tokens : tokens[t] \in Token
BY ElementOfSeq DEF TypeOK

-----------------------------------------------------------------------------
(* Type correctness.                                                       *)

\* The types hold at the start.
LEMMA TypeInit == Init => TypeOK
<1> SUFFICES ASSUME Init PROVE TypeOK
  OBVIOUS
<1>1. challenges \in Seq(Challenge) /\ tokens \in Seq(Token) /\ DOMAIN challenges = {} /\ DOMAIN tokens = {}
  BY EmptySeq, LenProperties DEF Init
<1> QED
  BY <1>1, AuthenticationAssumption DEF Init, TypeOK, Never

\* No step leaves the types, or an open challenge without an attempt.
LEMMA TypeNext == TypeOK /\ [Next]_vars => TypeOK'
<1> SUFFICES ASSUME TypeOK, [Next]_vars PROVE TypeOK'
  OBVIOUS
<1> USE DEF twoFAVars, tokenVars
<1>1. ASSUME NEW u \in User, StartChallenge(u) PROVE TypeOK'
  <2>1. /\ challenges' \in Seq(Challenge)
        /\ \A c \in DOMAIN challenges' : challenges'[c].open => challenges'[c].left > 0
    <3>1. /\ challenges' \in Seq(Challenge)
          /\ Added(challenges, challenges', [user |-> u, started |-> now,
                                             left |-> MaxAttempts, open |-> TRUE])
      BY <1>1, StartAdds
    <3>2. DOMAIN challenges' = DOMAIN challenges \cup {Len(challenges) + 1}
      BY <3>1, Fields, LenProperties DEF Added
    <3>3. challenges'[Len(challenges) + 1].left > 0
      BY <3>1, AuthenticationAssumption DEF Added
    <3>4. \A k \in DOMAIN challenges : challenges'[k] = challenges[k]
      BY <3>1 DEF Added
    <3> QED
      BY <3>1, <3>2, <3>3, <3>4 DEF TypeOK
  <2>2. tokens' \in Seq(Token) /\ DOMAIN tokens \subseteq DOMAIN tokens'
    BY <1>1 DEF TypeOK, StartChallenge
  <2> QED
    BY <1>1, <2>1, <2>2, AuthenticationAssumption DEF StartChallenge, TypeOK
<1>2. ASSUME NEW u \in User, PasswordLogin(u) PROVE TypeOK'
  <2>1. /\ challenges' \in Seq(Challenge)
        /\ \A c \in DOMAIN challenges' : challenges'[c].open => challenges'[c].left > 0
    BY <1>2 DEF TypeOK, PasswordLogin
  <2>2. tokens' \in Seq(Token) /\ DOMAIN tokens \subseteq DOMAIN tokens'
    <3>1. tokens' \in Seq(Token) /\ Len(tokens') = Len(tokens) + 1
      BY <1>2, IssueAdds DEF PasswordLogin, ByPassword, Added
    <3> QED
      BY <3>1, Fields, LenProperties
  <2> QED
    BY <1>2, <2>1, <2>2 DEF PasswordLogin, TypeOK, IssueToken
<1>3. ASSUME NEW u \in User, Block(u) PROVE TypeOK'
  <2>1. /\ challenges' \in Seq(Challenge)
        /\ \A c \in DOMAIN challenges' : challenges'[c].open => challenges'[c].left > 0
    BY <1>3 DEF TypeOK, Block
  <2>2. tokens' \in Seq(Token) /\ DOMAIN tokens \subseteq DOMAIN tokens'
    BY <1>3 DEF TypeOK, Block
  <2> QED
    BY <1>3, <2>1, <2>2 DEF Block, TypeOK
<1>4. ASSUME NEW u \in User, Unblock(u) PROVE TypeOK'
  <2>1. /\ challenges' \in Seq(Challenge)
        /\ \A c \in DOMAIN challenges' : challenges'[c].open => challenges'[c].left > 0
    BY <1>4 DEF TypeOK, Unblock
  <2>2. tokens' \in Seq(Token) /\ DOMAIN tokens \subseteq DOMAIN tokens'
    BY <1>4 DEF TypeOK, Unblock
  <2> QED
    BY <1>4, <2>1, <2>2 DEF Unblock, TypeOK, Never
<1>5. ASSUME NEW c \in DOMAIN challenges, ExpireChallenge(c) PROVE TypeOK'
  <2>1. /\ challenges' \in Seq(Challenge)
        /\ \A k \in DOMAIN challenges' : challenges'[k].open => challenges'[k].left > 0
    <3>1. /\ challenges' \in Seq(Challenge) /\ Len(challenges') = Len(challenges)
          /\ \A k \in DOMAIN challenges : k # c => challenges'[k] = challenges[k]
          /\ ~challenges'[c].open
      BY <1>5, CloseWears DEF ExpireChallenge
    <3> QED
      BY <3>1, Fields, LenProperties DEF TypeOK
  <2>2. tokens' \in Seq(Token) /\ DOMAIN tokens \subseteq DOMAIN tokens'
    BY <1>5 DEF TypeOK, ExpireChallenge
  <2> QED
    BY <1>5, <2>1, <2>2 DEF ExpireChallenge, TypeOK
<1>6. ASSUME NEW c \in DOMAIN challenges, WrongCode(c) PROVE TypeOK'
  <2>1. /\ challenges' \in Seq(Challenge)
        /\ \A k \in DOMAIN challenges' : challenges'[k].open => challenges'[k].left > 0
    <3>1. /\ challenges' \in Seq(Challenge) /\ Len(challenges') = Len(challenges)
          /\ \A k \in DOMAIN challenges : k # c => challenges'[k] = challenges[k]
          /\ challenges'[c].open <=> challenges'[c].left > 0
      BY <1>6, WrongCodeWears
    <3> QED
      BY <3>1, Fields, LenProperties DEF TypeOK
  <2>2. tokens' \in Seq(Token) /\ DOMAIN tokens \subseteq DOMAIN tokens'
    BY <1>6 DEF TypeOK, WrongCode
  <2>3. challenges[c].user \in User
    BY Fields DEF Challenge
  <2>4. now + BlockDuration \in Nat
    BY AuthenticationAssumption DEF TypeOK
  <2>5. wrongCodes' \in [User -> Nat]
    BY <1>6, <2>3 DEF WrongCode, TypeOK
  <2>6. lockouts' \in [User -> Nat] /\ lockedAt' \in [User -> 0..now']
    <3>1. CASE challenges[c].left - 1 = 0
      <4>1. /\ lockouts' = [lockouts EXCEPT ![challenges[c].user] = now + BlockDuration]
            /\ lockedAt' = [lockedAt EXCEPT ![challenges[c].user] = now]
            /\ now' = now
        BY <1>6, <3>1 DEF WrongCode
      <4>2. now \in 0..now
        BY DEF TypeOK
      <4> QED
        BY <2>3, <2>4, <4>1, <4>2 DEF TypeOK
    <3>2. CASE challenges[c].left - 1 # 0
      BY <1>6, <3>2 DEF WrongCode, TypeOK
    <3> QED
      BY <3>1, <3>2
  <2> QED
    BY <1>6, <2>1, <2>2, <2>5, <2>6 DEF WrongCode, TypeOK
<1>7. ASSUME NEW c \in DOMAIN challenges, RightCode(c) PROVE TypeOK'
  <2>1. /\ challenges' \in Seq(Challenge)
        /\ \A k \in DOMAIN challenges' : challenges'[k].open => challenges'[k].left > 0
    <3>1. /\ challenges' \in Seq(Challenge) /\ Len(challenges') = Len(challenges)
          /\ \A k \in DOMAIN challenges : k # c => challenges'[k] = challenges[k]
          /\ ~challenges'[c].open
      BY <1>7, CloseWears DEF RightCode
    <3> QED
      BY <3>1, Fields, LenProperties DEF TypeOK
  <2>2. tokens' \in Seq(Token) /\ DOMAIN tokens \subseteq DOMAIN tokens'
    <3>1. tokens' \in Seq(Token) /\ Len(tokens') = Len(tokens) + 1
      <4>1. challenges[c].user \in User /\ c \in Nat
        BY Fields DEF Challenge
      <4> QED
        BY <1>7, <4>1, IssueAdds DEF RightCode, Added
    <3> QED
      BY <3>1, Fields, LenProperties
  <2> QED
    BY <1>7, <2>1, <2>2 DEF RightCode, TypeOK, IssueToken
<1>8. ASSUME NEW i \in Instance, NEW t \in DOMAIN tokens, UseToken(i, t) PROVE TypeOK'
  <2>1. /\ challenges' \in Seq(Challenge)
        /\ \A c \in DOMAIN challenges' : challenges'[c].open => challenges'[c].left > 0
    BY <1>8 DEF TypeOK, UseToken
  <2>2. tokens' \in Seq(Token) /\ DOMAIN tokens \subseteq DOMAIN tokens'
    BY <1>8 DEF TypeOK, UseToken
  <2> QED
    BY <1>8, <2>1, <2>2 DEF UseToken, TypeOK, RevokedEntries
<1>9. ASSUME NEW h \in DOMAIN tokens, NEW t \in DOMAIN tokens, RevokeToken(h, t) PROVE TypeOK'
  <2>1. /\ challenges' \in Seq(Challenge)
        /\ \A c \in DOMAIN challenges' : challenges'[c].open => challenges'[c].left > 0
    BY <1>9 DEF TypeOK, RevokeToken
  <2>2. tokens' \in Seq(Token) /\ DOMAIN tokens \subseteq DOMAIN tokens'
    BY <1>9 DEF TypeOK, RevokeToken
  <2> QED
    BY <1>9, <2>1, <2>2, AuthenticationAssumption DEF RevokeToken, TypeOK, RevokedEntries
<1>10. ASSUME NEW i \in Instance, Restart(i) PROVE TypeOK'
  <2>1. /\ challenges' \in Seq(Challenge)
        /\ \A c \in DOMAIN challenges' : challenges'[c].open => challenges'[c].left > 0
    <3>1. CASE i = Writer
      <4>1. /\ challenges' \in Seq(Challenge) /\ Len(challenges') = Len(challenges)
            /\ \A k \in DOMAIN challenges : ~challenges'[k].open
        BY <1>10, <3>1, RestartWears DEF Restart
      <4> QED
        BY <4>1, Fields, LenProperties
    <3>2. CASE i # Writer
      BY <1>10, <3>2 DEF TypeOK, Restart
    <3> QED
      BY <3>1, <3>2
  <2>2. tokens' \in Seq(Token) /\ DOMAIN tokens \subseteq DOMAIN tokens'
    BY <1>10 DEF TypeOK, Restart
  <2>3. lockouts' \in [User -> Nat]
    BY <1>10 DEF Restart, TypeOK, Never
  <2>4. revoked' \in [Instance -> SUBSET DOMAIN tokens']
    BY <1>10 DEF Restart, TypeOK
  <2>5. restarts' \in 0..MaxRestarts
    <3>1. MaxRestarts \in Nat
      BY AuthenticationAssumption
    <3>2. restarts \in Nat /\ restarts < MaxRestarts /\ restarts' = restarts + 1
      BY <1>10 DEF Restart, TypeOK
    <3> QED
      BY <3>1, <3>2
  <2> QED
    BY <1>10, <2>1, <2>2, <2>3, <2>4, <2>5 DEF Restart, TypeOK
<1>11. ASSUME Tick PROVE TypeOK'
  <2>1. /\ challenges' \in Seq(Challenge)
        /\ \A c \in DOMAIN challenges' : challenges'[c].open => challenges'[c].left > 0
    BY <1>11 DEF TypeOK, Tick
  <2>2. tokens' \in Seq(Token) /\ DOMAIN tokens \subseteq DOMAIN tokens'
    BY <1>11 DEF TypeOK, Tick
  <2> QED
    BY <1>11, <2>1, <2>2 DEF Tick, TypeOK
<1>12. CASE UNCHANGED vars
  BY <1>12 DEF vars, TypeOK
<1> QED
  BY <1>1, <1>2, <1>3, <1>4, <1>5, <1>6, <1>7, <1>8, <1>9, <1>10, <1>11, <1>12 DEF Next

-----------------------------------------------------------------------------
(* Steps.                                                                  *)

\* What a step does to the clock, blocks, challenges and tokens.
ChallengesGo ==
  /\ DOMAIN challenges \subseteq DOMAIN challenges'
  /\ \A c \in DOMAIN challenges : Worn(challenges'[c], challenges[c])
  /\ \A c \in DOMAIN challenges' \ DOMAIN challenges :
       \E u \in User : /\ StartChallenge(u) /\ challenges'[c].user = u
                       /\ challenges'[c].started = now /\ challenges'[c].left = MaxAttempts

TokensGo ==
  /\ DOMAIN tokens \subseteq DOMAIN tokens'
  /\ \A t \in DOMAIN tokens : tokens'[t] = tokens[t]
  /\ \A t, s \in DOMAIN tokens' \ DOMAIN tokens : t = s
  /\ \A t \in DOMAIN tokens' \ DOMAIN tokens :
       /\ tokens'[t].issued = now
       /\ \/ \E u \in User :
               PasswordLogin(u) /\ tokens'[t].user = u /\ tokens'[t].by = ByPassword
          \/ \E c \in DOMAIN challenges :
               /\ RightCode(c) /\ ~challenges'[c].open
               /\ tokens'[t].user = challenges[c].user /\ tokens'[t].by = c

\* Nothing happens to a challenge.
LEMMA WornOnes ==
  ASSUME NEW c \in Challenge
  PROVE  Worn(c, c)
BY AuthenticationAssumption DEF Challenge, Worn

\* Challenges only wear, but for a new one.
LEMMA ChallengesNext == TypeOK /\ [Next]_vars => ChallengesGo
<1> SUFFICES ASSUME TypeOK, [Next]_vars PROVE ChallengesGo
  OBVIOUS
<1> USE DEF twoFAVars, tokenVars
<1>1. ASSUME NEW u \in User, StartChallenge(u) PROVE ChallengesGo
  <2>1. /\ challenges' \in Seq(Challenge)
        /\ Added(challenges, challenges', [user |-> u, started |-> now,
                                           left |-> MaxAttempts, open |-> TRUE])
    BY <1>1, StartAdds
  <2>2. \A k \in DOMAIN challenges : Worn(challenges[k], challenges[k])
    BY Fields, WornOnes
  <2>3. DOMAIN challenges' = DOMAIN challenges \cup {Len(challenges) + 1}
    BY <2>1, Fields, LenProperties DEF Added
  <2>4. \A k \in DOMAIN challenges : challenges'[k] = challenges[k]
    BY <2>1 DEF Added
  <2>5. /\ challenges'[Len(challenges) + 1].user = u
        /\ challenges'[Len(challenges) + 1].started = now
        /\ challenges'[Len(challenges) + 1].left = MaxAttempts
    BY <2>1 DEF Added
  <2> QED
    BY <1>1, <2>2, <2>3, <2>4, <2>5 DEF ChallengesGo
<1>2. ASSUME NEW u \in User, PasswordLogin(u) PROVE ChallengesGo
  <2>1. challenges' = challenges
    BY <1>2 DEF PasswordLogin
  <2>2. \A c \in DOMAIN challenges : Worn(challenges[c], challenges[c])
    BY Fields, WornOnes
  <2> QED
    BY <2>1, <2>2 DEF ChallengesGo
<1>3. ASSUME NEW u \in User, Block(u) PROVE ChallengesGo
  <2>1. challenges' = challenges
    BY <1>3 DEF Block
  <2>2. \A c \in DOMAIN challenges : Worn(challenges[c], challenges[c])
    BY Fields, WornOnes
  <2> QED
    BY <2>1, <2>2 DEF ChallengesGo
<1>4. ASSUME NEW u \in User, Unblock(u) PROVE ChallengesGo
  <2>1. challenges' = challenges
    BY <1>4 DEF Unblock
  <2>2. \A c \in DOMAIN challenges : Worn(challenges[c], challenges[c])
    BY Fields, WornOnes
  <2> QED
    BY <2>1, <2>2 DEF ChallengesGo
<1>5. ASSUME NEW c \in DOMAIN challenges, ExpireChallenge(c) PROVE ChallengesGo
  <2>1. /\ challenges' \in Seq(Challenge) /\ Len(challenges') = Len(challenges)
        /\ \A k \in DOMAIN challenges : k # c => challenges'[k] = challenges[k]
        /\ Worn(challenges'[c], challenges[c])
    BY <1>5, CloseWears DEF ExpireChallenge
  <2>2. \A k \in DOMAIN challenges : Worn(challenges[k], challenges[k])
    BY Fields, WornOnes
  <2>3. DOMAIN challenges' = DOMAIN challenges
    BY <2>1, Fields, LenProperties
  <2> QED
    BY <2>1, <2>2, <2>3 DEF ChallengesGo
<1>6. ASSUME NEW c \in DOMAIN challenges, WrongCode(c) PROVE ChallengesGo
  <2>1. /\ challenges' \in Seq(Challenge) /\ Len(challenges') = Len(challenges)
        /\ \A k \in DOMAIN challenges : k # c => challenges'[k] = challenges[k]
        /\ Worn(challenges'[c], challenges[c])
    BY <1>6, WrongCodeWears
  <2>2. \A k \in DOMAIN challenges : Worn(challenges[k], challenges[k])
    BY Fields, WornOnes
  <2>3. DOMAIN challenges' = DOMAIN challenges
    BY <2>1, Fields, LenProperties
  <2> QED
    BY <2>1, <2>2, <2>3 DEF ChallengesGo
<1>7. ASSUME NEW c \in DOMAIN challenges, RightCode(c) PROVE ChallengesGo
  <2>1. /\ challenges' \in Seq(Challenge) /\ Len(challenges') = Len(challenges)
        /\ \A k \in DOMAIN challenges : k # c => challenges'[k] = challenges[k]
        /\ Worn(challenges'[c], challenges[c])
    BY <1>7, CloseWears DEF RightCode
  <2>2. \A k \in DOMAIN challenges : Worn(challenges[k], challenges[k])
    BY Fields, WornOnes
  <2>3. DOMAIN challenges' = DOMAIN challenges
    BY <2>1, Fields, LenProperties
  <2> QED
    BY <2>1, <2>2, <2>3 DEF ChallengesGo
<1>8. ASSUME NEW i \in Instance, NEW t \in DOMAIN tokens, UseToken(i, t) PROVE ChallengesGo
  <2>1. challenges' = challenges
    BY <1>8 DEF UseToken
  <2>2. \A c \in DOMAIN challenges : Worn(challenges[c], challenges[c])
    BY Fields, WornOnes
  <2> QED
    BY <2>1, <2>2 DEF ChallengesGo
<1>9. ASSUME NEW h \in DOMAIN tokens, NEW t \in DOMAIN tokens, RevokeToken(h, t) PROVE ChallengesGo
  <2>1. challenges' = challenges
    BY <1>9 DEF RevokeToken
  <2>2. \A c \in DOMAIN challenges : Worn(challenges[c], challenges[c])
    BY Fields, WornOnes
  <2> QED
    BY <2>1, <2>2 DEF ChallengesGo
<1>10. ASSUME NEW i \in Instance, Restart(i) PROVE ChallengesGo
  <2>1. CASE i = Writer
    <3>1. /\ challenges' \in Seq(Challenge) /\ Len(challenges') = Len(challenges)
          /\ \A k \in DOMAIN challenges : Worn(challenges'[k], challenges[k])
      BY <1>10, <2>1, RestartWears DEF Restart
    <3>2. DOMAIN challenges' = DOMAIN challenges
      BY <3>1, Fields, LenProperties
    <3> QED
      BY <3>1, <3>2 DEF ChallengesGo
  <2>2. CASE i # Writer
    <3>1. challenges' = challenges
      BY <1>10, <2>2 DEF Restart
    <3>2. \A c \in DOMAIN challenges : Worn(challenges[c], challenges[c])
      BY Fields, WornOnes
    <3> QED
      BY <3>1, <3>2 DEF ChallengesGo
  <2> QED
    BY <2>1, <2>2
<1>11. ASSUME Tick PROVE ChallengesGo
  <2>1. challenges' = challenges
    BY <1>11 DEF Tick
  <2>2. \A c \in DOMAIN challenges : Worn(challenges[c], challenges[c])
    BY Fields, WornOnes
  <2> QED
    BY <2>1, <2>2 DEF ChallengesGo
<1>12. CASE UNCHANGED vars
  <2>1. challenges' = challenges
    BY <1>12 DEF vars
  <2>2. \A c \in DOMAIN challenges : Worn(challenges[c], challenges[c])
    BY Fields, WornOnes
  <2> QED
    BY <2>1, <2>2 DEF ChallengesGo
<1> QED
  BY <1>1, <1>2, <1>3, <1>4, <1>5, <1>6, <1>7, <1>8, <1>9, <1>10, <1>11, <1>12 DEF Next

\* Tokens stay, and a new one comes by a password or by a code.
LEMMA TokensNext == TypeOK /\ [Next]_vars => TokensGo
<1> SUFFICES ASSUME TypeOK, [Next]_vars PROVE TokensGo
  OBVIOUS
<1> USE DEF twoFAVars, tokenVars
<1>1. ASSUME NEW u \in User, StartChallenge(u) PROVE TokensGo
  <2>1. tokens' = tokens
    BY <1>1 DEF StartChallenge
  <2> QED
    BY <2>1 DEF TokensGo
<1>2. ASSUME NEW u \in User, PasswordLogin(u) PROVE TokensGo
  <2>1. ByPassword \in Nat
    BY DEF ByPassword
  <2>2. tokens' \in Seq(Token) /\ Added(tokens, tokens', [user |-> u, issued |-> now, by |-> ByPassword])
    BY <1>2, <2>1, IssueAdds DEF PasswordLogin
  <2>3. DOMAIN tokens' = DOMAIN tokens \cup {Len(tokens) + 1}
    BY <2>2, Fields, LenProperties DEF Added
  <2>4. \A k \in DOMAIN tokens : tokens'[k] = tokens[k]
    BY <2>2 DEF Added
  <2>5. /\ tokens'[Len(tokens) + 1].user = u
        /\ tokens'[Len(tokens) + 1].issued = now
        /\ tokens'[Len(tokens) + 1].by = ByPassword
    BY <2>2 DEF Added
  <2> QED
    BY <1>2, <2>3, <2>4, <2>5 DEF TokensGo
<1>3. ASSUME NEW u \in User, Block(u) PROVE TokensGo
  <2>1. tokens' = tokens
    BY <1>3 DEF Block
  <2> QED
    BY <2>1 DEF TokensGo
<1>4. ASSUME NEW u \in User, Unblock(u) PROVE TokensGo
  <2>1. tokens' = tokens
    BY <1>4 DEF Unblock
  <2> QED
    BY <2>1 DEF TokensGo
<1>5. ASSUME NEW c \in DOMAIN challenges, ExpireChallenge(c) PROVE TokensGo
  <2>1. tokens' = tokens
    BY <1>5 DEF ExpireChallenge
  <2> QED
    BY <2>1 DEF TokensGo
<1>6. ASSUME NEW c \in DOMAIN challenges, WrongCode(c) PROVE TokensGo
  <2>1. tokens' = tokens
    BY <1>6 DEF WrongCode
  <2> QED
    BY <2>1 DEF TokensGo
<1>7. ASSUME NEW c \in DOMAIN challenges, RightCode(c) PROVE TokensGo
  <2>1. challenges[c].user \in User /\ c \in Nat
    BY Fields DEF Challenge
  <2>2. tokens' \in Seq(Token) /\ Added(tokens, tokens', [user |-> challenges[c].user, issued |-> now, by |-> c])
    BY <1>7, <2>1, IssueAdds DEF RightCode
  <2>3. DOMAIN tokens' = DOMAIN tokens \cup {Len(tokens) + 1}
    BY <2>2, Fields, LenProperties DEF Added
  <2>4. \A k \in DOMAIN tokens : tokens'[k] = tokens[k]
    BY <2>2 DEF Added
  <2>5. /\ tokens'[Len(tokens) + 1].user = challenges[c].user
        /\ tokens'[Len(tokens) + 1].issued = now
        /\ tokens'[Len(tokens) + 1].by = c
    BY <2>2 DEF Added
  <2>6. ~challenges'[c].open
    BY <1>7, CloseWears DEF RightCode
  <2> QED
    BY <1>7, <2>3, <2>4, <2>5, <2>6 DEF TokensGo
<1>8. ASSUME NEW i \in Instance, NEW t \in DOMAIN tokens, UseToken(i, t) PROVE TokensGo
  <2>1. tokens' = tokens
    BY <1>8 DEF UseToken
  <2> QED
    BY <2>1 DEF TokensGo
<1>9. ASSUME NEW h \in DOMAIN tokens, NEW t \in DOMAIN tokens, RevokeToken(h, t) PROVE TokensGo
  <2>1. tokens' = tokens
    BY <1>9 DEF RevokeToken
  <2> QED
    BY <2>1 DEF TokensGo
<1>10. ASSUME NEW i \in Instance, Restart(i) PROVE TokensGo
  <2>1. tokens' = tokens
    BY <1>10 DEF Restart
  <2> QED
    BY <2>1 DEF TokensGo
<1>11. ASSUME Tick PROVE TokensGo
  <2>1. tokens' = tokens
    BY <1>11 DEF Tick
  <2> QED
    BY <2>1 DEF TokensGo
<1>12. CASE UNCHANGED vars
  BY <1>12 DEF vars, TokensGo
<1> QED
  BY <1>1, <1>2, <1>3, <1>4, <1>5, <1>6, <1>7, <1>8, <1>9, <1>10, <1>11, <1>12 DEF Next

\* The clock, and the blocks.
ClockGoes ==
  /\ now' \in {now, now + 1}
  /\ \A u \in User : blockedSince'[u] \in {blockedSince[u], Never, now}

\* Time goes on, blocks are of now.
LEMMA ClockNext == TypeOK /\ [Next]_vars => ClockGoes
<1> SUFFICES ASSUME TypeOK, [Next]_vars PROVE ClockGoes
  OBVIOUS
<1> USE DEF twoFAVars, tokenVars
<1>1. ASSUME NEW u \in User, StartChallenge(u) PROVE ClockGoes
  BY <1>1 DEF StartChallenge, TypeOK, ClockGoes
<1>2. ASSUME NEW u \in User, PasswordLogin(u) PROVE ClockGoes
  BY <1>2 DEF PasswordLogin, TypeOK, ClockGoes
<1>3. ASSUME NEW u \in User, Block(u) PROVE ClockGoes
  BY <1>3 DEF Block, TypeOK, ClockGoes
<1>4. ASSUME NEW u \in User, Unblock(u) PROVE ClockGoes
  BY <1>4 DEF Unblock, TypeOK, ClockGoes
<1>5. ASSUME NEW c \in DOMAIN challenges, ExpireChallenge(c) PROVE ClockGoes
  BY <1>5 DEF ExpireChallenge, TypeOK, ClockGoes
<1>6. ASSUME NEW c \in DOMAIN challenges, WrongCode(c) PROVE ClockGoes
  BY <1>6 DEF WrongCode, TypeOK, ClockGoes
<1>7. ASSUME NEW c \in DOMAIN challenges, RightCode(c) PROVE ClockGoes
  BY <1>7 DEF RightCode, TypeOK, ClockGoes
<1>8. ASSUME NEW i \in Instance, NEW t \in DOMAIN tokens, UseToken(i, t) PROVE ClockGoes
  BY <1>8 DEF UseToken, TypeOK, ClockGoes
<1>9. ASSUME NEW h \in DOMAIN tokens, NEW t \in DOMAIN tokens, RevokeToken(h, t) PROVE ClockGoes
  BY <1>9 DEF RevokeToken, TypeOK, ClockGoes
<1>10. ASSUME NEW i \in Instance, Restart(i) PROVE ClockGoes
  BY <1>10 DEF Restart, TypeOK, ClockGoes
<1>11. ASSUME Tick PROVE ClockGoes
  BY <1>11 DEF Tick, TypeOK, ClockGoes
<1>12. CASE UNCHANGED vars
  BY <1>12 DEF vars, TypeOK, ClockGoes
<1> QED
  BY <1>1, <1>2, <1>3, <1>4, <1>5, <1>6, <1>7, <1>8, <1>9, <1>10, <1>11, <1>12 DEF Next

-----------------------------------------------------------------------------
(* The parts of the invariant.                                             *)

\* No step comes from the future.
LEMMA DatedNext == TypeOK /\ Dated /\ [Next]_vars => Dated'
<1> SUFFICES ASSUME TypeOK, Dated, [Next]_vars PROVE Dated'
  OBVIOUS
<1>1. ChallengesGo /\ TokensGo /\ ClockGoes
  BY ChallengesNext, TokensNext, ClockNext
<1>2. now <= now' /\ now \in Nat
  BY <1>1 DEF ClockGoes, TypeOK
<1>3. ASSUME NEW c \in DOMAIN challenges' PROVE challenges'[c].started <= now'
  <2>1. CASE c \in DOMAIN challenges
    <3>1. challenges[c].started \in Nat
      BY <2>1, Fields DEF Challenge
    <3> QED
      BY <1>1, <1>2, <2>1, <3>1 DEF Dated, ChallengesGo, Worn, ClockGoes
  <2>2. CASE c \notin DOMAIN challenges
    BY <1>1, <1>2, <2>2 DEF ChallengesGo
  <2> QED
    BY <2>1, <2>2
<1>4. ASSUME NEW t \in DOMAIN tokens'
      PROVE  tokens'[t].issued <= now' /\ tokens'[t].by \in {ByPassword} \cup DOMAIN challenges'
  <2>1. CASE t \in DOMAIN tokens
    <3>1. tokens[t].issued \in Nat
      BY <2>1, Fields DEF Token
    <3> QED
      BY <1>1, <1>2, <2>1, <3>1 DEF Dated, TokensGo, ChallengesGo, ClockGoes
  <2>2. CASE t \notin DOMAIN tokens
    BY <1>1, <1>2, <2>2 DEF TokensGo, ChallengesGo
  <2> QED
    BY <2>1, <2>2
<1> QED
  BY <1>3, <1>4 DEF Dated

\* No step uses a challenge twice: its code closes it, and what is closed stays closed.
LEMMA CodesNext == TypeOK /\ Dated /\ CodeLogsInOnce /\ [Next]_vars => CodeLogsInOnce'
<1> SUFFICES ASSUME TypeOK, Dated, CodeLogsInOnce, [Next]_vars,
                    NEW t \in DOMAIN tokens', tokens'[t].by # ByPassword
             PROVE  LET c == tokens'[t].by
                    IN /\ ~challenges'[c].open /\ challenges'[c].user = tokens'[t].user
                       /\ tokens'[t].issued <= challenges'[c].started + CodeTTL
                       /\ \A s \in DOMAIN tokens' : s # t => tokens'[s].by # c
  BY DEF CodeLogsInOnce
<1>1. ChallengesGo /\ TokensGo
  BY ChallengesNext, TokensNext
<1> DEFINE c == tokens'[t].by
<1>2. CASE t \in DOMAIN tokens
  <2>1. tokens'[t] = tokens[t] /\ c \in DOMAIN challenges
    BY <1>1, <1>2 DEF TokensGo, Dated
  <2>2. Worn(challenges'[c], challenges[c])
    BY <1>1, <2>1 DEF ChallengesGo
  <2>3. /\ ~challenges'[c].open /\ challenges'[c].user = tokens'[t].user
        /\ tokens'[t].issued <= challenges'[c].started + CodeTTL
    BY <1>2, <2>1, <2>2 DEF CodeLogsInOnce, Worn
  <2>4. ASSUME NEW s \in DOMAIN tokens', s # t, tokens'[s].by = c PROVE FALSE
    <3>1. CASE s \in DOMAIN tokens
      BY <1>1, <1>2, <2>1, <2>4, <3>1 DEF CodeLogsInOnce, TokensGo
    <3>2. CASE s \notin DOMAIN tokens
      <4>1. RightCode(c)
        BY <1>1, <2>4, <3>2 DEF TokensGo
      <4>2. challenges[c].open
        BY <4>1 DEF RightCode, Verifiable
      <4> QED
        BY <1>2, <2>1, <4>2 DEF CodeLogsInOnce
    <3> QED
      BY <3>1, <3>2
  <2> QED
    BY <2>3, <2>4
<1>3. CASE t \notin DOMAIN tokens
  <2>1. /\ c \in DOMAIN challenges /\ RightCode(c) /\ ~challenges'[c].open
        /\ tokens'[t].user = challenges[c].user /\ tokens'[t].issued = now
    BY <1>1, <1>3 DEF TokensGo
  <2>2. Worn(challenges'[c], challenges[c])
    BY <1>1, <2>1 DEF ChallengesGo
  <2>3. challenges[c].open /\ now <= challenges[c].started + CodeTTL
    <3>1. challenges[c].started \in Nat /\ now \in Nat
      BY <2>1, Fields DEF Challenge, TypeOK
    <3> QED
      BY <2>1, <3>1, AuthenticationAssumption DEF RightCode, Verifiable, Expired
  <2>4. ASSUME NEW s \in DOMAIN tokens', s # t, tokens'[s].by = c PROVE FALSE
    <3>1. s \in DOMAIN tokens
      BY <1>1, <1>3, <2>4 DEF TokensGo
    <3>2. tokens[s].by = c
      BY <1>1, <2>4, <3>1 DEF TokensGo
    <3> QED
      BY <1>3, <2>3, <3>1, <3>2 DEF CodeLogsInOnce
  <2> QED
    BY <2>1, <2>2, <2>3, <2>4 DEF Worn
<1> QED
  BY <1>2, <1>3

\* No step makes a challenge, or a token by password, younger than the block of its user.
LEMMA OlderNext == TypeOK /\ Dated /\ OlderThanBlock /\ [Next]_vars => OlderThanBlock'
<1> SUFFICES ASSUME TypeOK, Dated, OlderThanBlock, [Next]_vars,
                    NEW u \in User, blockedSince'[u] # Never
             PROVE  /\ \A c \in DOMAIN challenges' : challenges'[c].user = u =>
                         challenges'[c].started <= blockedSince'[u]
                    /\ \A t \in DOMAIN tokens' : tokens'[t].user = u /\ tokens'[t].by = ByPassword =>
                         tokens'[t].issued <= blockedSince'[u]
  BY DEF OlderThanBlock
<1>1. ChallengesGo /\ TokensGo /\ ClockGoes
  BY ChallengesNext, TokensNext, ClockNext
<1>2. blockedSince'[u] = now \/ (blockedSince'[u] = blockedSince[u] /\ blockedSince[u] # Never)
  BY <1>1 DEF ClockGoes
<1>3. ASSUME NEW c \in DOMAIN challenges', challenges'[c].user = u
      PROVE  challenges'[c].started <= blockedSince'[u]
  <2>1. CASE c \in DOMAIN challenges
    BY <1>1, <1>2, <1>3, <2>1 DEF ChallengesGo, Worn, OlderThanBlock, Dated
  <2>2. CASE c \notin DOMAIN challenges
    <3>1. StartChallenge(u) /\ challenges'[c].started = now
      BY <1>1, <1>3, <2>2 DEF ChallengesGo
    <3>2. blockedSince'[u] = blockedSince[u] /\ blockedSince[u] = Never
      BY <3>1 DEF StartChallenge
    <3> QED
      BY <3>2
  <2> QED
    BY <2>1, <2>2
<1>4. ASSUME NEW t \in DOMAIN tokens', tokens'[t].user = u, tokens'[t].by = ByPassword
      PROVE  tokens'[t].issued <= blockedSince'[u]
  <2>1. CASE t \in DOMAIN tokens
    BY <1>1, <1>2, <1>4, <2>1 DEF TokensGo, OlderThanBlock, Dated
  <2>2. CASE t \notin DOMAIN tokens
    <3>1. ByPassword \notin DOMAIN challenges
      BY Fields DEF ByPassword
    <3>2. PasswordLogin(u)
      BY <1>1, <1>4, <2>2, <3>1 DEF TokensGo
    <3> QED
      BY <3>2 DEF PasswordLogin
  <2> QED
    BY <2>1, <2>2
<1> QED
  BY <1>3, <1>4

\* What has expired stays expired.
LEMMA PastExpStays ==
  ASSUME TypeOK, [Next]_vars, NEW t \in DOMAIN tokens, PastExp(t)
  PROVE  PastExp(t)'
<1>1. tokens'[t] = tokens[t] /\ now' \in {now, now + 1} /\ now \in Nat
  BY TokensNext, ClockNext DEF TokensGo, ClockGoes, TypeOK
<1>2. Exp(t)' = Exp(t)
  BY <1>1 DEF Exp
<1>3. Exp(t) * TicksPerSecond \in Int
  <2>1. tokens[t].issued + TokenTTL \in Nat
    BY Fields, AuthenticationAssumption DEF Token
  <2>2. Exp(t) \in Int
    BY <2>1, AuthenticationAssumption DEF Exp, Unix
  <2> QED
    BY <2>2, AuthenticationAssumption
<1> QED
  BY <1>1, <1>2, <1>3 DEF PastExp

\* The writer forgets only revocations of tokens that have expired.
LEMMA WriterRemembers ==
  ASSUME TypeOK, [Next]_vars, restarts' = 0
  PROVE  /\ restarts = 0
         /\ \A t \in revoked[Writer] : t \in revoked'[Writer] \/ PastExp(t)
         /\ \A t \in revokedEver' : t \in revokedEver \/ t \in revoked'[Writer]
<1> USE DEF TypeOK, twoFAVars, tokenVars
<1>1. ASSUME NEW u \in User, StartChallenge(u)
      PROVE  /\ restarts = 0
             /\ \A x \in revoked[Writer] : x \in revoked'[Writer] \/ PastExp(x)
             /\ \A x \in revokedEver' : x \in revokedEver \/ x \in revoked'[Writer]
  BY <1>1, AuthenticationAssumption DEF StartChallenge
<1>2. ASSUME NEW u \in User, PasswordLogin(u)
      PROVE  /\ restarts = 0
             /\ \A x \in revoked[Writer] : x \in revoked'[Writer] \/ PastExp(x)
             /\ \A x \in revokedEver' : x \in revokedEver \/ x \in revoked'[Writer]
  BY <1>2, AuthenticationAssumption DEF PasswordLogin, IssueToken
<1>3. ASSUME NEW u \in User, Block(u)
      PROVE  /\ restarts = 0
             /\ \A x \in revoked[Writer] : x \in revoked'[Writer] \/ PastExp(x)
             /\ \A x \in revokedEver' : x \in revokedEver \/ x \in revoked'[Writer]
  BY <1>3, AuthenticationAssumption DEF Block
<1>4. ASSUME NEW u \in User, Unblock(u)
      PROVE  /\ restarts = 0
             /\ \A x \in revoked[Writer] : x \in revoked'[Writer] \/ PastExp(x)
             /\ \A x \in revokedEver' : x \in revokedEver \/ x \in revoked'[Writer]
  BY <1>4, AuthenticationAssumption DEF Unblock
<1>5. ASSUME NEW c \in DOMAIN challenges, ExpireChallenge(c)
      PROVE  /\ restarts = 0
             /\ \A x \in revoked[Writer] : x \in revoked'[Writer] \/ PastExp(x)
             /\ \A x \in revokedEver' : x \in revokedEver \/ x \in revoked'[Writer]
  BY <1>5, AuthenticationAssumption DEF ExpireChallenge
<1>6. ASSUME NEW c \in DOMAIN challenges, WrongCode(c)
      PROVE  /\ restarts = 0
             /\ \A x \in revoked[Writer] : x \in revoked'[Writer] \/ PastExp(x)
             /\ \A x \in revokedEver' : x \in revokedEver \/ x \in revoked'[Writer]
  BY <1>6, AuthenticationAssumption DEF WrongCode
<1>7. ASSUME NEW c \in DOMAIN challenges, RightCode(c)
      PROVE  /\ restarts = 0
             /\ \A x \in revoked[Writer] : x \in revoked'[Writer] \/ PastExp(x)
             /\ \A x \in revokedEver' : x \in revokedEver \/ x \in revoked'[Writer]
  BY <1>7, AuthenticationAssumption DEF RightCode, IssueToken
<1>8. ASSUME NEW i \in Instance, NEW t \in DOMAIN tokens, UseToken(i, t)
      PROVE  /\ restarts = 0
             /\ \A x \in revoked[Writer] : x \in revoked'[Writer] \/ PastExp(x)
             /\ \A x \in revokedEver' : x \in revokedEver \/ x \in revoked'[Writer]
  BY <1>8, AuthenticationAssumption DEF UseToken, RevokedEntries
<1>9. ASSUME NEW h \in DOMAIN tokens, NEW t \in DOMAIN tokens, RevokeToken(h, t)
      PROVE  /\ restarts = 0
             /\ \A x \in revoked[Writer] : x \in revoked'[Writer] \/ PastExp(x)
             /\ \A x \in revokedEver' : x \in revokedEver \/ x \in revoked'[Writer]
  BY <1>9, AuthenticationAssumption DEF RevokeToken, RevokedEntries
<1>10. ASSUME NEW i \in Instance, Restart(i)
      PROVE  /\ restarts = 0
             /\ \A x \in revoked[Writer] : x \in revoked'[Writer] \/ PastExp(x)
             /\ \A x \in revokedEver' : x \in revokedEver \/ x \in revoked'[Writer]
  BY <1>10, AuthenticationAssumption DEF Restart
<1>11. ASSUME Tick
      PROVE  /\ restarts = 0
             /\ \A x \in revoked[Writer] : x \in revoked'[Writer] \/ PastExp(x)
             /\ \A x \in revokedEver' : x \in revokedEver \/ x \in revoked'[Writer]
  BY <1>11, AuthenticationAssumption DEF Tick
<1>12. CASE UNCHANGED vars
  BY <1>12 DEF vars
<1> QED
  BY <1>1, <1>2, <1>3, <1>4, <1>5, <1>6, <1>7, <1>8, <1>9, <1>10, <1>11, <1>12 DEF Next

\* The revocations an instance knows.
Known == \A i \in Instance : revoked[i] \subseteq revokedEver

\* An instance learns only of real revocations.
LEMMA KnownNext == TypeOK /\ Known /\ [Next]_vars => Known'
<1> SUFFICES ASSUME TypeOK, Known, [Next]_vars PROVE Known'
  OBVIOUS
<1> USE DEF twoFAVars, tokenVars
<1>1. ASSUME NEW u \in User, StartChallenge(u) PROVE Known'
  BY <1>1, AuthenticationAssumption DEF StartChallenge, TypeOK, Known
<1>2. ASSUME NEW u \in User, PasswordLogin(u) PROVE Known'
  BY <1>2, AuthenticationAssumption DEF PasswordLogin, IssueToken, TypeOK, Known
<1>3. ASSUME NEW u \in User, Block(u) PROVE Known'
  BY <1>3, AuthenticationAssumption DEF Block, TypeOK, Known
<1>4. ASSUME NEW u \in User, Unblock(u) PROVE Known'
  BY <1>4, AuthenticationAssumption DEF Unblock, TypeOK, Known
<1>5. ASSUME NEW c \in DOMAIN challenges, ExpireChallenge(c) PROVE Known'
  BY <1>5, AuthenticationAssumption DEF ExpireChallenge, TypeOK, Known
<1>6. ASSUME NEW c \in DOMAIN challenges, WrongCode(c) PROVE Known'
  BY <1>6, AuthenticationAssumption DEF WrongCode, TypeOK, Known
<1>7. ASSUME NEW c \in DOMAIN challenges, RightCode(c) PROVE Known'
  BY <1>7, AuthenticationAssumption DEF RightCode, IssueToken, TypeOK, Known
<1>8. ASSUME NEW i \in Instance, NEW t \in DOMAIN tokens, UseToken(i, t) PROVE Known'
  BY <1>8, AuthenticationAssumption DEF UseToken, RevokedEntries, TypeOK, Known
<1>9. ASSUME NEW h \in DOMAIN tokens, NEW t \in DOMAIN tokens, RevokeToken(h, t) PROVE Known'
  BY <1>9, AuthenticationAssumption DEF RevokeToken, RevokedEntries, TypeOK, Known
<1>10. ASSUME NEW i \in Instance, Restart(i) PROVE Known'
  BY <1>10, AuthenticationAssumption DEF Restart, TypeOK, Known
<1>11. ASSUME Tick PROVE Known'
  BY <1>11, AuthenticationAssumption DEF Tick, TypeOK, Known
<1>12. CASE UNCHANGED vars
  BY <1>12, AuthenticationAssumption DEF vars, TypeOK, Known
<1> QED
  BY <1>1, <1>2, <1>3, <1>4, <1>5, <1>6, <1>7, <1>8, <1>9, <1>10, <1>11, <1>12 DEF Next

\* No step loses a revocation that still matters.
LEMMA RevocationsNext == TypeOK /\ RevocationsKept /\ [Next]_vars => RevocationsKept'
<1> SUFFICES ASSUME TypeOK, RevocationsKept, [Next]_vars PROVE RevocationsKept'
  OBVIOUS
<1>1. Known'
  BY KnownNext DEF Known, RevocationsKept
<1>2. ASSUME restarts' = 0, NEW t \in revokedEver' PROVE t \in revoked'[Writer] \/ PastExp(t)'
  <2>1. CASE t \in revokedEver
    <3>1. t \in revoked[Writer] \/ PastExp(t)
      BY <1>2, <2>1, WriterRemembers DEF RevocationsKept
    <3>2. t \in DOMAIN tokens
      BY <2>1 DEF TypeOK
    <3> QED
      BY <1>2, <3>1, <3>2, WriterRemembers, PastExpStays
  <2>2. CASE t \notin revokedEver
    BY <1>2, <2>2, WriterRemembers
  <2> QED
    BY <2>1, <2>2
<1> QED
  BY <1>1, <1>2 DEF RevocationsKept, Known

\* No step shortens a lockout.
LEMMA LockoutsNext == TypeOK /\ LockoutsKept /\ [Next]_vars => LockoutsKept'
<1> SUFFICES ASSUME TypeOK, LockoutsKept, [Next]_vars, restarts' = 0, NEW q \in User,
                    lockedAt'[q] # Never, now' < lockedAt'[q] + BlockDuration
             PROVE  lockouts'[q] = lockedAt'[q] + BlockDuration
  BY DEF LockoutsKept
<1> USE DEF twoFAVars, tokenVars
<1>0. now \in Nat /\ lockedAt[q] \in Nat /\ BlockDuration \in Nat \ {0} /\ restarts \in Nat
  BY AuthenticationAssumption DEF TypeOK
<1>1. ASSUME NEW u \in User, StartChallenge(u) PROVE lockouts'[q] = lockedAt'[q] + BlockDuration
  <2>1. restarts = 0 /\ lockedAt' = lockedAt /\ now' = now
    BY <1>1 DEF StartChallenge
  <2>2. lockouts[q] = lockedAt[q] + BlockDuration
    BY <2>1 DEF LockoutsKept
  <2>3. LockedOut(q)
    BY <1>0, <2>1, <2>2 DEF LockedOut, Never
  <2>4. u # q /\ lockouts' = [lockouts EXCEPT ![u] = Never]
    BY <1>1, <2>3 DEF StartChallenge
  <2> QED
    BY <2>1, <2>2, <2>4 DEF TypeOK
<1>2. ASSUME NEW u \in User, PasswordLogin(u) PROVE lockouts'[q] = lockedAt'[q] + BlockDuration
  BY <1>2 DEF PasswordLogin, LockoutsKept
<1>3. ASSUME NEW u \in User, Block(u) PROVE lockouts'[q] = lockedAt'[q] + BlockDuration
  BY <1>3 DEF Block, LockoutsKept
<1>4. ASSUME NEW u \in User, Unblock(u) PROVE lockouts'[q] = lockedAt'[q] + BlockDuration
  BY <1>4 DEF Unblock, LockoutsKept
<1>5. ASSUME NEW c \in DOMAIN challenges, ExpireChallenge(c) PROVE lockouts'[q] = lockedAt'[q] + BlockDuration
  BY <1>5 DEF ExpireChallenge, LockoutsKept
<1>6. ASSUME NEW c \in DOMAIN challenges, WrongCode(c) PROVE lockouts'[q] = lockedAt'[q] + BlockDuration
  <2>1. restarts = 0 /\ now' = now
    BY <1>6 DEF WrongCode
  <2>2. CASE challenges[c].left - 1 = 0 /\ challenges[c].user = q
    <3>1. /\ lockouts' = [lockouts EXCEPT ![q] = now + BlockDuration]
          /\ lockedAt' = [lockedAt EXCEPT ![q] = now]
      BY <1>6, <2>2 DEF WrongCode
    <3> QED
      BY <3>1 DEF TypeOK
  <2>3. CASE ~(challenges[c].left - 1 = 0 /\ challenges[c].user = q)
    <3>1. lockouts'[q] = lockouts[q] /\ lockedAt'[q] = lockedAt[q]
      BY <1>6, <2>3 DEF WrongCode, TypeOK
    <3> QED
      BY <2>1, <3>1 DEF LockoutsKept
  <2> QED
    BY <2>2, <2>3
<1>7. ASSUME NEW c \in DOMAIN challenges, RightCode(c) PROVE lockouts'[q] = lockedAt'[q] + BlockDuration
  BY <1>7 DEF RightCode, LockoutsKept
<1>8. ASSUME NEW i \in Instance, NEW t \in DOMAIN tokens, UseToken(i, t) PROVE lockouts'[q] = lockedAt'[q] + BlockDuration
  BY <1>8 DEF UseToken, LockoutsKept
<1>9. ASSUME NEW h \in DOMAIN tokens, NEW t \in DOMAIN tokens, RevokeToken(h, t) PROVE lockouts'[q] = lockedAt'[q] + BlockDuration
  BY <1>9 DEF RevokeToken, LockoutsKept
<1>10. ASSUME NEW i \in Instance, Restart(i) PROVE lockouts'[q] = lockedAt'[q] + BlockDuration
  BY <1>0, <1>10 DEF Restart
<1>11. ASSUME Tick PROVE lockouts'[q] = lockedAt'[q] + BlockDuration
  <2>1. restarts = 0 /\ lockedAt' = lockedAt /\ lockouts' = lockouts /\ now' = now + 1
    BY <1>11 DEF Tick
  <2> QED
    BY <1>0, <2>1 DEF LockoutsKept
<1>12. CASE UNCHANGED vars
  BY <1>12 DEF vars, LockoutsKept
<1> QED
  BY <1>1, <1>2, <1>3, <1>4, <1>5, <1>6, <1>7, <1>8, <1>9, <1>10, <1>11, <1>12 DEF Next

\* The invariant holds at the start.
LEMMA IInvInit == Init => IInv
<1> SUFFICES ASSUME Init PROVE IInv
  OBVIOUS
<1>1. TypeOK
  BY TypeInit
<1>2. DOMAIN challenges = {} /\ DOMAIN tokens = {}
  BY DEF Init
<1>3. Dated /\ CodeLogsInOnce /\ OlderThanBlock
  BY <1>2 DEF Dated, CodeLogsInOnce, OlderThanBlock
<1>4. RevocationsKept /\ LockoutsKept
  BY DEF Init, RevocationsKept, LockoutsKept
<1> QED
  BY <1>1, <1>3, <1>4 DEF IInv

\* Every step keeps it.
LEMMA IInvNext == IInv /\ [Next]_vars => IInv'
BY TypeNext, DatedNext, CodesNext, OlderNext, RevocationsNext, LockoutsNext DEF IInv

\* It always holds.
LEMMA IInvCorrect == Spec => []IInv
BY IInvInit, IInvNext, PTL DEF Spec

-----------------------------------------------------------------------------
(* What follows from it.                                                   *)

\* Every variable keeps its type, and an open challenge has an attempt left.
THEOREM TypeCorrect == Spec => []TypeOK
<1>1. IInv => TypeOK
  BY DEF IInv
<1> QED
  BY <1>1, IInvCorrect, PTL

\* A challenge logs its user in at most once and within CodeTTL: VerifyCode compares the
\* code and takes the challenge out of the map under one lock, so no second call finds it.
THEOREM CodesAreUsedOnce == Spec => []CodeLogsInOnce
<1>1. IInv => CodeLogsInOnce
  BY DEF IInv
<1> QED
  BY <1>1, IInvCorrect, PTL

\* Only a challenge that was started before the block gets a blocked user a token.
THEOREM BlockStopsNewLogins == Spec => []BlockedOnlyByOldChallenge
<1>1. IInv => BlockedOnlyByOldChallenge
  <2> SUFFICES ASSUME IInv, NEW t \in DOMAIN tokens, blockedSince[tokens[t].user] # Never,
                      tokens[t].issued > blockedSince[tokens[t].user]
               PROVE  /\ tokens[t].by # ByPassword
                      /\ challenges[tokens[t].by].started <= blockedSince[tokens[t].user]
    BY DEF BlockedOnlyByOldChallenge
  <2>0. TypeOK
    BY DEF IInv
  <2>01. tokens[t] \in Token
    BY <2>0, Fields
  <2>1. tokens[t].user \in User /\ tokens[t].issued \in Nat /\ blockedSince[tokens[t].user] \in Nat
    BY <2>0, <2>01 DEF TypeOK, Token
  <2>2. tokens[t].by # ByPassword
    BY <2>1 DEF IInv, OlderThanBlock
  <2>3. /\ tokens[t].by \in DOMAIN challenges
        /\ challenges[tokens[t].by].user = tokens[t].user
    BY <2>2 DEF IInv, Dated, CodeLogsInOnce
  <2> QED
    BY <2>1, <2>2, <2>3 DEF IInv, OlderThanBlock
<1> QED
  BY <1>1, IInvCorrect, PTL

\* Whole seconds.
LEMMA Division ==
  ASSUME NEW a \in Nat, NEW k \in Nat \ {0}
  PROVE  a \div k \in Nat /\ (a \div k) * k <= a /\ a < ((a \div k) + 1) * k
OBVIOUS

\* Later times have later seconds.
LEMMA DivisionGrows ==
  ASSUME NEW a \in Nat, NEW b \in Nat, NEW k \in Nat \ {0}, a <= b
  PROVE  a \div k <= b \div k
OBVIOUS

\* The end of a second, in ticks.
LEMMA ProductGrows ==
  ASSUME NEW p \in Nat, NEW q \in Nat, NEW k \in Nat \ {0}, p <= q
  PROVE  (p + 1) * k <= q * k + k
OBVIOUS

\* A token that nobody revoked is accepted everywhere for its time to live, and for less
\* than a second longer.
THEOREM TokensLive == Spec => []TokenLivesItsTTL
<1>1. IInv => TokenLivesItsTTL
  <2> SUFFICES ASSUME IInv, NEW t \in DOMAIN tokens \ revokedEver, NEW i \in Instance
               PROVE  /\ now <= tokens[t].issued + TokenTTL => Accepts(i, t)
                      /\ Accepts(i, t) => now < tokens[t].issued + TokenTTL + TicksPerSecond
    BY DEF TokenLivesItsTTL
  <2> DEFINE end == tokens[t].issued + TokenTTL
             k == TicksPerSecond
  <2>0. TypeOK
    BY DEF IInv
  <2>01. tokens[t] \in Token
    BY <2>0, Fields
  <2>1. end \in Nat /\ now \in Nat /\ k \in Nat \ {0}
    <3>1. tokens[t].issued \in Nat
      BY <2>01 DEF Token
    <3>2. TokenTTL \in Nat /\ TicksPerSecond \in Nat \ {0}
      BY AuthenticationAssumption
    <3>3. now \in Nat
      BY <2>0 DEF TypeOK
    <3> QED
      BY <3>1, <3>2, <3>3
  <2>2. Accepts(i, t) <=> now \div k <= end \div k
    BY DEF Accepts, Unix, Exp, IInv, RevocationsKept
  <2> HIDE DEF end, k
  <2>3. now <= end => now \div k <= end \div k
    BY <2>1, DivisionGrows
  <2>4. ASSUME now \div k <= end \div k PROVE now < end + k
    <3>1. now \div k \in Nat /\ now < ((now \div k) + 1) * k
      BY <2>1, Division
    <3>2. end \div k \in Nat /\ (end \div k) * k <= end
      BY <2>1, Division
    <3>3. ((now \div k) + 1) * k <= (end \div k) * k + k
      BY <2>1, <2>4, <3>1, <3>2, ProductGrows
    <3> DEFINE n == ((now \div k) + 1) * k
               e == (end \div k) * k
    <3>4. n \in Int /\ e \in Int
      BY <2>1, <3>1, <3>2
    <3> HIDE DEF n, e
    <3>5. now < n /\ n <= e + k /\ e <= end
      BY <3>1, <3>2, <3>3 DEF n, e
    <3> QED
      BY <2>1, <3>4, <3>5
  <2> QED
    BY <2>2, <2>3, <2>4 DEF end, k
<1> QED
  BY <1>1, IInvCorrect, PTL

\* The instance that revoked a token refuses it until it expires, unless it restarts.
THEOREM RevocationsHold == Spec => []RevocationHoldsHere
<1>1. IInv => RevocationHoldsHere
  BY DEF IInv, RevocationsKept, RevocationHoldsHere, Accepts
<1> QED
  BY <1>1, IInvCorrect, PTL

\* A user who ran out of attempts neither logs in by a code nor gets a new challenge for
\* BlockDuration, unless the writer restarts.
THEOREM LockoutsHold == Spec => LockoutHolds
<1>1. ASSUME IInv, [Next]_vars, NEW u \in User,
             lockedAt[u] # Never, now < lockedAt[u] + BlockDuration, restarts = 0
      PROVE  /\ \A t \in DOMAIN tokens' \ DOMAIN tokens :
                  tokens'[t].user = u => tokens'[t].by = ByPassword
             /\ \A c \in DOMAIN challenges' \ DOMAIN challenges : challenges'[c].user # u
  <2>0. TypeOK
    BY <1>1 DEF IInv
  <2>1. ChallengesGo /\ TokensGo
    BY <1>1, <2>0, ChallengesNext, TokensNext
  <2>2. lockouts[u] = lockedAt[u] + BlockDuration
    BY <1>1 DEF IInv, LockoutsKept
  <2>3. lockedAt[u] \in Nat /\ BlockDuration \in Nat \ {0} /\ now \in Nat
    BY <2>0, AuthenticationAssumption DEF TypeOK
  <2>4. LockedOut(u)
    BY <1>1, <2>2, <2>3 DEF LockedOut, Never
  <2>5. ~StartChallenge(u)
    BY <2>4 DEF StartChallenge
  <2>6. \A c \in DOMAIN challenges : challenges[c].user = u => ~RightCode(c)
    BY <2>4 DEF RightCode, Verifiable
  <2> QED
    BY <2>1, <2>5, <2>6 DEF ChallengesGo, TokensGo
<1>2. IInv /\ [Next]_vars =>
        [\A u \in User :
           (lockedAt[u] # Never /\ now < lockedAt[u] + BlockDuration /\ restarts = 0) =>
             /\ \A t \in DOMAIN tokens' \ DOMAIN tokens :
                  tokens'[t].user = u => tokens'[t].by = ByPassword
             /\ \A c \in DOMAIN challenges' \ DOMAIN challenges : challenges'[c].user # u]_vars
  BY <1>1
<1> QED
  BY <1>2, IInvCorrect, PTL DEF Spec, LockoutHolds

-----------------------------------------------------------------------------
(* Sums. The attempts left are added up challenge by challenge; what is     *)
(* said about the sum of every prefix has no least counterexample.          *)

\* The order of the naturals.
NatLess == {ss \in Nat \X Nat : ss[1] < ss[2]}

\* It has no infinite descent, says the library.
LEMMA NatWF == IsWellFoundedOn(NatLess, Nat)
  BY NatLessThanWellFounded DEF OpToRel, NatLess

\* A property of 0 that goes from each number to the next holds up to n.
LEMMA UpTo ==
  ASSUME NEW n \in Nat, NEW T \in SUBSET Nat, 0 \in T,
         \A k \in 1..n : k - 1 \in T => k \in T
  PROVE  \A k \in 0..n : k \in T
<1> DEFINE out == {k \in 0..n : k \notin T}
<1>1. CASE out = {}
  BY <1>1
<1>2. CASE out # {}
  <2>1. out \in SUBSET Nat
    OBVIOUS
  <2> HIDE DEF out
  <2>2. PICK k \in out : \A m \in out : ~(<<m, k>> \in NatLess)
    BY <1>2, <2>1, NatWF, WFMin
  <2> USE DEF out
  <2>3. k \in 1..n
    BY <2>2
  <2>4. k - 1 \in 0..n /\ <<k - 1, k>> \in NatLess
    BY <2>3 DEF NatLess
  <2>5. k - 1 \in T
    BY <2>2, <2>4
  <2> QED
    BY <2>2, <2>3, <2>5
<1> QED
  BY <1>1, <1>2

\* f[k] is the sum of the first k of the n numbers in w.
SumsTo(f, w, n) ==
  f \in [0..n -> Nat] /\ f[0] = 0 /\ \A k \in 1..n : f[k] = f[k - 1] + w[k]

\* There are such sums.
LEMMA SumExists ==
  ASSUME NEW n \in Nat, NEW w \in [1..n -> Nat]
  PROVE  \E f : SumsTo(f, w, n)
<1> DEFINE T == {k \in Nat : k <= n => \E f : SumsTo(f, w, k)}
<1>1. 0 \in T
  <2>1. SumsTo([k \in 0..0 |-> 0], w, 0)
    BY DEF SumsTo
  <2> QED
    BY <2>1
<1>2. ASSUME NEW k \in 1..n, k - 1 \in T PROVE k \in T
  <2>1. PICK f : SumsTo(f, w, k - 1)
    BY <1>2
  <2> DEFINE g == [j \in 0..k |-> IF j = k THEN f[k - 1] + w[k] ELSE f[j]]
  <2>2. f[k - 1] \in Nat /\ w[k] \in Nat
    BY <2>1 DEF SumsTo
  <2>3. g \in [0..k -> Nat] /\ g[0] = 0
    BY <2>1, <2>2 DEF SumsTo
  <2>4. ASSUME NEW j \in 1..k PROVE g[j] = g[j - 1] + w[j]
    BY <2>1 DEF SumsTo
  <2>5. SumsTo(g, w, k)
    BY <2>3, <2>4 DEF SumsTo
  <2> HIDE DEF g
  <2> QED
    BY <2>5
<1>3. T \in SUBSET Nat
  OBVIOUS
<1> HIDE DEF T
<1>4. \A k \in 0..n : k \in T
  BY <1>1, <1>2, <1>3, UpTo
<1>5. n \in T
  BY <1>4
<1> QED
  BY <1>5 DEF T

\* The recursive definition computes them.
LEMMA SumsAreComputed ==
  ASSUME NEW n \in Nat, NEW w \in [1..n -> Nat], NEW g,
         g = [k \in 0..n |-> IF k = 0 THEN 0 ELSE g[k - 1] + w[k]]
  PROVE  SumsTo(g, w, n)
<1>1. g[0] = 0 /\ \A k \in 1..n : g[k] = g[k - 1] + w[k]
  OBVIOUS
<1> DEFINE T == {k \in Nat : k <= n => g[k] \in Nat}
<1>2. 0 \in T
  BY <1>1
<1>3. ASSUME NEW k \in 1..n, k - 1 \in T PROVE k \in T
  BY <1>1, <1>3
<1>4. \A k \in 0..n : k \in T
  <2>1. T \in SUBSET Nat
    OBVIOUS
  <2> HIDE DEF T
  <2> QED
    BY <1>2, <1>3, <2>1, UpTo
<1>5. g \in [0..n -> Nat]
  BY <1>4
<1> QED
  BY <1>1, <1>5 DEF SumsTo

\* Smaller numbers have smaller sums.
LEMMA SumsShrink ==
  ASSUME NEW n \in Nat, NEW m \in Nat, n <= m, NEW w \in [1..n -> Nat], NEW v \in [1..m -> Nat],
         NEW f, SumsTo(f, w, n), NEW g, SumsTo(g, v, m),
         \A k \in 1..n : v[k] <= w[k]
  PROVE  \A k \in 0..n : g[k] <= f[k]
<1> DEFINE T == {k \in Nat : k <= n => g[k] <= f[k]}
<1>1. 0 \in T
  BY DEF SumsTo
<1>2. ASSUME NEW k \in 1..n, k - 1 \in T PROVE k \in T
  <2>1. k - 1 \in 0..n /\ k - 1 \in 0..m /\ k \in 1..m
    OBVIOUS
  <2>2. w[k] \in Nat /\ v[k] \in Nat /\ v[k] <= w[k]
    BY <2>1
  <2>3. f[k - 1] \in Nat /\ f[k] = f[k - 1] + w[k]
    BY <2>1 DEF SumsTo
  <2>4. g[k - 1] \in Nat /\ g[k] = g[k - 1] + v[k]
    BY <2>1 DEF SumsTo
  <2>5. g[k - 1] <= f[k - 1]
    BY <1>2, <2>1
  <2> QED
    BY <2>2, <2>3, <2>4, <2>5
<1>3. \A k \in 0..n : k \in T
  <2>1. T \in SUBSET Nat
    OBVIOUS
  <2> HIDE DEF T
  <2> QED
    BY <1>1, <1>2, <2>1, UpTo
<1> QED
  BY <1>3

\* One number less at one place makes all later sums less.
LEMMA SumsDrop ==
  ASSUME NEW n \in Nat, NEW w \in [1..n -> Nat], NEW v \in [1..n -> Nat],
         NEW f, SumsTo(f, w, n), NEW g, SumsTo(g, v, n), NEW c \in 1..n,
         v[c] < w[c], \A k \in 1..n : v[k] <= w[k]
  PROVE  g[n] < f[n]
<1>1. g[c - 1] <= f[c - 1]
  <2>1. \A k \in 0..n : g[k] <= f[k]
    <3>1. n <= n
      OBVIOUS
    <3> QED
      BY <3>1, SumsShrink
  <2> QED
    BY <2>1
<1> DEFINE T == {k \in Nat : c <= k /\ k <= n => g[k] < f[k]}
<1>2. 0 \in T
  OBVIOUS
<1>3. ASSUME NEW k \in 1..n, k - 1 \in T PROVE k \in T
  <2>0. k - 1 \in 0..n
    OBVIOUS
  <2>1. /\ f[k] = f[k - 1] + w[k] /\ g[k] = g[k - 1] + v[k] /\ v[k] <= w[k]
        /\ w[k] \in Nat /\ v[k] \in Nat /\ f[k - 1] \in Nat /\ g[k - 1] \in Nat
    BY <2>0 DEF SumsTo
  <2>2. CASE k = c
    BY <1>1, <2>1, <2>2
  <2>3. CASE k < c
    BY <2>3
  <2>4. CASE c < k
    <3>1. g[k - 1] < f[k - 1]
      BY <1>3, <2>4
    <3> QED
      BY <2>1, <3>1
  <2> QED
    BY <2>2, <2>3, <2>4
<1>4. \A k \in 0..n : k \in T
  <2>1. T \in SUBSET Nat
    OBVIOUS
  <2> HIDE DEF T
  <2> QED
    BY <1>2, <1>3, <2>1, UpTo
<1> QED
  BY <1>4

-----------------------------------------------------------------------------
(* Wrong codes. Each uses up one attempt of a challenge somebody asked for. *)

\* The attempts left on each challenge of a user, none on a closed one.
Left(u) ==
  [c \in 1..Len(challenges) |->
     IF challenges[c].open /\ challenges[c].user = u THEN challenges[c].left ELSE 0]

\* OpenAttempts is the sum of them.
LEMMA OpenAttemptsAreTheSum ==
  ASSUME TypeOK, NEW u \in User
  PROVE  /\ Left(u) \in [1..Len(challenges) -> Nat]
         /\ \E f : SumsTo(f, Left(u), Len(challenges)) /\ OpenAttempts(u) = f[Len(challenges)]
<1> DEFINE n == Len(challenges)
           w == Left(u)
           g == CHOOSE upTo : upTo = [k \in 0..Len(challenges) |->
                  IF k = 0 THEN 0
                  ELSE upTo[k - 1] + (IF challenges[k].open /\ challenges[k].user = u
                                      THEN challenges[k].left ELSE 0)]
<1>1. n \in Nat /\ \A c \in 1..n : challenges[c].left \in Nat
  BY Fields, AuthenticationAssumption DEF Challenge
<1>2. w \in [1..n -> Nat]
  BY <1>1 DEF Left
<1>3. OpenAttempts(u) = g[n]
  BY DEF OpenAttempts
<1>4. \A k \in 1..n : w[k] = IF challenges[k].open /\ challenges[k].user = u
                             THEN challenges[k].left ELSE 0
  BY DEF Left
<1>5. \E f : f = [k \in 0..n |-> IF k = 0 THEN 0
                   ELSE f[k - 1] + (IF challenges[k].open /\ challenges[k].user = u
                                    THEN challenges[k].left ELSE 0)]
  <2>1. PICK f : SumsTo(f, w, n)
    BY <1>1, <1>2, SumExists
  <2>2. /\ f \in [0..n -> Nat] /\ f[0] = 0
        /\ \A k \in 1..n : f[k] = f[k - 1] + (IF challenges[k].open /\ challenges[k].user = u
                                              THEN challenges[k].left ELSE 0)
    BY <1>4, <2>1 DEF SumsTo
  <2>3. f = [k \in 0..n |-> IF k = 0 THEN 0
              ELSE f[k - 1] + (IF challenges[k].open /\ challenges[k].user = u
                               THEN challenges[k].left ELSE 0)]
    <3> HIDE DEF n
    <3> QED
      BY <1>1, <2>2
  <2> QED
    BY <2>3
<1>6. g = [k \in 0..n |-> IF k = 0 THEN 0
             ELSE g[k - 1] + (IF challenges[k].open /\ challenges[k].user = u
                              THEN challenges[k].left ELSE 0)]
  BY <1>5
<1> HIDE DEF g
<1>7. g = [k \in 0..n |-> IF k = 0 THEN 0 ELSE g[k - 1] + w[k]]
  BY <1>1, <1>4, <1>6
<1>8. SumsTo(g, w, n)
  <2> HIDE DEF w, n
  <2> QED
    BY <1>1, <1>2, <1>7, SumsAreComputed
<1> QED
  BY <1>2, <1>3, <1>8

\* The challenges a user asked for.
Asked(u) == {c \in DOMAIN challenges : challenges[c].user = u}

\* They are finitely many.
LEMMA AskedIsFinite ==
  ASSUME TypeOK, NEW u \in User
  PROVE  IsFiniteSet(Asked(u)) /\ Cardinality(Asked(u)) \in Nat
<1>1. IsFiniteSet(1..Len(challenges))
  BY Fields, FS_Interval
<1>2. Asked(u) \subseteq 1..Len(challenges)
  BY Fields DEF Asked
<1> QED
  BY <1>1, <1>2, FS_Subset, FS_CardinalityType

\* The sums of the attempts left, before and after a step.
Summed(u) ==
  /\ Left(u) \in [1..Len(challenges) -> Nat]
  /\ \E f : SumsTo(f, Left(u), Len(challenges)) /\ OpenAttempts(u) = f[Len(challenges)]
  /\ IsFiniteSet(Asked(u)) /\ Cardinality(Asked(u)) \in Nat

\* Every user has these sums.
LEMMA AllSummed == TypeOK => \A u \in User : Summed(u)
BY OpenAttemptsAreTheSum, AskedIsFinite DEF Summed

\* And after a step.
LEMMA AllSummedNext == TypeOK' => (\A u \in User : Summed(u))'
BY AllSummed, PTL

\* No step gives attempts back.
LEMMA LeftShrinks ==
  ASSUME TypeOK, TypeOK', ChallengesGo, NEW u \in User
  PROVE  /\ Len(challenges) \in Nat /\ Len(challenges') \in Nat
         /\ Len(challenges) <= Len(challenges')
         /\ \A k \in 1..Len(challenges) : Left(u)'[k] <= Left(u)[k]
<1>1. /\ Len(challenges) \in Nat /\ DOMAIN challenges = 1..Len(challenges)
      /\ Len(challenges') \in Nat /\ DOMAIN challenges' = 1..Len(challenges')
  BY LenProperties DEF TypeOK
<1>2. Len(challenges) <= Len(challenges')
  BY <1>1 DEF ChallengesGo
<1>3. ASSUME NEW k \in 1..Len(challenges) PROVE Left(u)'[k] <= Left(u)[k]
  <2>1. k \in 1..Len(challenges') /\ Worn(challenges'[k], challenges[k])
    BY <1>1, <1>2 DEF ChallengesGo
  <2>2. challenges[k].left \in Nat
    BY <1>1, Fields, AuthenticationAssumption DEF Challenge
  <2>3. /\ Left(u)[k] = IF challenges[k].open /\ challenges[k].user = u
                        THEN challenges[k].left ELSE 0
        /\ Left(u)'[k] = IF challenges'[k].open /\ challenges'[k].user = u
                         THEN challenges'[k].left ELSE 0
    BY <2>1 DEF Left
  <2> QED
    BY <2>1, <2>2, <2>3 DEF Worn
<1> QED
  BY <1>1, <1>2, <1>3

\* As long as no challenge is added, the sum does not grow, and it drops with a wrong code.
LEMMA OpenAttemptsShrink ==
  ASSUME TypeOK, TypeOK', ChallengesGo, Len(challenges') = Len(challenges), NEW u \in User
  PROVE  /\ OpenAttempts(u) \in Nat /\ OpenAttempts(u)' \in Nat
         /\ OpenAttempts(u)' <= OpenAttempts(u)
         /\ \A c \in DOMAIN challenges :
              WrongCode(c) /\ challenges[c].user = u => OpenAttempts(u)' < OpenAttempts(u)
<1> DEFINE n == Len(challenges)
           w == Left(u)
           v == Left(u)'
<1>1. /\ n \in Nat /\ \A k \in 1..n : v[k] <= w[k]
  BY LeftShrinks
<1>2. Summed(u) /\ Summed(u)'
  BY AllSummed, AllSummedNext
<1>3. w \in [1..n -> Nat] /\ v \in [1..n -> Nat]
  BY <1>2 DEF Summed
<1>4. PICK f : SumsTo(f, w, n) /\ OpenAttempts(u) = f[n]
  BY <1>2 DEF Summed
<1>5. PICK g : SumsTo(g, v, n) /\ OpenAttempts(u)' = g[n]
  BY <1>2 DEF Summed
<1>6. f[n] \in Nat /\ g[n] \in Nat
  BY <1>1, <1>4, <1>5 DEF SumsTo
<1>7. g[n] <= f[n]
  <2> HIDE DEF n, w, v
  <2>1. n <= n
    BY <1>1
  <2>2. \A k \in 0..n : g[k] <= f[k]
    BY <1>1, <1>3, <1>4, <1>5, <2>1, SumsShrink
  <2> QED
    BY <1>1, <2>2
<1>8. ASSUME NEW c \in DOMAIN challenges, WrongCode(c), challenges[c].user = u PROVE g[n] < f[n]
  <2>1. c \in 1..n
    BY Fields
  <2>2. v[c] < w[c]
    <3>1. challenges[c].open /\ challenges[c].left \in Nat /\ challenges[c].left > 0
      <4>1. challenges[c].open
        BY <1>8 DEF WrongCode, Verifiable
      <4>2. challenges[c].left \in Nat
        BY Fields, AuthenticationAssumption DEF Challenge
      <4> QED
        BY <4>1, <4>2 DEF TypeOK
    <3>2. challenges'[c].left = challenges[c].left - 1
      BY <1>8, WrongCodeWears
    <3>3. w[c] = challenges[c].left
      BY <1>8, <2>1, <3>1 DEF Left
    <3>4. v[c] \in {0, challenges'[c].left}
      BY <2>1 DEF Left
    <3> QED
      BY <3>1, <3>2, <3>3, <3>4
  <2> HIDE DEF n, w, v
  <2> QED
    BY <1>1, <1>3, <1>4, <1>5, <2>1, <2>2, SumsDrop
<1> QED
  BY <1>4, <1>5, <1>6, <1>7, <1>8

\* A new challenge brings at most MaxAttempts.
LEMMA OpenAttemptsGrow ==
  ASSUME TypeOK, TypeOK', ChallengesGo, Len(challenges') = Len(challenges) + 1, NEW u \in User
  PROVE  /\ OpenAttempts(u) \in Nat /\ OpenAttempts(u)' \in Nat
         /\ OpenAttempts(u)' <= OpenAttempts(u) + MaxAttempts
         /\ challenges'[Len(challenges) + 1].user # u => OpenAttempts(u)' <= OpenAttempts(u)
<1> DEFINE n == Len(challenges)
           w == Left(u)
           v == Left(u)'
<1>1. /\ n \in Nat /\ \A k \in 1..n : v[k] <= w[k]
  BY LeftShrinks
<1>2. Summed(u) /\ Summed(u)'
  BY AllSummed, AllSummedNext
<1>3. w \in [1..n -> Nat] /\ v \in [1..(n + 1) -> Nat]
  BY <1>2 DEF Summed
<1>4. PICK f : SumsTo(f, w, n) /\ OpenAttempts(u) = f[n]
  BY <1>2 DEF Summed
<1>5. PICK g : SumsTo(g, v, n + 1) /\ OpenAttempts(u)' = g[n + 1]
  BY <1>2 DEF Summed
<1>6. v[n + 1] \in 0..MaxAttempts /\ (challenges'[n + 1].user # u => v[n + 1] = 0)
  <2>1. n + 1 \in 1..Len(challenges')
    BY <1>1
  <2>2. challenges'[n + 1] \in Challenge
    BY <2>1, ElementOfSeq DEF TypeOK
  <2>3. challenges'[n + 1].left \in 0..MaxAttempts /\ 0 \in 0..MaxAttempts
    BY <2>2, AuthenticationAssumption DEF Challenge
  <2>4. v[n + 1] = IF challenges'[n + 1].open /\ challenges'[n + 1].user = u
                   THEN challenges'[n + 1].left ELSE 0
    BY <2>1 DEF Left
  <2> QED
    BY <2>3, <2>4
<1> HIDE DEF n, w, v
<1>7. \A k \in 0..n : g[k] <= f[k]
  <2>1. n <= n + 1 /\ n + 1 \in Nat
    BY <1>1
  <2> QED
    BY <1>1, <1>3, <1>4, <1>5, <2>1, SumsShrink
<1>8. g[n] <= f[n] /\ g[n + 1] = g[n] + v[n + 1] /\ f[n] \in Nat /\ g[n] \in Nat
  <2>1. n \in 0..n /\ n \in 0..(n + 1) /\ n + 1 \in 1..(n + 1) /\ (n + 1) - 1 = n
    BY <1>1
  <2> QED
    BY <1>4, <1>5, <1>7, <2>1 DEF SumsTo
<1>9. v[n + 1] \in Nat /\ v[n + 1] <= MaxAttempts
  BY <1>6, AuthenticationAssumption
<1>10. g[n + 1] \in Nat /\ g[n + 1] <= f[n] + MaxAttempts
  BY <1>8, <1>9, AuthenticationAssumption
<1>11. challenges'[n + 1].user # u => g[n + 1] <= f[n]
  BY <1>6, <1>8, <1>9
<1> QED
  BY <1>4, <1>5, <1>8, <1>10, <1>11 DEF n

\* The kinds of steps, as far as wrong codes and new challenges go.
Keeps == Len(challenges') = Len(challenges) /\ wrongCodes' = wrongCodes

\* Challenges are added one at a time, and only a wrong code is counted.
LEMMA WrongCodeKinds ==
  ASSUME TypeOK, [Next]_vars
  PROVE  \/ Keeps
         \/ Len(challenges') = Len(challenges) + 1 /\ wrongCodes' = wrongCodes
         \/ \E c \in DOMAIN challenges : WrongCode(c) /\ Len(challenges') = Len(challenges)
<1> USE DEF twoFAVars, tokenVars
<1>1. ASSUME NEW u \in User, StartChallenge(u) PROVE Len(challenges') = Len(challenges) + 1 /\ wrongCodes' = wrongCodes
  BY <1>1, StartAdds DEF StartChallenge, Added
<1>2. ASSUME NEW u \in User, PasswordLogin(u) PROVE Keeps
  BY <1>2 DEF PasswordLogin, Keeps
<1>3. ASSUME NEW u \in User, Block(u) PROVE Keeps
  BY <1>3 DEF Block, Keeps
<1>4. ASSUME NEW u \in User, Unblock(u) PROVE Keeps
  BY <1>4 DEF Unblock, Keeps
<1>5. ASSUME NEW c \in DOMAIN challenges, ExpireChallenge(c) PROVE Keeps
  BY <1>5, CloseWears DEF ExpireChallenge, Keeps
<1>6. ASSUME NEW c \in DOMAIN challenges, WrongCode(c) PROVE Len(challenges') = Len(challenges)
  BY <1>6, WrongCodeWears
<1>7. ASSUME NEW c \in DOMAIN challenges, RightCode(c) PROVE Keeps
  BY <1>7, CloseWears DEF RightCode, Keeps
<1>8. ASSUME NEW i \in Instance, NEW t \in DOMAIN tokens, UseToken(i, t) PROVE Keeps
  BY <1>8 DEF UseToken, Keeps
<1>9. ASSUME NEW h \in DOMAIN tokens, NEW t \in DOMAIN tokens, RevokeToken(h, t) PROVE Keeps
  BY <1>9 DEF RevokeToken, Keeps
<1>10. ASSUME NEW i \in Instance, Restart(i) PROVE Keeps
  <2>1. wrongCodes' = wrongCodes
    BY <1>10 DEF Restart
  <2>2. CASE i = Writer
    BY <1>10, <2>1, <2>2, RestartWears DEF Restart, Keeps
  <2>3. CASE i # Writer
    BY <1>10, <2>1, <2>3 DEF Restart, Keeps
  <2> QED
    BY <2>2, <2>3
<1>11. ASSUME Tick PROVE Keeps
  BY <1>11 DEF Tick, Keeps
<1>12. CASE UNCHANGED vars
  BY <1>12 DEF vars, Keeps
<1> QED
  BY <1>1, <1>2, <1>3, <1>4, <1>5, <1>6, <1>7, <1>8, <1>9, <1>10, <1>11, <1>12 DEF Next

\* What has been paid for.
PaidFor(u) == wrongCodes[u] + OpenAttempts(u) <= MaxAttempts * Cardinality(Asked(u))

\* Every step keeps it so.
LEMMA PaidForNext ==
  ASSUME TypeOK, TypeOK', [Next]_vars, NEW u \in User, PaidFor(u)
  PROVE  PaidFor(u)'
<1>1. ChallengesGo
  BY ChallengesNext
<1>2. /\ Len(challenges) \in Nat /\ DOMAIN challenges = 1..Len(challenges)
      /\ DOMAIN challenges' = 1..Len(challenges')
  BY LenProperties DEF TypeOK
<1>3. wrongCodes[u] \in Nat /\ wrongCodes'[u] \in Nat /\ MaxAttempts \in Nat
  BY AuthenticationAssumption DEF TypeOK
<1>4. IsFiniteSet(Asked(u)) /\ Cardinality(Asked(u)) \in Nat
  BY AskedIsFinite
<1>5. CASE Len(challenges') = Len(challenges)
  <2>1. Asked(u)' = Asked(u)
    BY <1>1, <1>2, <1>5 DEF Asked, ChallengesGo, Worn
  <2>2. /\ OpenAttempts(u) \in Nat /\ OpenAttempts(u)' \in Nat
        /\ OpenAttempts(u)' <= OpenAttempts(u)
        /\ \A c \in DOMAIN challenges :
             WrongCode(c) /\ challenges[c].user = u => OpenAttempts(u)' < OpenAttempts(u)
    BY <1>1, <1>5, OpenAttemptsShrink
  <2>3. wrongCodes'[u] + OpenAttempts(u)' <= wrongCodes[u] + OpenAttempts(u)
    <3>1. CASE wrongCodes'[u] = wrongCodes[u]
      BY <1>3, <2>2, <3>1
    <3>2. CASE wrongCodes'[u] # wrongCodes[u]
      <4>1. PICK c \in DOMAIN challenges : WrongCode(c)
        BY <1>2, <1>5, <3>2, WrongCodeKinds DEF Keeps
      <4>2. challenges[c].user = u /\ wrongCodes'[u] = wrongCodes[u] + 1
        BY <3>2, <4>1 DEF WrongCode, TypeOK
      <4> QED
        BY <1>3, <2>2, <4>1, <4>2
    <3> QED
      BY <3>1, <3>2
  <2>4. MaxAttempts * Cardinality(Asked(u)) \in Nat
    BY <1>3, <1>4
  <2> DEFINE paid == MaxAttempts * Cardinality(Asked(u))
  <2>5. wrongCodes[u] + OpenAttempts(u) <= paid /\ paid \in Nat
    BY <2>4 DEF PaidFor
  <2> HIDE DEF paid
  <2>6. wrongCodes'[u] + OpenAttempts(u)' <= paid
    BY <1>3, <2>2, <2>3, <2>5
  <2> QED
    BY <2>1, <2>6 DEF PaidFor, paid
<1>6. CASE Len(challenges') = Len(challenges) + 1 /\ wrongCodes' = wrongCodes
  <2> DEFINE c == Len(challenges) + 1
  <2>1. /\ OpenAttempts(u) \in Nat /\ OpenAttempts(u)' \in Nat
        /\ OpenAttempts(u)' <= OpenAttempts(u) + MaxAttempts
        /\ challenges'[c].user # u => OpenAttempts(u)' <= OpenAttempts(u)
    BY <1>1, <1>6, OpenAttemptsGrow
  <2>2. DOMAIN challenges' = DOMAIN challenges \cup {c} /\ c \notin DOMAIN challenges
    BY <1>2, <1>6
  <2>3. Asked(u)' = IF challenges'[c].user = u THEN Asked(u) \cup {c} ELSE Asked(u)
    BY <1>1, <2>2 DEF Asked, ChallengesGo, Worn
  <2> DEFINE k == Cardinality(Asked(u))
             paid == MaxAttempts * k
  <2>4. wrongCodes[u] + OpenAttempts(u) <= paid /\ paid \in Nat /\ k \in Nat
    BY <1>3, <1>4 DEF PaidFor
  <2>5. CASE challenges'[c].user = u
    <3>1. c \notin Asked(u)
      BY <2>2 DEF Asked
    <3>2. Cardinality(Asked(u)') = k + 1
      BY <1>4, <2>3, <2>5, <3>1, FS_AddElement
    <3>3. MaxAttempts * (k + 1) = paid + MaxAttempts
      BY <1>3, <2>4
    <3> HIDE DEF paid
    <3>4. wrongCodes'[u] + OpenAttempts(u)' <= paid + MaxAttempts
      BY <1>3, <1>6, <2>1, <2>4
    <3> QED
      BY <3>2, <3>3, <3>4 DEF PaidFor
  <2>6. CASE challenges'[c].user # u
    <3>1. Asked(u)' = Asked(u)
      BY <2>3, <2>6
    <3> HIDE DEF paid
    <3>2. wrongCodes'[u] + OpenAttempts(u)' <= paid
      BY <1>3, <1>6, <2>1, <2>4, <2>6
    <3> QED
      BY <3>1, <3>2 DEF PaidFor, paid
  <2> QED
    BY <2>5, <2>6
<1> QED
  BY <1>5, <1>6, WrongCodeKinds DEF Keeps

\* The wrong codes tried for a user, and those that can still be tried, never exceed
\* MaxAttempts for each challenge the user has asked for.
THEOREM WrongCodesPaid == Spec => []WrongCodesArePaidFor
<1> DEFINE Inv == TypeOK /\ \A u \in User : PaidFor(u)
<1>1. Init => Inv
  <2> SUFFICES ASSUME Init PROVE Inv
    OBVIOUS
  <2>1. TypeOK
    BY TypeInit
  <2>2. ASSUME NEW u \in User PROVE PaidFor(u)
    <3>1. Len(challenges) = 0 /\ wrongCodes[u] = 0 /\ Asked(u) = {}
      BY DEF Init, Asked
    <3>2. OpenAttempts(u) = 0
      <4>1. Summed(u)
        BY <2>1, AllSummed
      <4>2. PICK f : SumsTo(f, Left(u), 0) /\ OpenAttempts(u) = f[0]
        BY <3>1, <4>1 DEF Summed
      <4> QED
        BY <4>2 DEF SumsTo
    <3>3. Cardinality(Asked(u)) = 0
      BY <3>1, FS_EmptySet
    <3> QED
      BY <3>1, <3>2, <3>3, AuthenticationAssumption DEF PaidFor
  <2> QED
    BY <2>1, <2>2
<1>2. Inv /\ [Next]_vars => Inv'
  <2>1. TypeOK /\ [Next]_vars => TypeOK'
    BY TypeNext
  <2> QED
    BY <2>1, PaidForNext
<1>3. Inv => WrongCodesArePaidFor
  BY DEF PaidFor, Asked, WrongCodesArePaidFor
<1> QED
  BY <1>1, <1>2, <1>3, PTL DEF Spec
=============================================================================
