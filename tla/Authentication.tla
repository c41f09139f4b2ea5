--------------------------- MODULE Authentication ---------------------------
(***************************************************************************)
(* Logging in to the HTTP API: passwords, two-factor challenges with their  *)
(* attempts and lockouts (internal/services/twofa_service.go), access       *)
(* tokens and their revocation (internal/services/token_service.go), as the *)
(* handlers of internal/delivery/http/v2/auth.go and the bearer middleware  *)
(* combine them. nginx sends every POST to one API instance and spreads the *)
(* GETs over a pool; challenges, lockouts and revocations live in the       *)
(* memory of an instance, users in the database.                            *)
(*                                                                         *)
(* Time advances in ticks, TicksPerSecond to the second: the expiry of a    *)
(* token is kept in whole seconds, everything else is finer. Challenges and *)
(* tokens are numbered in the order of their creation. A submitted code is  *)
(* right or wrong; every password is right.                                 *)
(***************************************************************************)
EXTENDS Naturals, Sequences, FiniteSets

CONSTANTS
  Instance, Writer,  \* the API instances and the one that gets the POSTs
  User,
  TicksPerSecond,
  CodeTTL, MaxAttempts, BlockDuration,  \* TwoFAConfig, times in ticks
  TokenTTL,                             \* tokenTTL of the handlers, in ticks
  MaxTime, MaxChallenges, MaxTokens, MaxRestarts  \* bounds

ASSUME AuthenticationAssumption ==
  /\ Writer \in Instance
  /\ TicksPerSecond \in Nat \ {0} /\ TokenTTL \in Nat \ {0}
  /\ CodeTTL \in Nat \ {0} /\ MaxAttempts \in Nat \ {0}   \* normalizeTwoFACfg
  /\ BlockDuration \in Nat \ {0}
  /\ {MaxTime, MaxChallenges, MaxTokens, MaxRestarts} \subseteq Nat

Never == 0        \* the clock starts at 1
ByPassword == 0   \* challenges are numbered from 1

VARIABLES
  now,
  blockedSince,  \* when users.is_blocked was set, or Never
  challenges,    \* twoFAService.challenges; a closed one has left the map
  lockouts,      \* twoFAService.lockouts, Never where there is none
  tokens,        \* the tokens ever issued: self-contained, kept by clients
  revoked,       \* hmacTokenService.revoked of each instance
  restarts,
  wrongCodes,    \* history: wrong codes checked for each user
  lockedAt,      \* history: when a user last ran out of attempts
  revokedEver    \* history: the tokens some RevokeToken invalidated

twoFAVars == <<challenges, lockouts, wrongCodes, lockedAt>>
tokenVars == <<tokens, revoked, revokedEver>>
vars == <<now, blockedSince, twoFAVars, tokenVars, restarts>>

Challenge == [user : User, started : Nat, left : 0..MaxAttempts, open : BOOLEAN]
Token == [user : User, issued : Nat, by : Nat]

Init ==
  /\ now = 1
  /\ blockedSince = [u \in User |-> Never]
  /\ challenges = <<>>
  /\ lockouts = [u \in User |-> Never]
  /\ tokens = <<>>
  /\ revoked = [i \in Instance |-> {}]
  /\ restarts = 0
  /\ wrongCodes = [u \in User |-> 0]
  /\ lockedAt = [u \in User |-> Never]
  /\ revokedEver = {}

-----------------------------------------------------------------------------
(* Tokens.                                                                 *)

Unix(t) == t \div TicksPerSecond

\* The claim "exp", whole seconds.
Exp(t) == Unix(tokens[t].issued + TokenTTL)

\* time.Now() is after the expiry as a point in time.
PastExp(t) == now > Exp(t) * TicksPerSecond

\* Mutation: a revocation is forgotten at the first look.
RevokedEntriesForgetful(i, t) == revoked[i] \ {t}

\* The entries left when GetToken or isRevoked have looked at token t.
RevokedEntries(i, t) == IF PastExp(t) THEN revoked[i] \ {t} ELSE revoked[i]

\* Mutation: a token is refused in its last second.
AcceptsUntilExp(i, t) ==
  /\ Unix(now) < Exp(t)
  /\ t \notin revoked[i] \/ PastExp(t)

\* What GetToken answers: not expired by the second, and not revoked here.
Accepts(i, t) ==
  /\ Unix(now) <= Exp(t)
  /\ t \notin revoked[i] \/ PastExp(t)

IssueToken(u, c) ==
  /\ Len(tokens) < MaxTokens
  /\ tokens' = Append(tokens, [user |-> u, issued |-> now, by |-> c])
  /\ UNCHANGED <<revoked, revokedEver>>

\* BearerAuth on a GET, by whatever instance nginx picks. Whether the user is
\* blocked is not asked.
UseToken(i, t) ==
  /\ revoked' = [revoked EXCEPT ![i] = RevokedEntries(i, t)]
  /\ UNCHANGED <<now, blockedSince, twoFAVars, tokens, revokedEver, restarts>>

\* POST /auth/tokens/revoke: the bearer of h revokes t, its own token or another.
RevokeToken(h, t) ==
  /\ Accepts(Writer, h)
  /\ revoked' = [revoked EXCEPT ![Writer] = RevokedEntries(Writer, h) \cup {t}]
  /\ revokedEver' = revokedEver \cup {t}
  /\ UNCHANGED <<now, blockedSince, twoFAVars, tokens, restarts>>

\* DirectLogin, or IssueToken with email and password.
PasswordLogin(u) ==
  /\ blockedSince[u] = Never
  /\ IssueToken(u, ByPassword)
  /\ UNCHANGED <<now, blockedSince, twoFAVars, restarts>>

-----------------------------------------------------------------------------
(* Two-factor challenges. Authenticate and StartChallenge are one step: a   *)
(* block that comes between them is like one right after them, as nothing   *)
(* later looks at the user again.                                          *)

LockedOut(u) == lockouts[u] # Never /\ now < lockouts[u]

\* Mutation: a new challenge clears the lockout.
StartChallengeUnlocks(u) ==
  /\ blockedSince[u] = Never
  /\ Len(challenges) < MaxChallenges
  /\ lockouts' = [lockouts EXCEPT ![u] = Never]
  /\ challenges' = Append(challenges, [user |-> u, started |-> now,
                                       left |-> MaxAttempts, open |-> TRUE])
  /\ UNCHANGED <<now, blockedSince, wrongCodes, lockedAt, tokenVars, restarts>>

\* Mutation: is_blocked is not looked at.
StartChallengeForBlocked(u) ==
  /\ ~LockedOut(u)
  /\ Len(challenges) < MaxChallenges
  /\ lockouts' = [lockouts EXCEPT ![u] = Never]
  /\ challenges' = Append(challenges, [user |-> u, started |-> now,
                                       left |-> MaxAttempts, open |-> TRUE])
  /\ UNCHANGED <<now, blockedSince, wrongCodes, lockedAt, tokenVars, restarts>>

StartChallenge(u) ==
  /\ blockedSince[u] = Never
  /\ ~LockedOut(u)
  /\ Len(challenges) < MaxChallenges
  /\ lockouts' = [lockouts EXCEPT ![u] = Never]
  /\ challenges' = Append(challenges, [user |-> u, started |-> now,
                                       left |-> MaxAttempts, open |-> TRUE])
  /\ UNCHANGED <<now, blockedSince, wrongCodes, lockedAt, tokenVars, restarts>>

\* VerifyCode finds the challenge and no lockout of its user.
Verifiable(c) == challenges[c].open /\ ~LockedOut(challenges[c].user)

Expired(c) == now > challenges[c].started + CodeTTL

Close(c) == [challenges EXCEPT ![c].open = FALSE]

ExpireChallenge(c) ==
  /\ Verifiable(c) /\ Expired(c)
  /\ challenges' = Close(c)
  /\ UNCHANGED <<now, blockedSince, lockouts, wrongCodes, lockedAt, tokenVars, restarts>>

\* Mutation: the decremented attempts are not stored.
WrongCodeUncounted(c) ==
  /\ Verifiable(c) /\ ~Expired(c)
  /\ wrongCodes' = [wrongCodes EXCEPT ![challenges[c].user] = @ + 1]
  /\ wrongCodes[challenges[c].user] < MaxAttempts * MaxChallenges + 1
  /\ UNCHANGED <<now, blockedSince, challenges, lockouts, lockedAt, tokenVars, restarts>>

\* Mutation: the challenge stays in the map when its attempts are used up.
WrongCodeKeepsChallenge(c) ==
  LET u == challenges[c].user
      left == challenges[c].left - 1
  IN /\ Verifiable(c) /\ ~Expired(c) /\ challenges[c].left > 0
     /\ challenges' = [challenges EXCEPT ![c].left = left]
     /\ wrongCodes' = [wrongCodes EXCEPT ![u] = @ + 1]
     /\ IF left = 0
        THEN /\ lockouts' = [lockouts EXCEPT ![u] = now + BlockDuration]
             /\ lockedAt' = [lockedAt EXCEPT ![u] = now]
        ELSE UNCHANGED <<lockouts, lockedAt>>
     /\ UNCHANGED <<now, blockedSince, tokenVars, restarts>>

\* The last wrong code locks the user out, whatever challenges stay open.
WrongCode(c) ==
  LET u == challenges[c].user
      left == challenges[c].left - 1
  IN /\ Verifiable(c) /\ ~Expired(c)
     /\ challenges' = [challenges EXCEPT ![c].left = left, ![c].open = left > 0]
     /\ wrongCodes' = [wrongCodes EXCEPT ![u] = @ + 1]
     /\ IF left = 0
        THEN /\ lockouts' = [lockouts EXCEPT ![u] = now + BlockDuration]
             /\ lockedAt' = [lockedAt EXCEPT ![u] = now]
        ELSE UNCHANGED <<lockouts, lockedAt>>
     /\ UNCHANGED <<now, blockedSince, tokenVars, restarts>>

\* Mutation: the challenge stays in the map when its code was right.
RightCodeKeepsChallenge(c) ==
  /\ Verifiable(c) /\ ~Expired(c)
  /\ IssueToken(challenges[c].user, c)
  /\ UNCHANGED <<now, blockedSince, twoFAVars, restarts>>

RightCode(c) ==
  /\ Verifiable(c) /\ ~Expired(c)
  /\ challenges' = Close(c)
  /\ IssueToken(challenges[c].user, c)
  /\ UNCHANGED <<now, blockedSince, lockouts, wrongCodes, lockedAt, restarts>>

-----------------------------------------------------------------------------
(* The administrator, failures and time.                                   *)

\* UpdateUser with is_blocked
Block(u) ==
  /\ blockedSince[u] = Never
  /\ blockedSince' = [blockedSince EXCEPT ![u] = now]
  /\ UNCHANGED <<now, twoFAVars, tokenVars, restarts>>

Unblock(u) ==
  /\ blockedSince[u] # Never
  /\ blockedSince' = [blockedSince EXCEPT ![u] = Never]
  /\ UNCHANGED <<now, twoFAVars, tokenVars, restarts>>

\* An instance loses its memory.
Restart(i) ==
  /\ restarts < MaxRestarts
  /\ restarts' = restarts + 1
  /\ revoked' = [revoked EXCEPT ![i] = {}]
  /\ IF i = Writer
     THEN /\ challenges' = [c \in DOMAIN challenges |-> [challenges[c] EXCEPT !.open = FALSE]]
          /\ lockouts' = [u \in User |-> Never]
     ELSE UNCHANGED <<challenges, lockouts>>
  /\ UNCHANGED <<now, blockedSince, wrongCodes, lockedAt, tokens, revokedEver>>

Tick ==
  /\ now < MaxTime
  /\ now' = now + 1
  /\ UNCHANGED <<blockedSince, twoFAVars, tokenVars, restarts>>

Next ==
  \/ \E u \in User : StartChallenge(u) \/ PasswordLogin(u) \/ Block(u) \/ Unblock(u)
  \/ \E c \in DOMAIN challenges : ExpireChallenge(c) \/ WrongCode(c) \/ RightCode(c)
  \/ \E i \in Instance, t \in DOMAIN tokens : UseToken(i, t)
  \/ \E h, t \in DOMAIN tokens : RevokeToken(h, t)
  \/ \E i \in Instance : Restart(i)
  \/ Tick

Spec == Init /\ [][Next]_vars

-----------------------------------------------------------------------------
(* Properties.                                                             *)

\* Type correctness; an open challenge always has an attempt left.
TypeOK ==
  /\ now \in Nat \ {0}
  /\ blockedSince \in [User -> 0..now]
  /\ challenges \in Seq(Challenge)
  /\ \A c \in DOMAIN challenges : challenges[c].open => challenges[c].left > 0
  /\ lockouts \in [User -> Nat]
  /\ tokens \in Seq(Token)
  /\ revoked \in [Instance -> SUBSET DOMAIN tokens]
  /\ wrongCodes \in [User -> Nat]
  /\ lockedAt \in [User -> 0..now]
  /\ revokedEver \subseteq DOMAIN tokens
  /\ restarts \in 0..MaxRestarts

\* A code logs in once, within its time to live: the challenge of a token is
\* closed for good, no other token came from it, and it was young enough.
CodeLogsInOnce ==
  \A t \in DOMAIN tokens : tokens[t].by # ByPassword =>
    /\ ~challenges[tokens[t].by].open
    /\ challenges[tokens[t].by].user = tokens[t].user
    /\ tokens[t].issued <= challenges[tokens[t].by].started + CodeTTL
    /\ \A s \in DOMAIN tokens : s # t => tokens[s].by # tokens[t].by

\* The attempts left on the open challenges of a user.
OpenAttempts(u) ==
  LET upTo[n \in 0..Len(challenges)] ==
        IF n = 0 THEN 0
        ELSE upTo[n - 1] + (IF challenges[n].open /\ challenges[n].user = u
                            THEN challenges[n].left ELSE 0)
  IN upTo[Len(challenges)]

\* Wrong codes are limited by the challenges a user asked for, however its open
\* challenges are interleaved, expire or are dropped.
WrongCodesArePaidFor ==
  \A u \in User :
    wrongCodes[u] + OpenAttempts(u)
      <= MaxAttempts * Cardinality({c \in DOMAIN challenges : challenges[c].user = u})

\* From the moment a user runs out of attempts on one challenge, neither a code of
\* another open challenge logs in nor a new challenge starts for BlockDuration,
\* as long as the instance does not restart.
LockoutHolds ==
  [][\A u \in User :
       (lockedAt[u] # Never /\ now < lockedAt[u] + BlockDuration /\ restarts = 0) =>
         /\ \A t \in DOMAIN tokens' \ DOMAIN tokens :
              tokens'[t].user = u => tokens'[t].by = ByPassword
         /\ \A c \in DOMAIN challenges' \ DOMAIN challenges : challenges'[c].user # u]_vars

\* The only way a blocked user still gets a token is a challenge that was started
\* before the block (VerifyCode trusts the user it read then).
BlockedOnlyByOldChallenge ==
  \A t \in DOMAIN tokens :
    LET since == blockedSince[tokens[t].user] IN
      (since # Never /\ tokens[t].issued > since) =>
        /\ tokens[t].by # ByPassword
        /\ challenges[tokens[t].by].started <= since

\* A token that nobody revokes is accepted by every instance for its whole time to
\* live, and less than a second longer: the rounding of "exp" never shortens it.
TokenLivesItsTTL ==
  \A t \in DOMAIN tokens \ revokedEver, i \in Instance :
    /\ now <= tokens[t].issued + TokenTTL => Accepts(i, t)
    /\ Accepts(i, t) => now < tokens[t].issued + TokenTTL + TicksPerSecond

\* The instance that revoked a token refuses it, unless it restarts, up to the
\* second in which the token expires, however often the token is presented.
RevocationHoldsHere ==
  \A t \in revokedEver :
    (restarts = 0 /\ ~PastExp(t)) => ~Accepts(Writer, t)

\* A revoked token is not accepted any more.
RevokedIsRefused ==
  \A t \in revokedEver, i \in Instance : ~Accepts(i, t)
=============================================================================
