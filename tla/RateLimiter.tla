---------------------------- MODULE RateLimiter ----------------------------
(***************************************************************************)
(* What the local rate limiter provides: one bucket for the whole proxy,   *)
(* filled once at the start, to which at most one refill an interval is    *)
(* added.  A request is admitted in one step, which takes one token (Take) *)
(* or, under contention, none (Bypass): getToken lets a request go on when *)
(* its attempts are used up, so bypasses are bounded by the changes of the *)
(* bucket that can have disturbed them and not by the tokens.  There are   *)
(* no VMs here: a concurrent implementation has to look as if its          *)
(* operations happened one at a time.                                      *)
(***************************************************************************)
EXTENDS Integers

CONSTANTS
    Capacity,      \* the tokens a refill leaves at most
    Portion,       \* the tokens put in at the start and by each refill
    Spacing,       \* the least time between two refills
    Modulus,       \* token counts are taken modulo this
    Attempts,      \* disturbed attempts that let a request bypass the bucket
    Others         \* attempts that one change of the bucket can disturb

VARIABLES
    clock,
    tokens,        \* -1 before the bucket is filled
    earned,        \* the time of the latest refill earned, 0 for none
                   \* yet, -1 before the bucket is announced
    owed,          \* refills earned and not yet added
    granted,       \* requests admitted with a token
    bypassing,     \* requests admitted without one
    changes        \* changes of the tokens

avars == <<clock, tokens, earned, owed, granted, bypassing, changes>>

AInit ==
    /\ clock \in Nat /\ tokens = -1 /\ earned = -1 /\ owed = 0
    /\ granted = 0 /\ bypassing = 0 /\ changes = 0

\* The bucket opens.  A refill can be earned from then on.
Announce ==
    /\ earned = -1 /\ earned' = 0
    /\ UNCHANGED <<clock, tokens, owed, granted, bypassing, changes>>

Fill ==
    /\ tokens = -1 /\ tokens' = Portion
    /\ changes' = changes + 1
    /\ UNCHANGED <<clock, earned, owed, granted, bypassing>>

Take ==
    /\ tokens > 0
    /\ tokens' = tokens - 1
    /\ granted' = granted + 1
    /\ changes' = changes + 1
    /\ UNCHANGED <<clock, earned, owed, bypassing>>

\* A request all of whose attempts were disturbed is admitted for nothing.  One
\* change disturbs one attempt of each other request at most, so there are
\* only so many bypasses.
Bypass ==
    /\ bypassing' = bypassing + 1
    /\ bypassing' * Attempts <= Others * changes
    /\ UNCHANGED <<clock, tokens, earned, owed, granted, changes>>

\* A refill is earned at a time t that is at least an interval after the
\* one before it.
Earn ==
    /\ earned >= 0
    /\ \E t \in 1 .. clock :
          /\ earned = 0 \/ t - earned >= Spacing
          /\ earned' = t
    /\ owed' = owed + 1
    /\ UNCHANGED <<clock, tokens, granted, bypassing, changes>>

Topped(n) ==
    LET sum == (n + Portion) % Modulus
    IN  IF sum > Capacity THEN Capacity ELSE sum

Add ==
    /\ owed > 0 /\ tokens # -1
    /\ owed' = owed - 1
    /\ tokens' = Topped(tokens)
    /\ changes' = changes + 1
    /\ UNCHANGED <<clock, earned, granted, bypassing>>

Advance ==
    /\ clock' > clock
    /\ UNCHANGED <<tokens, earned, owed, granted, bypassing, changes>>

ANext == Announce \/ Fill \/ Take \/ Bypass \/ Earn \/ Add \/ Advance

ASpec == AInit /\ [][ANext]_avars

=============================================================================
