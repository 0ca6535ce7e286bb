----------------------------- MODULE TradeDesk ------------------------------
(***************************************************************************)
(* What the bot's bookkeeping promises, whatever broker it drives: at most *)
(* one trade is tracked at a time, a tracked trade is settled exactly once *)
(* before the next one may be entered, and an entry is only made while the *)
(* counters of the current date are below their limits.                    *)
(***************************************************************************)
EXTENDS Naturals

CONSTANTS MaxTrades, MaxConsecLosses, Dates

VARIABLES
  date,      \* trading_day of the running counters
  settled,   \* trades settled on that date
  streak,    \* losses in a row among them
  tracked    \* is a trade being tracked?

deskVars == <<date, settled, streak, tracked>>

DeskInit == date \in Dates /\ settled = 0 /\ streak = 0 /\ tracked = FALSE

(* The counters an iteration on date d starts from. *)
SettledOn(d) == IF d = date THEN settled ELSE 0
StreakOn(d) == IF d = date THEN streak ELSE 0

Idle(d) ==
  /\ settled' = SettledOn(d) /\ streak' = StreakOn(d)
  /\ UNCHANGED tracked

Open(d) ==
  /\ ~tracked /\ tracked'
  /\ SettledOn(d) < MaxTrades /\ StreakOn(d) < MaxConsecLosses
  /\ settled' = SettledOn(d) /\ streak' = StreakOn(d)

Settle(d) ==
  /\ tracked /\ ~tracked'
  /\ settled' = SettledOn(d) + 1
  /\ streak' \in {0, StreakOn(d) + 1}

DeskNext == \E d \in Dates : date' = d /\ (Idle(d) \/ Open(d) \/ Settle(d))

DeskSpec == DeskInit /\ [][DeskNext]_deskVars
=============================================================================
