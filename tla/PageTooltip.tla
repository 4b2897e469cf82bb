------------------------------ MODULE PageTooltip ------------------------------
(***************************************************************************)
(* The tooltips of the editor's buttons (ckMaterializeOverrides.js): one   *)
(* call of ckTooltip serves many buttons, which share a counter, a flag    *)
(* and the handle of an interval timer.  A tick stands for the 10ms of the *)
(* timer; how a fade of 200ms and the ticks interleave is left open.       *)
(* Positions and the animation itself are left out.                        *)
(***************************************************************************)
EXTENDS Integers, FiniteSets

CONSTANTS
    Buttons,     \* the elements of one call of ckTooltip
    NoButton,    \* the pointer is on none of them
    Delay,       \* tooltip_delay in ticks
    MaxFades     \* bound on the fades of one tooltip under way

ASSUME TooltipAssumption ==
    /\ NoButton \notin Buttons
    /\ Delay \in Nat
    /\ MaxFades \in Nat \ {0}

VARIABLES
    hover,            \* the button below the pointer
    counter,          \* ticks since the last mouseenter, at most Delay
    started,          \* a tooltip was shown and no fade has ended since
    timers,           \* buttons whose interval timer runs
    counterInterval,  \* the timer that mouseleave clears
    visible,          \* buttons whose tooltip is displayed
    fading            \* per button, the fades that have not completed

tooltipVars == <<hover, counter, started, timers, counterInterval, visible, fading>>

TooltipInit ==
    /\ hover = NoButton
    /\ counter = 0
    /\ started = FALSE
    /\ timers = {}
    /\ counterInterval = NoButton
    /\ visible = {}
    /\ fading = [b \in Buttons |-> 0]

\* mouseenter starts a timer; it clears none.
MouseEnter(b) ==
    /\ hover = NoButton
    /\ hover' = b
    /\ counter' = 0
    /\ timers' = timers \cup {b}
    /\ counterInterval' = b
    /\ UNCHANGED <<started, visible, fading>>

\* The function of the interval: after the delay it shows the tooltip, once.
Tick(b) ==
    /\ b \in timers
    /\ counter' = (IF counter < Delay THEN counter + 1 ELSE Delay)
    /\ IF counter' >= Delay /\ ~started
       THEN started' = TRUE /\ visible' = visible \cup {b}
       ELSE UNCHANGED <<started, visible>>
    /\ UNCHANGED <<hover, timers, counterInterval, fading>>

\* Mutant: the timer is not cleared.
LeaveTimer(b) ==
    /\ hover = b
    /\ fading[b] < MaxFades
    /\ hover' = NoButton
    /\ counter' = 0
    /\ fading' = [fading EXCEPT ![b] = @ + 1]
    /\ UNCHANGED <<started, timers, counterInterval, visible>>

\* mouseleave clears the last timer and starts a fade, shown or not.
MouseLeave(b) ==
    /\ hover = b
    /\ fading[b] < MaxFades
    /\ hover' = NoButton
    /\ timers' = timers \ {counterInterval}
    /\ counter' = 0
    /\ fading' = [fading EXCEPT ![b] = @ + 1]
    /\ UNCHANGED <<started, counterInterval, visible>>

\* Mutants: complete is called without a fade; it leaves the flag set; the fade
\* begins anew instead.
CompleteAnyway(b) ==
    /\ fading' = [fading EXCEPT ![b] = @ - 1]
    /\ visible' = visible \ {b}
    /\ started' = FALSE
    /\ UNCHANGED <<hover, counter, timers, counterInterval>>
CompleteWithoutReset(b) ==
    /\ fading[b] > 0
    /\ fading' = [fading EXCEPT ![b] = @ - 1]
    /\ visible' = visible \ {b}
    /\ UNCHANGED <<hover, counter, started, timers, counterInterval>>
FadeAgain(b) ==
    /\ fading[b] > 0
    /\ started' = FALSE
    /\ UNCHANGED <<hover, counter, timers, counterInterval, visible, fading>>

\* complete, at the end of the fade.
FadeEnd(b) ==
    /\ fading[b] > 0
    /\ fading' = [fading EXCEPT ![b] = @ - 1]
    /\ visible' = visible \ {b}
    /\ started' = FALSE
    /\ UNCHANGED <<hover, counter, timers, counterInterval>>

TooltipNext ==
    \E b \in Buttons : MouseEnter(b) \/ Tick(b) \/ MouseLeave(b) \/ FadeEnd(b)

\* Timers fire and animations end; the pointer need not move.
TooltipFairness ==
    \A b \in Buttons : WF_tooltipVars(Tick(b)) /\ WF_tooltipVars(FadeEnd(b))

TooltipSpec == TooltipInit /\ [][TooltipNext]_tooltipVars /\ TooltipFairness

------------------------------------------------------------------------------
(* Properties.                                                             *)

TooltipTypeOK ==
    /\ hover \in Buttons \cup {NoButton}
    /\ counter \in 0 .. Delay
    /\ started \in BOOLEAN
    /\ timers \in SUBSET Buttons
    /\ counterInterval \in Buttons \cup {NoButton}
    /\ visible \in SUBSET Buttons
    /\ fading \in [Buttons -> 0 .. MaxFades]

\* No tooltip is displayed for good: each belongs to the button below the pointer
\* or has a fade under way that takes it away, although a fade of one button
\* resets the flag that the timer of another one reads (ckTooltip).
NoTooltipIsLeftBehind ==
    \A b \in visible : hover = b \/ fading[b] > 0

\* A pointer that has left for good leaves no tooltip, and one that stays on a
\* button gets its tooltip for good, whichever fades of before still end.
TooltipsGo == <>[](hover = NoButton) => <>[](visible = {})
TooltipStays == \A b \in Buttons : <>[](hover = b) => <>[](b \in visible)
TooltipsSettle == TooltipsGo /\ TooltipStays
=============================================================================
