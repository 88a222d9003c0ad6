------------------------------ MODULE KbLeds ------------------------------
(***************************************************************************)
(* The kernel module kbleds (module5/lab3): a timer that lets the LEDs of  *)
(* the foreground console blink, while users store what shall blink        *)
(* (ledctl in sysfs), switch consoles and unload the module.               *)
(***************************************************************************)
EXTENDS Integers, Sequences

CONSTANTS
    Consoles, NoTty,    \* consoles, and those of them that nobody has open
    Values              \* what users store: 0 .. 7 light LEDs, any other restores them

ConstantAssumption == NoTty \subseteq Consoles /\ Values \subseteq 0 .. 255 /\ 0 \in Values

RESTORE_LEDS == 255
Normal == 8    \* the LEDs follow the locks again

VARIABLES
    phase,               \* of the module, from loading to unloaded
    ledctl, curr_led_state,
    timer, func,         \* the timer: armed or not, and its function's progress
    tty,                 \* the console the running function has found
    fg_console, leds,    \* the foreground console, and per console what its LEDs show
    restored,            \* history: the console that cleanup restored
    ticks,               \* history: the last two values that the function has set in runs that
    begun                \* began after the last store; and whether the present run did

history == <<restored, ticks, begun>>
vars == <<phase, ledctl, curr_led_state, timer, func, tty, fg_console, leds, history>>

Init ==
    /\ phase = "loading" /\ ledctl = 0 /\ curr_led_state = 0
    /\ timer = "off" /\ func = "idle"
    /\ fg_console \in Consoles /\ tty = fg_console /\ restored = fg_console
    /\ leds = [c \in Consoles |-> Normal]
    /\ ticks = <<>> /\ begun = FALSE

Kdsetled(c, v) == leds' = [leds EXCEPT ![c] = IF v < 8 THEN v ELSE Normal]
HasTty(c) == c \notin NoTty
Stays(p) == phase = p /\ phase' = p

-----------------------------------------------------------------------------
(* kbleds_init *)

\* No tty, or no sysfs entry (whose kobject is then not given back): no timer is set.
Load ==
    /\ phase = "loading"
    /\ \/ phase' = "failed" /\ timer' = "off"
       \/ HasTty(fg_console) /\ phase' = "loaded" /\ timer' = "armed"
    /\ UNCHANGED <<ledctl, curr_led_state, func, tty, fg_console, leds, history>>

-----------------------------------------------------------------------------
(* my_timer_func *)

Expire ==
    /\ timer = "armed" /\ func = "idle"
    /\ timer' = "off" /\ tty' = fg_console
    /\ IF HasTty(fg_console) THEN func' = "compare" ELSE func' = "reschedule"
    /\ begun' = TRUE
    /\ UNCHANGED <<phase, ledctl, curr_led_state, fg_console, leds, restored, ticks>>

\* ledctl is read for the comparison, and once more for the assignment.
Compare ==
    /\ func = "compare"
    /\ func' = IF curr_led_state = ledctl THEN "clear" ELSE "set"
    /\ UNCHANGED <<phase, ledctl, curr_led_state, timer, tty, fg_console, leds, history>>

Change == curr_led_state' = IF func = "clear" THEN 0 ELSE ledctl

Assign ==
    /\ func \in {"clear", "set"}
    /\ Change
    /\ func' = "ioctl"
    /\ UNCHANGED <<phase, ledctl, timer, tty, fg_console, leds, history>>

Ioctl ==
    /\ func = "ioctl"
    /\ Kdsetled(tty, curr_led_state)
    /\ ticks' = IF ~begun THEN ticks
                ELSE (IF ticks = <<>> THEN <<>> ELSE <<ticks[Len(ticks)]>>) \o <<curr_led_state>>
    /\ func' = "reschedule"
    /\ UNCHANGED <<phase, ledctl, curr_led_state, timer, tty, fg_console, restored, begun>>

Reschedule ==
    /\ func = "reschedule"
    /\ func' = "idle" /\ timer' = "armed"
    /\ UNCHANGED <<phase, ledctl, curr_led_state, tty, fg_console, leds, history>>

-----------------------------------------------------------------------------
(* Users *)

\* ledctl_store: text that holds no number leaves ledctl as it is.
Store ==
    /\ Stays("loaded")
    /\ ledctl' \in Values
    /\ ticks' = <<>> /\ begun' = FALSE
    /\ UNCHANGED <<curr_led_state, timer, func, tty, fg_console, leds, restored>>

Switch ==
    /\ fg_console' \in Consoles
    /\ UNCHANGED <<phase, ledctl, curr_led_state, timer, func, tty, leds, history>>

-----------------------------------------------------------------------------
(* kbleds_cleanup *)

\* kobject_put waits for a store or show that is under way.
Put ==
    /\ phase = "loaded" /\ phase' = "put"
    /\ UNCHANGED <<ledctl, curr_led_state, timer, func, tty, fg_console, leds, history>>

\* Mutant: del_timer, which does not wait for the function.
DelTimer == phase = "put" /\ phase' = "stopped" /\ timer' = "off"
\* del_timer_sync: the timer is off, its function not running.
DelTimerSync == phase = "put" /\ phase' = "stopped" /\ func = "idle" /\ timer' = "off"

Stop ==
    /\ DelTimerSync
    /\ UNCHANGED <<ledctl, curr_led_state, func, tty, fg_console, leds, history>>

Restore ==
    /\ phase = "stopped" /\ phase' = "gone"
    /\ IF HasTty(fg_console) THEN Kdsetled(fg_console, RESTORE_LEDS) ELSE UNCHANGED leds
    /\ restored' = fg_console
    /\ UNCHANGED <<ledctl, curr_led_state, timer, func, tty, fg_console, ticks, begun>>

Next ==
    \/ Load \/ Expire \/ Compare \/ Assign \/ Ioctl \/ Reschedule
    \/ Store \/ Switch \/ Put \/ Stop \/ Restore

Spec == Init /\ [][Next]_vars

-----------------------------------------------------------------------------
(* Properties *)

\* Every variable has its type.
TypeOK ==
    /\ phase \in {"loading", "failed", "loaded", "put", "stopped", "gone"}
    /\ ledctl \in Values /\ curr_led_state \in Values
    /\ timer \in {"off", "armed"}
    /\ func \in {"idle", "compare", "clear", "set", "ioctl", "reschedule"}
    /\ {tty, fg_console, restored} \subseteq Consoles
    /\ leds \in [Consoles -> 0 .. Normal]

\* Once unloading has stopped the timer it neither runs nor is armed, though its function
\* arms it again; so nothing sets the LEDs of the foreground console after they were
\* restored.  (A console that was left before keeps what blinked last.)
LeftNormal ==
    phase \in {"stopped", "gone"} =>
        /\ timer = "off" /\ func = "idle"
        /\ phase = "gone" /\ HasTty(restored) => leds[restored] = Normal

\* From a store on the LEDs alternate between what was stored and nothing, wherever in
\* the timer's function the store came and whatever blinked before.
Blinks == Len(ticks) = 2 => {ticks[1], ticks[2]} = {0, ledctl}
=============================================================================
