------------------------------ MODULE MCSignals -----------------------------
\* Two monitors with a bar each that starts hidden and has the default actions (SIGUSR1
\* toggles, SIGUSR2 reloads), one of them with a module that starts two processes.
EXTENDS Signals

MCThread == {Catcher}
MCMonitor == {"left", "right"}
MCBarConfig == {"top", "side"}
MCBarsOn == [m \in MCMonitor |-> IF m = "left" THEN <<"top">> ELSE <<"side">>]
MCOnUser == [c \in MCBarConfig |-> [s \in {"USR1", "USR2"} |->
               IF s = "USR1" THEN "TOGGLE" ELSE "RELOAD"]]
MCStartHidden == MCBarConfig
MCLaunching == {"top"}
=============================================================================
