-------------------------------- MODULE Gpio --------------------------------
(***************************************************************************)
(* The program examples/mgpio.c: it reads numbers and, for each, does one  *)
(* thing to all the GPIO ports it knows, through the files of sysfs.  A    *)
(* command stops at the first port whose file it cannot open; what the     *)
(* writes return is ignored.  The kernel's side is as sysfs has it: a port *)
(* that is not exported has no files, to make a port an output sets it     *)
(* low, and the value of an input cannot be set.  parse_args and test_all  *)
(* are not called.                                                         *)
(***************************************************************************)
EXTENDS Integers, SequencesExt

CONSTANTS FirstPort, LastPort, SkippedPort \* the ports: 432, 439 and 433

Ports == (FirstPort..LastPort) \ {SkippedPort}

VARIABLES
    pc,      \* "scanf", "test" or "exit"
    command, \* the last number read; not set at first
    port,    \* the loop variable of the command
    gpio,    \* per port: "none" (not exported), "in", "low" or "high"
    input,   \* is there more to read?
    passed,  \* did the last command print "passed"?
    ignored  \* did a write of it fail? (history)

vars == <<pc, command, port, gpio, input, passed, ignored>>

Init ==
    /\ pc = "scanf" /\ command \in 0..6 /\ port = FirstPort
    /\ gpio = [p \in Ports |-> "none"]
    /\ input = TRUE /\ passed = FALSE /\ ignored = FALSE

-----------------------------------------------------------------------------
(* Int2String: the digits from the lowest up, then turned around.  The     *)
(* kernel reads a number out of them again.                                *)
digits[n \in Nat] == IF n < 10 THEN <<n>> ELSE <<n % 10>> \o digits[n \div 10]
Int2String(n)     == Reverse(digits[n])
Number(string)    == FoldLeft(LAMBDA n, d : 10 * n + d, 0, string)
Named(n)          == Number(Int2String(n))

(* scanf answers 1, 0 for something that is no number, which ends the      *)
(* program, or -1 at the end of the input, which does not: the last        *)
(* command is repeated, again and again.                                   *)
Scanf ==
    /\ pc = "scanf" /\ port' = FirstPort
    /\ \/ /\ input /\ command' \in 0..6 /\ UNCHANGED input
       \/ input' = FALSE /\ UNCHANGED command
    /\ pc' = IF command' = 0 THEN "scanf" ELSE "test"
    /\ passed' = FALSE /\ ignored' = FALSE
    /\ UNCHANGED gpio

NotANumber ==
    /\ pc = "scanf" /\ input /\ pc' = "exit"
    /\ UNCHANGED <<command, port, gpio, input, passed, ignored>>

Past(p)    == p > LastPort

Skip ==
    /\ pc = "test" /\ ~Past(port) /\ port = SkippedPort /\ port' = port + 1
    /\ UNCHANGED <<pc, command, gpio, input, passed, ignored>>

(* What the write of a command makes of a port, as the kernel has it.      *)
Written(c, g) ==
    CASE c = 1 -> IF g = "none" THEN "in" ELSE g
      [] c = 2 -> "low"
      [] c = 3 -> IF g = "in" THEN g ELSE "high"
      [] c = 4 -> IF g = "in" THEN g ELSE "low"
      [] c = 5 -> "in"
      [] OTHER -> g
Refuses(c, g) == \/ c = 1 /\ g # "none"
                 \/ c \in {3, 4} /\ g = "in"

(* export_gpio, setdir, setvalue or getvalue: open, write or read, close.  *)
Access ==
    /\ pc = "test" /\ ~Past(port) /\ port # SkippedPort
    /\ command = 1 \/ gpio[Named(port)] # "none"
    /\ \/ /\ gpio' = [gpio EXCEPT ![Named(port)] = Written(command, @)]
          /\ ignored' = (ignored \/ Refuses(command, gpio[Named(port)]))
       \/ ignored' = TRUE /\ UNCHANGED gpio
    /\ port' = port + 1
    /\ UNCHANGED <<pc, command, input, passed>>

OpenFails ==
    /\ pc = "test" /\ ~Past(port) /\ port # SkippedPort
    /\ pc' = "scanf"
    /\ UNCHANGED <<command, port, gpio, input, passed, ignored>>

Passed ==
    /\ pc = "test" /\ Past(port)
    /\ pc' = "scanf" /\ passed' = TRUE
    /\ UNCHANGED <<command, port, gpio, input, ignored>>

Next == Scanf \/ NotANumber \/ Skip \/ Access \/ OpenFails \/ Passed

Spec == Init /\ [][Next]_vars

-----------------------------------------------------------------------------
TypeOK ==
    /\ pc \in {"scanf", "test", "exit"} /\ command \in 0..6
    /\ port \in FirstPort..(LastPort + 1)
    /\ gpio \in [Ports -> {"none", "in", "low", "high"}]

(* "passed" means that the command took effect on every port, unless a     *)
(* write failed, which the program does not look at.                       *)
PassedMeansDone ==
    passed /\ ~ignored =>
        \A p \in Ports :
            /\ gpio[p] # "none"
            /\ command \in {2, 4} => gpio[p] = "low"
            /\ command = 3 => gpio[p] = "high"
            /\ command = 5 => gpio[p] = "in"

(* The inductive form of the above: the ports behind the loop are done.    *)
Done(p) ==
    /\ gpio[p] # "none"
    /\ command \in {2, 4} => gpio[p] = "low"
    /\ command = 3 => gpio[p] = "high"
    /\ command = 5 => gpio[p] = "in"

PortsInv ==
    /\ TypeOK /\ PassedMeansDone
    /\ pc = "test" => ~passed /\ (~ignored => \A p \in Ports : p < port => Done(p))
=============================================================================
