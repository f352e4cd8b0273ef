------------------------------- MODULE Machine -------------------------------
(***************************************************************************)
(* The main loop of main.c with everything that may stop it: code and      *)
(* memory breakpoints, the console, a GDB session, a DAP session, Ctrl-C,  *)
(* and the guest's own halt and break instructions.                        *)
(*                                                                         *)
(* at is the place in machine_run; the signal handler may run at each of   *)
(* them.  Breakpoints are counted by kind: code breakpoints per address,   *)
(* memory breakpoints for one watched location.  One processor has         *)
(* breakpoints (cpuno_global is always 0): a MIPS one under GDB and an     *)
(* RV32 one under DAP, the only processors these sessions work with.       *)
(***************************************************************************)
EXTENDS Integers

CONSTANTS
  Addrs,       \* the addresses of instructions
  MaxStep,     \* bound: the largest argument of the step command
  MaxBps       \* bound: breakpoints of one kind at one place

ASSUME MachineConstants == Addrs # {} /\ MaxStep \in Nat \ {0} /\ MaxBps \in Nat \ {0}

VARIABLES
  at,                   \* where machine_run is
  hasCpu, pc,           \* the processor the sessions work with
  machine_halt, machine_break, machine_interactive, stepping,
  remote_gdb, remote_gdb_conn, remote_gdb_listen, remote_gdb_step,
  dap_enabled, dap_state,
  bps,                  \* [Addrs -> [Kinds -> Nat]]: code breakpoints
  physmem_breakpoints,  \* [Kinds -> Nat]: memory breakpoints
  asked, ran,           \* history: argument of the step command obeyed, steps run since
  held,                 \* history: GDB was told of a stop and has not resumed
  due,                  \* history: a breakpoint was reached and nobody has been asked yet
  pressed               \* history: what became of the last Ctrl-C

control == <<machine_halt, machine_break, machine_interactive, stepping>>
gdb == <<remote_gdb, remote_gdb_conn, remote_gdb_listen, remote_gdb_step>>
dap == <<dap_enabled, dap_state>>
points == <<bps, physmem_breakpoints>>
history == <<asked, ran, held, due, pressed>>
vars == <<at, hasCpu, pc, control, gdb, dap, points, history>>

Kinds == {"debugger", "simulator"}
Places == {"loop", "startup", "listen", "session", "dap", "dapread", "stepping",
           "interact", "prompt", "step", "exited"}
DapStates == {"READY", "CONNECTED", "RUNNING", "DONE"}

NoBps == [k \in Kinds |-> 0]

(***************************************************************************)
(* After the command line and the configuration file: -g and -d, -i or no  *)
(* file, a step command in the file (which also ends interactive mode),    *)
(* breakpoints of the user.                                                *)
(***************************************************************************)
Init ==
  /\ at = "loop"
  /\ hasCpu \in BOOLEAN
  /\ pc \in Addrs
  /\ machine_halt = FALSE
  /\ machine_break = FALSE
  /\ machine_interactive \in BOOLEAN
  /\ stepping \in IF machine_interactive THEN {0} ELSE 0 .. MaxStep
  /\ remote_gdb \in BOOLEAN
  /\ remote_gdb_conn = FALSE
  /\ remote_gdb_listen = FALSE
  /\ remote_gdb_step = FALSE
  /\ dap_enabled \in IF remote_gdb THEN {FALSE} ELSE BOOLEAN
  /\ dap_state = "READY"
  /\ bps \in IF hasCpu /\ ~dap_enabled
             THEN [Addrs -> {NoBps, [NoBps EXCEPT !["simulator"] = 1]}]
             ELSE {[a \in Addrs |-> NoBps]}
  /\ physmem_breakpoints \in {NoBps, [NoBps EXCEPT !["simulator"] = 1]}
  /\ asked = 0
  /\ ran = 0
  /\ held = FALSE
  /\ due = FALSE
  /\ pressed = "no"

-----------------------------------------------------------------------------

\* Breakpoints of the given kinds are hit: the user's ask for the prompt, the
\* debugger's are reported to GDB, which is then listened to.
Hit(kinds) ==
  /\ machine_interactive' = (machine_interactive \/ "simulator" \in kinds)
  /\ remote_gdb_listen' = (remote_gdb_listen \/ "debugger" \in kinds)
  /\ held' = (held \/ "debugger" \in kinds)

PresentKinds(count) == {k \in Kinds : count[k] > 0}

\* The head of the loop; leaving it runs the cleanup, which closes DAP.
Exit ==
  /\ at = "loop"
  /\ machine_halt
  /\ at' = "exited"
  /\ dap_state' = IF dap_enabled THEN "DONE" ELSE dap_state
  /\ UNCHANGED <<hasCpu, pc, control, gdb, dap_enabled, points, history>>

Check ==
  /\ at = "loop"
  /\ ~machine_halt
  /\ LET kinds == IF hasCpu THEN PresentKinds(bps[pc]) ELSE {}
     IN  /\ Hit(kinds)
         /\ due' = (due \/ kinds # {})
  /\ at' = "startup"
  /\ UNCHANGED <<hasCpu, pc, machine_halt, machine_break, stepping, remote_gdb,
                 remote_gdb_conn, remote_gdb_step, dap, points, asked, ran, pressed>>

-----------------------------------------------------------------------------
GdbStartup_NotListening(opened) ==
  /\ at = "startup"
  /\ remote_gdb
  /\ ~remote_gdb_conn
  /\ opened => hasCpu
  /\ remote_gdb_conn' = opened
  /\ machine_interactive' = ~opened
  /\ pressed' = IF opened THEN "no" ELSE pressed
  /\ at' = "listen"
  /\ UNCHANGED <<hasCpu, pc, machine_halt, machine_break, stepping, remote_gdb,
                 remote_gdb_listen, remote_gdb_step, dap, points, asked, ran, held, due>>

\* Waiting for GDB to connect.  A connection ends interactive mode, whoever
\* asked for it; a failure (also Ctrl-C while waiting) starts it.
GdbStartup(opened) ==
  /\ at = "startup"
  /\ remote_gdb
  /\ ~remote_gdb_conn
  /\ opened => hasCpu
  /\ remote_gdb_conn' = opened
  /\ remote_gdb_listen' = (opened \/ remote_gdb_listen)
  /\ machine_interactive' = ~opened
  /\ pressed' = IF opened THEN "no" ELSE pressed
  /\ at' = "listen"
  /\ UNCHANGED <<hasCpu, pc, machine_halt, machine_break, stepping, remote_gdb,
                 remote_gdb_step, dap, points, asked, ran, held, due>>

SkipStartup ==
  /\ at = "startup"
  /\ ~remote_gdb \/ remote_gdb_conn
  /\ at' = "listen"
  /\ UNCHANGED <<hasCpu, pc, control, gdb, dap, points, history>>

Listening == remote_gdb /\ remote_gdb_conn /\ remote_gdb_listen

\* gdb_session is entered; after a single step it first reports the stop.
OpenSession ==
  /\ at = "listen"
  /\ Listening
  /\ remote_gdb_listen' = remote_gdb_step
  /\ remote_gdb_step' = FALSE
  /\ held' = TRUE
  /\ due' = FALSE
  /\ at' = "session"
  /\ UNCHANGED <<hasCpu, pc, control, remote_gdb, remote_gdb_conn, dap, points,
                 asked, ran, pressed>>

SkipSession ==
  /\ at = "listen"
  /\ ~Listening
  /\ at' = "dap"
  /\ UNCHANGED <<hasCpu, pc, control, gdb, dap, points, history>>

\* c and s, with the address to resume at; s listens again after one machine step.
GdbResume(a, step) ==
  /\ at = "session"
  /\ pc' = a
  /\ remote_gdb_step' = step
  /\ remote_gdb_listen' = step
  /\ held' = FALSE
  /\ at' = "dap"
  /\ UNCHANGED <<hasCpu, control, remote_gdb, remote_gdb_conn, dap, points,
                 asked, ran, due, pressed>>

\* The session ends: D, or no request could be read.  All code breakpoints of
\* the processor go, the user's too; of the memory breakpoints the debugger's.
GdbDone ==
  /\ at = "session"
  /\ remote_gdb' = FALSE
  /\ remote_gdb_conn' = FALSE
  /\ bps' = [a \in Addrs |-> NoBps]
  /\ physmem_breakpoints' = [physmem_breakpoints EXCEPT !["debugger"] = 0]
  /\ held' = FALSE
  /\ at' = "dap"
  /\ UNCHANGED <<hasCpu, pc, control, remote_gdb_listen, remote_gdb_step, dap,
                 asked, ran, due, pressed>>

GdbWriteRegisters(a) ==
  /\ at = "session"
  /\ pc' = a
  /\ UNCHANGED <<at, hasCpu, control, gdb, dap, points, history>>

SetBps(a, k, n) == bps' = [bps EXCEPT ![a] = [bps[a] EXCEPT ![k] = n]]

\* Z0 and Z1 insert once, z0 and z1 remove the debugger's breakpoint if there is one.
GdbCode(a, count) ==
  /\ at = "session"
  /\ SetBps(a, "debugger", count)
  /\ UNCHANGED <<at, hasCpu, pc, control, gdb, dap, physmem_breakpoints, history>>

AddPhysmem(k) ==
  /\ physmem_breakpoints[k] < MaxBps
  /\ physmem_breakpoints' = [physmem_breakpoints EXCEPT ![k] = @ + 1]

\* The first breakpoint at the address goes, of whichever kind it is.
RemovePhysmem ==
  \E k \in PresentKinds(physmem_breakpoints) :
    physmem_breakpoints' = [physmem_breakpoints EXCEPT ![k] = @ - 1]

GdbMemory ==
  /\ at = "session"
  /\ AddPhysmem("debugger") \/ RemovePhysmem
  /\ UNCHANGED <<at, hasCpu, pc, control, gdb, dap, bps, history>>

-----------------------------------------------------------------------------
\* Where DAP lets machine_run go: on, to its requests, or round the loop to wait.
DapOnward(state) ==
  CASE state \in {"RUNNING", "DONE"} -> "stepping"
    [] state = "CONNECTED" -> "dapread"
    [] OTHER -> "loop"

\* dap_startup; without a processor it fails and will be tried again.
DapStartup ==
  /\ at = "dap"
  /\ dap_enabled
  /\ dap_state = "READY"
  /\ dap_state' \in IF hasCpu THEN {"CONNECTED", "DONE"} ELSE {"READY"}
  /\ at' = DapOnward(dap_state')
  /\ UNCHANGED <<hasCpu, pc, control, gdb, dap_enabled, points, history>>

SkipDapStartup_NotEnabled ==
  /\ at = "dap"
  /\ ~dap_enabled \/ dap_state # "READY"
  /\ at' = DapOnward(dap_state)
  /\ UNCHANGED <<hasCpu, pc, control, gdb, dap, points, history>>

SkipDapStartup ==
  /\ at = "dap"
  /\ ~dap_enabled \/ dap_state # "READY"
  /\ at' = IF dap_enabled THEN DapOnward(dap_state) ELSE "stepping"
  /\ UNCHANGED <<hasCpu, pc, control, gdb, dap, points, history>>

\* dap_process reads commands until there is no more data, even behind a CONTINUE.
DapBreakpoint(a) ==
  /\ at = "dapread"
  /\ bps[a]["simulator"] = 0
  /\ SetBps(a, "simulator", 1)
  /\ UNCHANGED <<at, hasCpu, pc, control, gdb, dap, physmem_breakpoints, history>>

DapContinue ==
  /\ at = "dapread"
  /\ dap_state' = "RUNNING"
  /\ UNCHANGED <<at, hasCpu, pc, control, gdb, dap_enabled, points, history>>

\* The client closed the connection.
DapClose ==
  /\ at = "dapread"
  /\ dap_state' = "DONE"
  /\ machine_halt' = TRUE
  /\ at' = "stepping"
  /\ UNCHANGED <<hasCpu, pc, machine_break, machine_interactive, stepping, gdb,
                 dap_enabled, points, history>>

\* No more data: on with the simulation, or round the loop again to wait.
DapDone ==
  /\ at = "dapread"
  /\ at' = IF dap_state = "RUNNING" THEN "stepping" ELSE "loop"
  /\ UNCHANGED <<hasCpu, pc, control, gdb, dap, points, history>>

-----------------------------------------------------------------------------
Stepping_OneMore ==
  /\ at = "stepping"
  /\ stepping' = IF stepping > 0 THEN stepping - 1 ELSE 0
  /\ machine_interactive' = machine_interactive
  /\ at' = "interact"
  /\ UNCHANGED <<hasCpu, pc, machine_halt, machine_break, gdb, dap, points, history>>

Stepping ==
  /\ at = "stepping"
  /\ stepping' = IF stepping > 0 THEN stepping - 1 ELSE 0
  /\ machine_interactive' = (machine_interactive \/ stepping = 1)
  /\ at' = "interact"
  /\ UNCHANGED <<hasCpu, pc, machine_halt, machine_break, gdb, dap, points, history>>

\* interactive_control up to its first prompt
Interact ==
  /\ at = "interact"
  /\ machine_interactive
  /\ machine_break' = FALSE
  /\ stepping' = 0
  /\ asked' = 0
  /\ due' = FALSE
  /\ at' = "prompt"
  /\ UNCHANGED <<hasCpu, pc, machine_halt, machine_interactive, gdb, dap, points,
                 ran, held, pressed>>

SkipInteract ==
  /\ at = "interact"
  /\ ~machine_interactive
  /\ at' = "step"
  /\ UNCHANGED <<hasCpu, pc, control, gdb, dap, points, history>>

AtPrompt == at = "prompt" /\ machine_interactive

\* step n; step 0 sets no limit.
CmdStep(n) ==
  /\ AtPrompt
  /\ stepping' = n
  /\ machine_interactive' = FALSE
  /\ asked' = n
  /\ ran' = 0
  /\ pressed' = "no"
  /\ UNCHANGED <<at, hasCpu, pc, machine_halt, machine_break, gdb, dap, points,
                 held, due>>

\* continue leaves stepping alone: a step command given before it, between a
\* Ctrl-C and the end of the prompt's loop, stays in force.
CmdContinue ==
  /\ AtPrompt
  /\ machine_interactive' = FALSE
  /\ pressed' = "no"
  /\ UNCHANGED <<at, hasCpu, pc, machine_halt, machine_break, stepping, gdb, dap,
                 points, asked, ran, held, due>>

CmdQuit ==
  /\ AtPrompt
  /\ machine_interactive' = FALSE
  /\ machine_halt' = TRUE
  /\ pressed' = "no"
  /\ UNCHANGED <<at, hasCpu, pc, machine_break, stepping, gdb, dap, points,
                 asked, ran, held, due>>

\* break and rembreak
CmdMemory ==
  /\ AtPrompt
  /\ AddPhysmem("simulator") \/ RemovePhysmem
  /\ pressed' = "no"
  /\ UNCHANGED <<at, hasCpu, pc, control, gdb, dap, bps, asked, ran, held, due>>

\* The break and br commands of a MIPS processor; br removes the first breakpoint
\* at the address, of whichever kind it is.
CmdCode(a) ==
  /\ AtPrompt
  /\ hasCpu
  /\ ~dap_enabled
  /\ \/ /\ bps[a]["simulator"] < MaxBps
        /\ SetBps(a, "simulator", bps[a]["simulator"] + 1)
     \/ \E k \in PresentKinds(bps[a]) : SetBps(a, k, bps[a][k] - 1)
  /\ pressed' = "no"
  /\ UNCHANGED <<at, hasCpu, pc, control, gdb, dap, physmem_breakpoints, asked,
                 ran, held, due>>

CmdGoto(a) ==
  /\ AtPrompt
  /\ hasCpu
  /\ pc' = a
  /\ pressed' = "no"
  /\ UNCHANGED <<at, hasCpu, control, gdb, dap, points, asked, ran, held, due>>

\* add of a processor where there was none
CmdAddCpu ==
  /\ AtPrompt
  /\ ~hasCpu
  /\ hasCpu' = TRUE
  /\ pressed' = "no"
  /\ UNCHANGED <<at, pc, control, gdb, dap, points, asked, ran, held, due>>

\* The end of the input ends the simulator.
EndOfInput ==
  /\ AtPrompt
  /\ at' = "exited"
  /\ UNCHANGED <<hasCpu, pc, control, gdb, dap, points, history>>

LeavePrompt ==
  /\ at = "prompt"
  /\ ~machine_interactive
  /\ at' = "step"
  /\ UNCHANGED <<hasCpu, pc, control, gdb, dap, points, history>>

-----------------------------------------------------------------------------
\* What an instruction may ask for besides: nothing, the prompt (XINT, EBREAK on a
\* terminal, a guarded region) or the end (XHLT, EHALT, XINT without a terminal).
Wishes == {"none", "prompt", "halt"}

\* One machine step: the processor moves on, memory breakpoints may be hit.
MachineStep(a, kinds, wish) ==
  /\ at = "step"
  /\ ~machine_halt
  /\ pc' = IF hasCpu THEN a ELSE pc
  /\ Hit(kinds \cup IF wish = "prompt" THEN {"simulator"} ELSE {})
  /\ machine_halt' = (wish = "halt")
  /\ due' = (due \/ kinds # {} \/ wish = "prompt")
  /\ ran' = IF asked > 0 THEN ran + 1 ELSE ran
  /\ pressed' = CASE pressed = "no" -> "no"
                  [] pressed = "pressed" -> "ran"
                  [] OTHER -> "late"
  /\ at' = "loop"
  /\ UNCHANGED <<hasCpu, machine_break, stepping, remote_gdb, remote_gdb_conn,
                 remote_gdb_step, dap, points, asked>>

SkipMachineStep ==
  /\ at = "step"
  /\ machine_halt
  /\ at' = "loop"
  /\ UNCHANGED <<hasCpu, pc, control, gdb, dap, points, history>>

UserBreak_OnlyBreak ==
  /\ at # "exited"
  /\ IF machine_break \/ machine_interactive
     THEN /\ at' = "exited"
          /\ UNCHANGED <<machine_break, machine_interactive, pressed>>
     ELSE /\ machine_break' = TRUE
          /\ pressed' = "pressed"
          /\ UNCHANGED <<at, machine_interactive>>
  /\ UNCHANGED <<hasCpu, pc, machine_halt, stepping, gdb, dap, points, asked, ran,
                 held, due>>

\* Ctrl-C: a second one, or one at the prompt, ends the simulator.
UserBreak ==
  /\ at # "exited"
  /\ IF machine_break \/ machine_interactive
     THEN /\ at' = "exited"
          /\ UNCHANGED <<machine_break, machine_interactive, pressed>>
     ELSE /\ machine_break' = TRUE
          /\ machine_interactive' = TRUE
          /\ pressed' = "pressed"
          /\ UNCHANGED at
  /\ UNCHANGED <<hasCpu, pc, machine_halt, stepping, gdb, dap, points, asked, ran,
                 held, due>>

-----------------------------------------------------------------------------
\* What machine_run does by itself, waiting for nobody
Loop ==
  \/ Exit \/ Check \/ SkipStartup \/ OpenSession \/ SkipSession \/ SkipDapStartup
  \/ Stepping \/ Interact \/ SkipInteract \/ LeavePrompt \/ SkipMachineStep
  \/ \E a \in Addrs, kinds \in SUBSET PresentKinds(physmem_breakpoints), wish \in Wishes :
       MachineStep(a, kinds, wish)

Debugger ==
  \/ \E opened \in BOOLEAN : GdbStartup(opened)
  \/ \E a \in Addrs :
       \/ \E step \in BOOLEAN : GdbResume(a, step)
       \/ \E count \in 0 .. 1 : GdbCode(a, count)
       \/ GdbWriteRegisters(a)
       \/ DapBreakpoint(a)
  \/ GdbDone \/ GdbMemory
  \/ DapStartup \/ DapContinue \/ DapClose \/ DapDone

User ==
  \/ \E n \in 0 .. MaxStep : CmdStep(n)
  \/ \E a \in Addrs : CmdCode(a) \/ CmdGoto(a)
  \/ CmdContinue \/ CmdQuit \/ CmdMemory \/ CmdAddCpu \/ EndOfInput \/ UserBreak

Next == Loop \/ Debugger \/ User

Spec == Init /\ [][Next]_vars

\* The loop itself never waits; users, debuggers and connections may.
FairSpec == Spec /\ WF_vars(Loop)

-----------------------------------------------------------------------------
FlagsOK ==
  /\ hasCpu \in BOOLEAN
  /\ machine_halt \in BOOLEAN
  /\ machine_break \in BOOLEAN
  /\ machine_interactive \in BOOLEAN
  /\ remote_gdb \in BOOLEAN
  /\ remote_gdb_conn \in BOOLEAN
  /\ remote_gdb_listen \in BOOLEAN
  /\ remote_gdb_step \in BOOLEAN
  /\ dap_enabled \in BOOLEAN
  /\ held \in BOOLEAN
  /\ due \in BOOLEAN

CountersOK ==
  /\ at \in Places
  /\ pc \in Addrs
  /\ stepping \in 0 .. MaxStep
  /\ dap_state \in DapStates
  /\ asked \in 0 .. MaxStep
  /\ ran \in Nat
  /\ pressed \in {"no", "pressed", "ran", "late"}

PointsOK ==
  /\ bps \in [Addrs -> [Kinds -> 0 .. MaxBps]]
  /\ physmem_breakpoints \in [Kinds -> 0 .. MaxBps]

\* The variables of main.c and the breakpoint lists have their types.
TypeOK == FlagsOK /\ CountersOK /\ PointsOK

\* A breakpoint of the debugger exists only while GDB is connected: gdb_handle_event
\* never writes to a closed connection, however the session ended (gdb_remote_done).
DebuggerPointsNeedSession ==
  /\ physmem_breakpoints["debugger"] > 0 => remote_gdb_conn
  /\ \A a \in Addrs : bps[a]["debugger"] > 0 => remote_gdb_conn

\* Whenever a code breakpoint, a memory breakpoint or a break instruction has been
\* reached, the user or GDB is asked before the next machine step, even if the user
\* stops waiting for GDB, GDB connects, or DAP is still waiting at that moment.  And
\* once GDB has been told of a stop, no machine step runs until it continues, steps
\* or goes away: an event in the middle of a machine step reaches gdb_session first.
StopsHold == at = "step" /\ ~machine_halt => ~due /\ ~held

\* After step n at the prompt, the stepping check of machine_run asks for the prompt
\* when n machine steps have run: never later, and not sooner for that reason.
StepExact ==
  at = "interact" /\ asked > 0 =>
    /\ ran <= asked
    /\ stepping = 0 <=> ran = asked
    /\ ran = asked => machine_interactive

\* After a Ctrl-C that does not end the simulator, at most the machine step already
\* begun still runs before the prompt, at whichever point of machine_run or of the
\* prompt's own loop the handler interrupts.  (A GDB that connects meanwhile takes
\* the prompt's place: gdb_startup.)
BreakAnswered == pressed # "late"

\* Without debuggers, every breakpoint reached leads to the prompt or to the end of
\* the simulator.
StopComes == due /\ ~remote_gdb /\ ~dap_enabled ~> ~due \/ at = "exited"
=============================================================================
