---------------------------- MODULE DebugControl ----------------------------
(***************************************************************************)
(* Run control: the simulation thread (Simulator::run_simulation, which    *)
(* becomes the SystemC kernel and so cpu_thread) and the thread of the GDB *)
(* server, two threads of the operating system, and a GDB client behind a  *)
(* socket.  One step makes at most one access to what the threads share;   *)
(* all that m_debug_mutex protects is a critical section, but cpu_thread   *)
(* reads and writes m_debug_paused and m_single_step without it.           *)
(*                                                                         *)
(* The client speaks the remote protocol: after S05 it sets breakpoints,   *)
(* each answered by OK, then sends one continue or step and waits for the  *)
(* next S05; it may leave at any time, and another may come.  Commands     *)
(* that read or write registers and memory do not take part in run         *)
(* control.  An instruction leads to any address.                          *)
(***************************************************************************)
EXTENDS Naturals, Sequences

CONSTANTS
    Addr,          \* addresses of instructions
    Breakable,     \* bound: those that the client puts a breakpoint at
    MaxSessions,   \* bound: clients that connect, one after the other
    MaxPackets     \* bound: packets unread in a direction; a full socket blocks send

ASSUME DebugAssumption == Addr # {} /\ Breakable \subseteq Addr /\ MaxSessions \in Nat /\ MaxPackets \in Nat

VARIABLES
    cpu,           \* where the simulation thread is
    pc,            \* PC
    paused,        \* CPU::m_debug_paused
    singleStep,    \* CPU::m_single_step
    server,        \* where server_thread is
    command,       \* the command it handles
    connected,     \* GDBServer::m_client_connected
    debugMode,     \* GDBServer::m_debug_mode
    continueRequested, \* GDBServer::m_continue_requested
    breakpoints,   \* GDBServer::m_breakpoints
    mutex,         \* owner of m_debug_mutex
    notified,      \* m_continue_cv was notified since cpu_thread began to wait
    client,        \* what the client does
    toServer, toClient,  \* packets in the socket
    sessions,      \* clients so far
    released       \* history: no reported stop is in force

cpuVars    == <<cpu, pc, paused, singleStep>>
serverVars == <<server, command, connected, debugMode, breakpoints>>
waitVars   == <<continueRequested, mutex, notified>>
socket     == <<client, toServer, toClient, sessions>>
vars == <<cpuVars, serverVars, waitVars, socket, released>>

Resumes  == {<<"continue">>, <<"step">>}
Edits    == {"insert", "remove"} \X Breakable
Kill     == <<"kill">>
Commands == Resumes \cup Edits \cup {Kill}

-----------------------------------------------------------------------------
Init ==
  /\ cpu = "poll" /\ pc \in Addr
  /\ paused = FALSE /\ singleStep = FALSE
  /\ server = "accept" /\ command = <<>>
  /\ connected = FALSE /\ debugMode = FALSE /\ breakpoints = {}
  /\ continueRequested = FALSE /\ mutex = "free" /\ notified = FALSE
  /\ client = "away" /\ toServer = <<>> /\ toClient = <<>> /\ sessions = 0
  /\ released = TRUE

(* send_packet: nothing arrives without a client. *)
Send(packet) ==
  IF connected /\ client # "gone"
  THEN Len(toClient) < MaxPackets /\ toClient' = Append(toClient, packet)
  ELSE UNCHANGED toClient

-----------------------------------------------------------------------------
(* The simulation thread before sc_start: wait_for_connection polls, and gives *)
(* up after 30 seconds; then the CPU is made to start paused.                  *)

Connection ==
  /\ cpu = "poll" /\ connected
  /\ cpu' = "boot"
  /\ UNCHANGED <<pc, paused, singleStep, serverVars, waitVars, socket, released>>

ConnectionTimeout ==
  /\ cpu = "poll"
  /\ cpu' = "stillborn"
  /\ UNCHANGED <<pc, paused, singleStep, serverVars, waitVars, socket, released>>

StartPaused ==
  /\ cpu = "boot"
  /\ paused' = TRUE
  /\ cpu' = "top"
  /\ UNCHANGED <<pc, singleStep, serverVars, waitVars, socket, released>>

-----------------------------------------------------------------------------
(* cpu_thread *)

(* The top of the loop reads m_debug_paused. *)
Top ==
  /\ cpu = "top"
  /\ cpu' = IF paused THEN "parking" ELSE "running"
  /\ UNCHANGED <<pc, paused, singleStep, serverVars, waitVars, socket, released>>

(* wait_for_continue reads m_debug_mode without the lock first. *)
Park ==
  /\ cpu = "parking"
  /\ cpu' = IF debugMode THEN "locking" ELSE "unparking"
  /\ UNCHANGED <<pc, paused, singleStep, serverVars, waitVars, socket, released>>

(* It takes the lock, forgets an earlier request, and waits if it must. *)
Wait ==
  /\ cpu = "locking" /\ mutex = "free"
  /\ continueRequested' = FALSE
  /\ cpu' = IF debugMode THEN "waiting" ELSE "unparking"
  /\ notified' = FALSE
  /\ UNCHANGED <<pc, paused, singleStep, serverVars, mutex, socket, released>>

(* A waiting thread wakes, by a notification or spuriously, with the lock, and *)
(* looks at the condition again.                                               *)
Wake(reason) ==
  /\ cpu = "waiting" /\ mutex = "free"
  /\ reason = "notified" => notified
  /\ notified' = FALSE
  /\ IF continueRequested \/ ~debugMode
     THEN cpu' = "unparking" /\ continueRequested' = FALSE
     ELSE UNCHANGED <<cpu, continueRequested>>
  /\ UNCHANGED <<pc, paused, singleStep, serverVars, mutex, socket, released>>

Unpark ==
  /\ cpu = "unparking"
  /\ paused' = FALSE
  /\ cpu' = "running"
  /\ UNCHANGED <<pc, singleStep, serverVars, waitVars, socket, released>>

(* check_breakpoint *)
Search ==
  /\ cpu = "running"
  /\ cpu' = IF pc \in breakpoints THEN "hit" ELSE "execute"
  /\ UNCHANGED <<pc, paused, singleStep, serverVars, waitVars, socket, released>>

(* Fetch and execute; PC moves. *)
Execute ==
  /\ cpu = "execute"
  /\ pc' \in Addr
  /\ cpu' = "executed"
  /\ UNCHANGED <<paused, singleStep, serverVars, waitVars, socket, released>>

CheckSingleStep ==
  /\ cpu = "executed"
  /\ cpu' = IF singleStep THEN "stepped" ELSE "top"
  /\ UNCHANGED <<pc, paused, singleStep, serverVars, waitVars, socket, released>>

(***************************************************************************)
(* A stop is reported in a session that has begun.  It is in force unless  *)
(* a resume is being handled at that moment: the client then let the       *)
(* target go before it saw the stop.                                       *)
(***************************************************************************)
Resuming == server \in {"lock", "mode", "unpause"}

Report ==
  /\ Send("S05")
  /\ released' = (released /\ (~connected \/ ~debugMode \/ Resuming))
  /\ UNCHANGED <<client, toServer, sessions>>

NotifyBreakpoint ==
  /\ cpu = "hit"
  /\ Report
  /\ cpu' = "pause"
  /\ UNCHANGED <<pc, paused, singleStep, serverVars, waitVars>>

NotifyStepComplete ==
  /\ cpu = "stepped"
  /\ Report
  /\ cpu' = "unstep"
  /\ UNCHANGED <<pc, paused, singleStep, serverVars, waitVars>>

ClearSingleStep ==
  /\ cpu = "unstep"
  /\ singleStep' = FALSE
  /\ cpu' = "pause"
  /\ UNCHANGED <<pc, paused, serverVars, waitVars, socket, released>>

(* Mutant: m_debug_paused is left alone after a stop. *)
PauseNot ==
  /\ cpu = "pause"
  /\ cpu' = "top"
  /\ UNCHANGED <<pc, paused, singleStep, serverVars, waitVars, socket, released>>

Pause ==
  /\ cpu = "pause"
  /\ paused' = TRUE
  /\ cpu' = "top"
  /\ UNCHANGED <<pc, singleStep, serverVars, waitVars, socket, released>>

CpuThread ==
  \/ Top \/ Park \/ Wait \/ Wake("notified") \/ Unpark
  \/ Search \/ Execute \/ CheckSingleStep
  \/ NotifyBreakpoint \/ NotifyStepComplete \/ ClearSingleStep \/ Pause

Simulation == Connection \/ StartPaused \/ CpuThread

-----------------------------------------------------------------------------
(* server_thread *)

Accept ==
  /\ server = "accept" /\ client = "connecting"
  /\ connected' = TRUE
  /\ client' = "waiting"
  /\ server' = "accepted"
  /\ UNCHANGED <<cpuVars, command, debugMode, breakpoints, waitVars, toServer, toClient, sessions, released>>

SetDebugMode ==
  /\ server = "accepted"
  /\ debugMode' = TRUE
  /\ server' = "hello"
  /\ UNCHANGED <<cpuVars, command, connected, breakpoints, waitVars, socket, released>>

(* Mutant: the first packet is not a stop reply. *)
HelloNoStop ==
  /\ server = "hello"
  /\ Send("none")
  /\ server' = "receive"
  /\ UNCHANGED <<cpuVars, command, connected, debugMode, breakpoints, waitVars, client, toServer, sessions, released>>

(* handle_client begins with a stop that nothing caused. *)
Hello ==
  /\ server = "hello"
  /\ Send("S05")
  /\ server' = "receive"
  /\ UNCHANGED <<cpuVars, command, connected, debugMode, breakpoints, waitVars, client, toServer, sessions, released>>

Receive ==
  /\ server = "receive" /\ toServer # <<>>
  /\ command' = Head(toServer)
  /\ toServer' = Tail(toServer)
  /\ server' = IF command' \in Resumes THEN "lock"
               ELSE IF command' = Kill THEN "closing" ELSE "edit"
  /\ connected' = (connected /\ command' # Kill)
  /\ UNCHANGED <<cpuVars, debugMode, breakpoints, waitVars, client, toClient, sessions, released>>

(* handle_breakpoint *)
Edit ==
  /\ server = "edit"
  /\ breakpoints' = IF command[1] = "insert" THEN breakpoints \cup {command[2]}
                                             ELSE breakpoints \ {command[2]}
  /\ Send("OK")
  /\ server' = "receive" /\ command' = <<>>
  /\ UNCHANGED <<cpuVars, connected, debugMode, waitVars, client, toServer, sessions, released>>

(* handle_continue and handle_step: under the lock the request, then the mode of *)
(* the CPU, then its pause flag, the notification and the end of the lock.       *)
LockRequest ==
  /\ server = "lock" /\ mutex = "free"
  /\ mutex' = "server"
  /\ continueRequested' = TRUE /\ debugMode' = TRUE
  /\ released' = TRUE
  /\ server' = "mode"
  /\ UNCHANGED <<cpuVars, command, connected, breakpoints, notified, socket>>

(* Mutant: a step is handled like a continue. *)
SetModeContinue ==
  /\ server = "mode"
  /\ singleStep' = FALSE
  /\ server' = "unpause"
  /\ UNCHANGED <<cpu, pc, paused, command, connected, debugMode, breakpoints, waitVars, socket, released>>

SetMode ==
  /\ server = "mode"
  /\ singleStep' = (command = <<"step">>)
  /\ server' = "unpause"
  /\ UNCHANGED <<cpu, pc, paused, command, connected, debugMode, breakpoints, waitVars, socket, released>>

(* Mutant: nobody is notified. *)
UnpauseSilent ==
  /\ server = "unpause"
  /\ paused' = FALSE
  /\ mutex' = "free"
  /\ server' = "receive" /\ command' = <<>>
  /\ UNCHANGED <<cpu, pc, singleStep, connected, debugMode, breakpoints, continueRequested, notified, socket, released>>

Unpause ==
  /\ server = "unpause"
  /\ paused' = FALSE
  /\ notified' = (cpu = "waiting")
  /\ mutex' = "free"
  /\ server' = "receive" /\ command' = <<>>
  /\ UNCHANGED <<cpu, pc, singleStep, connected, debugMode, breakpoints, continueRequested, socket, released>>

(* recv returns nothing once the client has left. *)
EndOfStream ==
  /\ server = "receive" /\ client = "gone" /\ toServer = <<>>
  /\ server' = "closing"
  /\ UNCHANGED <<cpuVars, command, connected, debugMode, breakpoints, waitVars, socket, released>>

Close ==
  /\ server = "closing"
  /\ connected' = FALSE
  /\ client' = "away"
  /\ toServer' = <<>> /\ toClient' = <<>>
  /\ server' = "closed" /\ command' = <<>>
  /\ UNCHANGED <<cpuVars, debugMode, breakpoints, waitVars, sessions, released>>

(* m_debug_mode becomes false; nobody is notified. *)
LeaveDebugMode ==
  /\ server = "closed"
  /\ debugMode' = FALSE
  /\ released' = TRUE
  /\ server' = "accept"
  /\ UNCHANGED <<cpuVars, command, connected, breakpoints, waitVars, socket>>

ServerThread ==
  \/ Accept \/ SetDebugMode \/ Hello \/ Receive \/ Edit
  \/ LockRequest \/ SetMode \/ Unpause
  \/ EndOfStream \/ Close \/ LeaveDebugMode

-----------------------------------------------------------------------------
(* The client *)

Connect ==
  /\ client = "away" /\ sessions < MaxSessions
  /\ client' = "connecting"
  /\ sessions' = sessions + 1
  /\ UNCHANGED <<cpuVars, serverVars, waitVars, toServer, toClient, released>>

(* It takes a packet while it waits for one. *)
TakePacket ==
  /\ client = "waiting" /\ toClient # <<>>
  /\ toClient' = Tail(toClient)
  /\ client' = "control"
  /\ UNCHANGED <<cpuVars, serverVars, waitVars, toServer, sessions, released>>

SendCommand(c) ==
  /\ client = "control" /\ Len(toServer) < MaxPackets
  /\ toServer' = Append(toServer, c)
  /\ IF c = Kill THEN client' = "gone" /\ toClient' = <<>>
                 ELSE client' = "waiting" /\ UNCHANGED toClient
  /\ UNCHANGED <<cpuVars, serverVars, waitVars, sessions, released>>

Leave ==
  /\ client \in {"waiting", "control"}
  /\ client' = "gone"
  /\ toClient' = <<>>
  /\ UNCHANGED <<cpuVars, serverVars, waitVars, toServer, sessions, released>>

Client == Connect \/ TakePacket \/ (\E c \in Commands : SendCommand(c)) \/ Leave

-----------------------------------------------------------------------------
Next == Simulation \/ ConnectionTimeout \/ Wake("spurious") \/ ServerThread \/ Client

(* Both threads are scheduled. The client, the timeout and spurious wake-ups are *)
(* left to themselves.                                                           *)
Fairness == WF_vars(Simulation) /\ WF_vars(ServerThread)

Spec == Init /\ [][Next]_vars /\ Fairness

-----------------------------------------------------------------------------
CpuPhases == {"poll", "stillborn", "boot", "top", "parking", "locking", "waiting", "unparking",
              "running", "execute", "executed", "hit", "stepped", "unstep", "pause"}
ServerPhases == {"accept", "accepted", "hello", "receive", "edit", "lock", "mode", "unpause", "closing", "closed"}

Packets == {"S05", "OK"}

ThreadType ==
  /\ cpu \in CpuPhases /\ pc \in Addr
  /\ paused \in BOOLEAN /\ singleStep \in BOOLEAN
  /\ server \in ServerPhases /\ command \in Commands \cup {<<>>}
  /\ connected \in BOOLEAN /\ debugMode \in BOOLEAN /\ breakpoints \subseteq Breakable
  /\ continueRequested \in BOOLEAN /\ mutex \in {"free", "server"} /\ notified \in BOOLEAN
  /\ released \in BOOLEAN

SocketType ==
  /\ client \in {"away", "connecting", "waiting", "control", "gone"}
  /\ toServer \in Seq(Commands) /\ toClient \in Seq(Packets)
  /\ sessions \in Nat

TypeOK == ThreadType /\ SocketType

(***************************************************************************)
(* A stop that cpu_thread reported holds it: until the server handles a    *)
(* continue or a step, or the session ends, no instruction is executed,    *)
(* however the unlocked accesses to m_debug_paused interleave.             *)
(***************************************************************************)
Control == INSTANCE RunControl WITH held <- ~released

HeldUntilReleased == Control!Spec

(* Where cpu_thread can be while a stop is in force; what is not there yet to *)
(* let it pass.                                                               *)
Held ==
  ~released =>
    /\ \/ cpu \in {"unstep", "pause"}
       \/ cpu \in {"top", "parking", "locking"} /\ paused
       \/ cpu = "waiting" /\ paused /\ ~continueRequested
    /\ debugMode
    /\ server \in {"hello", "receive", "edit", "lock", "closing", "closed"}

(* m_debug_mode is set between the first and the last step of a session; what *)
(* handle_breakpoint is given is a breakpoint command.                        *)
SessionPhases ==
  /\ debugMode <=> server \notin {"accept", "accepted"}
  /\ server = "edit" => command \in Edits

(* The inductive invariant. *)
IInv == TypeOK /\ SessionPhases /\ Held

(***************************************************************************)
(* If cpu_thread already waits when a continue or a step is handled, the   *)
(* request is not lost: it goes on.                                        *)
(***************************************************************************)
WaitingIsResumed == (cpu = "waiting" /\ server = "unpause") ~> (cpu = "running")

(* The session ends, or another continue or step arrives. *)
Overtaken == ~connected \/ server = "mode"

(***************************************************************************)
(* If it already waits when a step is handled, it stops again, after one   *)
(* instruction or at a breakpoint, unless the client overtakes the step.   *)
(***************************************************************************)
WaitingStepStops ==
  (cpu = "waiting" /\ server = "unpause" /\ command = <<"step">>)
     ~> (cpu \in {"hit", "stepped"} \/ Overtaken)

(***************************************************************************)
(* debug/GDBServer.cpp:572 says of a step "will send stop reason when step *)
(* completes": once cpu_thread runs, a step is answered by a stop unless   *)
(* the client overtakes it.                                                *)
(***************************************************************************)
Started == cpu \notin {"poll", "boot", "stillborn"}

StepIsAnswered ==
  (Started /\ server = "unpause" /\ command = <<"step">>)
     ~> (cpu \in {"hit", "stepped"} \/ Overtaken)
=============================================================================
