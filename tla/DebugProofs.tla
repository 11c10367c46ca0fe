----------------------------- MODULE DebugProofs -----------------------------
(***************************************************************************)
(* Proofs about DebugControl: a stop that cpu_thread reported holds it     *)
(* until the debugger lets it go.  The induction is over IInv: Held says   *)
(* where cpu_thread is while a stop is in force and that nothing lets it   *)
(* pass, SessionPhases that m_debug_mode cannot be found false meanwhile.  *)
(***************************************************************************)
EXTENDS DebugControl, TLAPS

LEMMA InitIInv == Init => IInv
<1> SUFFICES ASSUME Init PROVE IInv
  OBVIOUS
<1>1. ThreadType
  BY DEF Init, ThreadType, CpuPhases, ServerPhases
<1>2. SocketType
  BY DEF Init, SocketType
<1>3. SessionPhases /\ Held
  BY DEF Init, SessionPhases, Held
<1> QED BY <1>1, <1>2, <1>3 DEF IInv, TypeOK

-----------------------------------------------------------------------------
(* The types, by thread. *)

LEMMA SendType ==
  ASSUME SocketType, NEW packet \in Packets, Send(packet)
  PROVE  toClient' \in Seq(Packets)
BY DEF SocketType, Send

LEMMA TypeSimulation ==
  ASSUME ThreadType, SocketType, Simulation \/ Wake("spurious") \/ ConnectionTimeout
  PROVE  TypeOK'
<1>1. cpu' \in CpuPhases
  <2>1. CASE Simulation \/ ConnectionTimeout
    BY <2>1 DEF ThreadType, CpuPhases, Simulation, Connection, StartPaused, ConnectionTimeout, CpuThread, Top,
                Park, Wait, Wake, Unpark, Search, Execute, CheckSingleStep, NotifyBreakpoint, NotifyStepComplete,
                ClearSingleStep, Pause
  <2>2. CASE Wake("spurious")
    BY <2>2 DEF ThreadType, CpuPhases, Wake
  <2> QED BY <2>1, <2>2
<1>2. CASE NotifyBreakpoint \/ NotifyStepComplete
  <2> USE DEF NotifyBreakpoint, NotifyStepComplete, Report
  <2>1. ThreadType'
    BY <1>1, <1>2 DEF ThreadType, Resuming, serverVars, waitVars
  <2>2. toClient' \in Seq(Packets)
    BY <1>2, SendType DEF Packets
  <2> QED BY <1>2, <2>1, <2>2 DEF TypeOK, SocketType
<1>3. CASE Wait \/ Wake("notified") \/ Wake("spurious")
  <2>1. SocketType'
    BY <1>3 DEF Wait, Wake, SocketType, socket
  <2>2. continueRequested' \in BOOLEAN /\ notified' \in BOOLEAN
    BY <1>3 DEF Wait, Wake, ThreadType
  <2> QED BY <1>1, <1>3, <2>1, <2>2 DEF Wait, Wake, TypeOK, ThreadType, serverVars
<1>4. CASE \/ Connection \/ StartPaused \/ ConnectionTimeout \/ Top \/ Park \/ Unpark \/ Search
           \/ Execute \/ CheckSingleStep \/ ClearSingleStep \/ Pause
  <2> USE DEF Connection, StartPaused, ConnectionTimeout, Top, Park, Unpark, Search, Execute, CheckSingleStep,
              ClearSingleStep, Pause
  <2>1. UNCHANGED <<serverVars, waitVars, socket, released>>
    BY <1>4
  <2>2. pc' \in Addr /\ paused' \in BOOLEAN /\ singleStep' \in BOOLEAN
    BY <1>4 DEF ThreadType
  <2>3. SocketType'
    BY <2>1 DEF SocketType, socket
  <2> QED BY <1>1, <2>1, <2>2, <2>3 DEF TypeOK, ThreadType, serverVars, waitVars
<1> QED BY <1>2, <1>3, <1>4 DEF Simulation, CpuThread

LEMMA TypeServer ==
  ASSUME ThreadType, SocketType, SessionPhases, ServerThread
  PROVE  TypeOK'
<1>1. server' \in ServerPhases /\ cpu' = cpu /\ pc' = pc
  BY DEF ThreadType, ServerPhases, ServerThread, Accept, SetDebugMode, Hello, Receive, Edit, LockRequest,
         SetMode, Unpause, EndOfStream, Close, LeaveDebugMode, cpuVars
<1>2. CASE Hello
  <2>1. toClient' \in Seq(Packets)
    BY <1>2, SendType DEF Hello, Packets
  <2> QED BY <1>1, <1>2, <2>1 DEF Hello, TypeOK, ThreadType, SocketType, cpuVars, waitVars
<1>3. CASE Receive
  <2>1. command' \in Commands /\ toServer' \in Seq(Commands)
    BY <1>3 DEF Receive, SocketType
  <2> QED BY <1>1, <1>3, <2>1 DEF Receive, TypeOK, ThreadType, SocketType, cpuVars, waitVars
<1>4. CASE Edit
  <2>1. command[2] \in Breakable
    BY <1>4 DEF Edit, SessionPhases, Edits
  <2>2. breakpoints' \subseteq Breakable
    BY <1>4, <2>1 DEF Edit, ThreadType
  <2>3. toClient' \in Seq(Packets)
    BY <1>4, SendType DEF Edit, Packets
  <2> QED BY <1>1, <1>4, <2>2, <2>3 DEF Edit, TypeOK, ThreadType, SocketType, cpuVars, waitVars
<1>5. CASE Accept \/ Close
  <2>1. CASE Accept
    BY <1>1, <2>1 DEF Accept, TypeOK, ThreadType, SocketType, cpuVars, waitVars
  <2>2. CASE Close
    <3>1. toServer' \in Seq(Commands) /\ toClient' \in Seq(Packets)
      BY <2>2 DEF Close
    <3> QED BY <1>1, <2>2, <3>1 DEF Close, TypeOK, ThreadType, SocketType, cpuVars, waitVars
  <2> QED BY <1>5, <2>1, <2>2
<1>6. CASE SetDebugMode \/ EndOfStream \/ LeaveDebugMode \/ LockRequest \/ SetMode \/ Unpause
  <2> USE DEF SetDebugMode, EndOfStream, LeaveDebugMode, LockRequest, SetMode, Unpause
  <2>1. SocketType'
    BY <1>6 DEF SocketType, socket
  <2>2. CASE SetDebugMode \/ EndOfStream \/ LeaveDebugMode
    BY <1>1, <2>1, <2>2 DEF TypeOK, ThreadType, cpuVars, waitVars
  <2>3. CASE LockRequest \/ SetMode \/ Unpause
    BY <1>1, <2>1, <2>3 DEF TypeOK, ThreadType, cpuVars, waitVars
  <2> QED BY <1>6, <2>2, <2>3
<1> QED BY <1>2, <1>3, <1>4, <1>5, <1>6 DEF ServerThread

LEMMA TypeClient ==
  ASSUME ThreadType, SocketType, Client
  PROVE  TypeOK'
<1>1. ThreadType'
  BY DEF Client, Connect, TakePacket, SendCommand, Leave, ThreadType, cpuVars, serverVars, waitVars
<1>2. CASE Connect
  BY <1>1, <1>2 DEF Connect, TypeOK, SocketType
<1>3. CASE TakePacket
  BY <1>1, <1>3 DEF TakePacket, TypeOK, SocketType
<1>4. CASE \E c \in Commands : SendCommand(c)
  <2>1. toServer' \in Seq(Commands)
    BY <1>4 DEF SendCommand, SocketType
  <2>2. toClient' \in Seq(Packets) /\ client' \in {"waiting", "gone"} /\ sessions' = sessions
    <3>1. <<>> \in Seq(Packets)
      OBVIOUS
    <3>2. toClient' \in {toClient, <<>>}
      BY <1>4 DEF SendCommand
    <3>3. toClient' \in Seq(Packets)
      BY <3>1, <3>2 DEF SocketType
    <3> QED BY <1>4, <3>3 DEF SendCommand
  <2> QED BY <1>1, <2>1, <2>2 DEF TypeOK, SocketType
<1>5. CASE Leave
  BY <1>1, <1>5 DEF Leave, TypeOK, SocketType
<1> QED BY <1>2, <1>3, <1>4, <1>5 DEF Client

-----------------------------------------------------------------------------
(* What holds cpu_thread. *)

LEMMA HeldSimulation ==
  ASSUME IInv, Simulation \/ Wake("spurious") \/ ConnectionTimeout
  PROVE  SessionPhases' /\ Held'
<1> USE DEF IInv, TypeOK, ThreadType, SessionPhases, Held, cpuVars, serverVars, waitVars, socket
<1>1. CASE Connection \/ StartPaused \/ ConnectionTimeout
  BY <1>1 DEF Connection, StartPaused, ConnectionTimeout
<1>2. CASE Top \/ Park \/ Unpark
  BY <1>2 DEF Top, Park, Unpark
<1>3. CASE Wait \/ Wake("notified") \/ Wake("spurious")
  BY <1>3 DEF Wait, Wake
<1>4. CASE Search \/ Execute \/ CheckSingleStep
  BY <1>4 DEF Search, Execute, CheckSingleStep
<1>5. CASE NotifyBreakpoint \/ NotifyStepComplete
  <2>1. UNCHANGED <<serverVars, waitVars, paused>> /\ cpu' \in {"unstep", "pause"}
    BY <1>5 DEF NotifyBreakpoint, NotifyStepComplete
  <2>2. ~released' => ~released \/ (debugMode /\ ~Resuming)
    BY <1>5 DEF NotifyBreakpoint, NotifyStepComplete, Report
  <2>3. SessionPhases'
    BY <2>1
  <2>4. ~released' => debugMode /\ server \in {"hello", "receive", "edit", "lock", "closing", "closed"}
    BY <2>2 DEF ServerPhases, Resuming
  <2> QED BY <2>1, <2>3, <2>4
<1>6. CASE ClearSingleStep \/ Pause
  BY <1>6 DEF ClearSingleStep, Pause
<1> QED BY <1>1, <1>2, <1>3, <1>4, <1>5, <1>6 DEF Simulation, CpuThread

LEMMA HeldServer ==
  ASSUME IInv, ServerThread
  PROVE  SessionPhases' /\ Held'
<1> USE DEF IInv, TypeOK, ThreadType, SessionPhases, Held, cpuVars, serverVars, waitVars, socket
<1>1. CASE Accept \/ SetDebugMode \/ Hello
  BY <1>1 DEF Accept, SetDebugMode, Hello
<1>2. CASE Receive
  <2>1. command' \in Commands
    BY <1>2 DEF Receive, SocketType
  <2>2. server' = "edit" => command' \in Edits
    BY <1>2, <2>1 DEF Receive, Commands
  <2> QED BY <1>2, <2>2 DEF Receive
<1>3. CASE Edit
  BY <1>3 DEF Edit
<1>4. CASE LockRequest
  BY <1>4 DEF LockRequest
<1>5. CASE SetMode \/ Unpause
  BY <1>5 DEF SetMode, Unpause
<1>6. CASE EndOfStream \/ Close \/ LeaveDebugMode
  BY <1>6 DEF EndOfStream, Close, LeaveDebugMode
<1> QED BY <1>1, <1>2, <1>3, <1>4, <1>5, <1>6 DEF ServerThread

LEMMA NextIInv == IInv /\ [Next]_vars => IInv'
<1> SUFFICES ASSUME IInv, [Next]_vars PROVE IInv'
  OBVIOUS
<1>1. CASE Simulation \/ Wake("spurious") \/ ConnectionTimeout
  BY <1>1, TypeSimulation, HeldSimulation DEF IInv, TypeOK
<1>2. CASE ServerThread
  BY <1>2, TypeServer, HeldServer DEF IInv, TypeOK
<1>3. CASE Client
  <2>1. SessionPhases' /\ Held'
    BY <1>3 DEF IInv, SessionPhases, Held, Client, Connect, TakePacket, SendCommand, Leave, cpuVars, serverVars, waitVars
  <2> QED BY <1>3, <2>1, TypeClient DEF IInv, TypeOK
<1>4. CASE UNCHANGED vars
  BY <1>4 DEF IInv, TypeOK, ThreadType, SocketType, SessionPhases, Held, vars, cpuVars, serverVars, waitVars, socket
<1> QED BY <1>1, <1>2, <1>3, <1>4 DEF Next

(* Every variable keeps its type, for any addresses, sessions and packets. *)
THEOREM DebugTypeOK == Spec => []TypeOK
<1>1. IInv => TypeOK
  BY DEF IInv
<1> QED BY InitIInv, NextIInv, <1>1, PTL DEF Spec

THEOREM DebugInvariant == Spec => []IInv
BY InitIInv, NextIInv, PTL DEF Spec

-----------------------------------------------------------------------------
(* A step of one thread is a step of the abstract run control: only Execute *)
(* moves PC, and it does so where Held leaves no stop in force.             *)
LEMMA StepControl ==
  ASSUME IInv, [Next]_vars
  PROVE  [Control!Next]_<<~released, pc>>
<1> USE DEF Control!Next, Control!Stop, Control!Release, Control!Run, TypeOK, ThreadType, IInv,
            cpuVars, serverVars, waitVars, socket
<1>1. CASE Execute
  BY <1>1 DEF Execute, Held
<1>2. CASE UNCHANGED pc
  BY <1>2
<1>3. Simulation => Execute \/ UNCHANGED pc
  BY DEF Simulation, Connection, StartPaused, CpuThread, Top, Park, Wait, Wake, Unpark, Search,
         CheckSingleStep, NotifyBreakpoint, NotifyStepComplete, ClearSingleStep, Pause
<1>4. ServerThread => UNCHANGED pc
  BY DEF ServerThread, Accept, SetDebugMode, Hello, Receive, Edit, LockRequest, SetMode, Unpause,
         EndOfStream, Close, LeaveDebugMode
<1>5. Client \/ ConnectionTimeout \/ Wake("spurious") \/ UNCHANGED vars => UNCHANGED pc
  BY DEF Client, Connect, TakePacket, SendCommand, Leave, ConnectionTimeout, Wake, vars
<1> QED BY <1>1, <1>2, <1>3, <1>4, <1>5 DEF Next

(***************************************************************************)
(* DebugControl implements RunControl: once a stop is reported no          *)
(* instruction is executed until a continue, a step or the end of the      *)
(* session, for any number of addresses, sessions and packets.             *)
(***************************************************************************)
THEOREM DebugHeldUntilReleased == Spec => HeldUntilReleased
<1>1. Init => Control!Init
  BY DEF Init, Control!Init
<1> QED BY InitIInv, NextIInv, StepControl, <1>1, PTL DEF Spec, HeldUntilReleased, Control!Spec
=============================================================================
