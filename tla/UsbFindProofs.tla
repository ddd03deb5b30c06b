---------------------------- MODULE UsbFindProofs ----------------------------
(***************************************************************************)
(* A lookup that nothing disturbs finds its interface and opens it, for    *)
(* any number of ttys, files, plugs and pppd threads, whatever is left of  *)
(* the returned name.                                                      *)
(***************************************************************************)
EXTENDS UsbFind, TLAPS

USE NamesAssumption, ReturnedAssumption, BoundsAssumption

LEMMA TypeInit == Init => TypeOK
  BY DEF Init, TypeOK, Threads, Interfaces, NoName, Places, Looking, Devices, Ids

\* What Return does to the caller's state
LEMMA ReturnType ==
  ASSUME TypeOK, NEW t \in Threads, NEW r \in Names \cup {"garbled", "null"},
         Return(t, r), pc[t] # "opened", fd' = fd
  PROVE  /\ pc' \in [Threads -> Places]
         /\ todo' \in [Threads -> SUBSET Devices]
         /\ ent_t' \in [Threads -> Devices \cup Interfaces \cup {"garbled", NoName}]
         /\ \A u \in Threads : pc'[u] \in {"third", "fourth"} => ent_t'[u] \in Interfaces
         /\ s_device_path' \in [Threads -> Names \cup {"garbled", "null", NoName}]
         /\ \A u \in Threads : fd'[u] # NoName <=> pc'[u] = "opened"
<1>1. pc'[t] \in {"null", "open"} /\ pc' \in [Threads -> Places]
      /\ \A u \in Threads : u # t => pc'[u] = pc[u]
  BY DEF Return, Goto, TypeOK, Places
<1>2. s_device_path' \in [Threads -> Names \cup {"garbled", "null", NoName}]
  BY DEF Return, Goto, TypeOK
<1>3. /\ todo' \in [Threads -> SUBSET Devices]
      /\ ent_t' \in [Threads -> Devices \cup Interfaces \cup {"garbled", NoName}]
      /\ \A u \in Threads : u # t => ent_t'[u] = ent_t[u]
  BY DEF Return, TypeOK
<1>4. \A u \in Threads : pc'[u] \in {"third", "fourth"} => ent_t'[u] \in Interfaces
  BY <1>1, <1>3 DEF TypeOK
<1>5. \A u \in Threads : fd'[u] # NoName <=> pc'[u] = "opened"
  BY <1>1 DEF TypeOK
<1> QED BY <1>1, <1>2, <1>3, <1>4, <1>5

\* Changes of pc alone, to a place without a file
LEMMA GotoType ==
  ASSUME TypeOK, NEW t \in Threads, NEW place \in Places \ {"third", "fourth"},
         Goto(t, place), ent_t' \in [Threads -> Devices \cup Interfaces \cup {"garbled", NoName}],
         \A u \in Threads : u # t => ent_t'[u] = ent_t[u]
  PROVE  /\ pc' \in [Threads -> Places] /\ pc'[t] = place
         /\ \A u \in Threads : u # t => pc'[u] = pc[u]
         /\ \A u \in Threads : pc'[u] \in {"third", "fourth"} => ent_t'[u] \in Interfaces
  BY DEF Goto, TypeOK

LEMMA DisturbType ==
  ASSUME TypeOK, NEW t \in Threads, Disturb(t) \/ UNCHANGED calm
  PROVE  calm' \in [Threads -> BOOLEAN]
<1>1. CASE UNCHANGED calm
  BY <1>1 DEF TypeOK
<1>2. CASE Disturb(t)
  BY <1>2 DEF Disturb, TypeOK
<1> QED BY <1>1, <1>2

LEMMA CrashType ==
  ASSUME TypeOK, NEW t \in Threads, Crash(t), pc[t] # "opened", UNCHANGED <<bus, fd, starts>>
  PROVE  TypeOK'
<1>1. "crashed" \in Places \ {"third", "fourth"}
  BY DEF Places, Looking
<1>2. ent_t' = ent_t /\ Goto(t, "crashed")
  BY DEF Crash
<1>3. /\ pc' \in [Threads -> Places] /\ pc'[t] = "crashed"
      /\ \A u \in Threads : u # t => pc'[u] = pc[u]
      /\ \A u \in Threads : pc'[u] \in {"third", "fourth"} => ent_t'[u] \in Interfaces
  BY <1>1, <1>2, GotoType DEF TypeOK
<1>4. calm' \in [Threads -> BOOLEAN]
  BY DisturbType DEF Crash
<1>5. UNCHANGED <<modem, tty, subdir, plugs, fd, starts, todo, ent_t, s_device_path, leaked>>
  BY DEF Crash, bus
<1> QED BY <1>3, <1>4, <1>5 DEF TypeOK

LEMMA LookupType ==
  ASSUME TypeOK, NEW t \in Threads, Lookup(t), pc[t] \in {"idle", "null"}, starts' \in Nat
  PROVE  TypeOK'
<1>1. UNCHANGED <<modem, tty, subdir, plugs, fd, leaked>>
  BY DEF Lookup, bus
<1>2. CASE ~FdFree
  <2>1. Return(t, "null") /\ Disturb(t)
    BY <1>2 DEF Lookup
  <2>2. calm' \in [Threads -> BOOLEAN]
    BY <2>1, DisturbType
  <2> QED BY <1>1, <2>1, <2>2, ReturnType DEF TypeOK
<1>3. CASE FdFree
  <2>1. /\ Goto(t, "first") /\ UNCHANGED <<ent_t, s_device_path>>
        /\ todo' = [todo EXCEPT ![t] = IF modem = "absent" THEN Devices \ {"modem"} ELSE Devices]
        /\ calm' = [calm EXCEPT ![t] = Bound(t)]
    BY <1>3 DEF Lookup
  <2>2. /\ pc' \in [Threads -> Places] /\ pc'[t] = "first"
        /\ \A u \in Threads : u # t => pc'[u] = pc[u]
        /\ \A u \in Threads : pc'[u] \in {"third", "fourth"} => ent_t'[u] \in Interfaces
    BY <2>1, GotoType DEF TypeOK, Places, Looking
  <2>3. todo' \in [Threads -> SUBSET Devices]
    BY <2>1 DEF TypeOK
  <2>4. calm' \in [Threads -> BOOLEAN]
    BY <2>1 DEF TypeOK, Bound
  <2> QED BY <1>1, <2>1, <2>2, <2>3, <2>4 DEF TypeOK
<1> QED BY <1>2, <1>3

\* What a thread is told about a tty that is there
LEMMA FoundType ==
  ASSUME TypeOK, NEW t \in Threads, NEW name \in Names, Found(t, name),
         pc[t] # "opened", UNCHANGED <<bus, fd, starts>>, leaked' \in Nat
  PROVE  TypeOK'
<1>1. PICK r \in Names \cup {"garbled", "null"} : Return(t, r)
  BY DEF Found
<1>2. calm' \in [Threads -> BOOLEAN]
  BY DisturbType DEF Found
<1>3. UNCHANGED <<modem, tty, subdir, plugs, fd, starts>>
  BY DEF bus
<1> QED BY <1>1, <1>2, <1>3, ReturnType DEF TypeOK

LEMMA ScanType == ASSUME TypeOK, NEW t \in Threads, FindUsbDevice(t) PROVE TypeOK'
<1>1. CASE Examine(t)
  <2>0. PICK e \in todo[t] :
          IF FdFree /\ Matches(e) /\ (e = "modem" => modem # "absent")
          THEN /\ Goto(t, "second") /\ todo' = [todo EXCEPT ![t] = {}]
               /\ \/ ent_t' = [ent_t EXCEPT ![t] = e] /\ UNCHANGED calm
                  \/ ent_t' = [ent_t EXCEPT ![t] = "garbled"] /\ Disturb(t)
          ELSE /\ todo' = [todo EXCEPT ![t] = @ \ {e}]
               /\ UNCHANGED <<pc, ent_t>>
               /\ IF FdFree THEN UNCHANGED calm ELSE Disturb(t)
    BY <1>1 DEF Examine
  <2>1. /\ pc[t] = "first" /\ e \in Devices
        /\ UNCHANGED <<modem, tty, subdir, plugs, s_device_path, fd, leaked, starts>>
    BY <1>1 DEF Examine, bus, TypeOK
  <2>2. todo' \in [Threads -> SUBSET Devices]
    BY <2>0 DEF TypeOK
  <2>3. /\ ent_t' \in [Threads -> Devices \cup Interfaces \cup {"garbled", NoName}]
        /\ \A u \in Threads : u # t => ent_t'[u] = ent_t[u]
    BY <2>0, <2>1 DEF TypeOK
  <2>4. calm' \in [Threads -> BOOLEAN]
    BY <2>0, DisturbType
  <2>5. Goto(t, "second") \/ UNCHANGED <<pc, ent_t>>
    BY <2>0
  <2>6. /\ pc' \in [Threads -> Places] /\ pc'[t] # "opened"
        /\ \A u \in Threads : u # t => pc'[u] = pc[u]
        /\ \A u \in Threads : pc'[u] \in {"third", "fourth"} => ent_t'[u] \in Interfaces
    <3>1. CASE Goto(t, "second")
      BY <2>3, <3>1, GotoType DEF Places, Looking
    <3>2. CASE UNCHANGED <<pc, ent_t>>
      BY <2>1, <3>2 DEF TypeOK
    <3> QED BY <2>5, <3>1, <3>2
  <2> QED BY <2>1, <2>2, <2>3, <2>4, <2>6 DEF TypeOK
<1>2. CASE NotFound(t)
  <2>1. UNCHANGED <<modem, tty, subdir, plugs, fd, leaked, starts, calm>>
        /\ pc[t] = "first" /\ Return(t, "null")
    BY <1>2 DEF NotFound, bus
  <2> QED BY <2>1, ReturnType DEF TypeOK
<1>3. CASE Second(t)
  <2>1. pc[t] = "second" /\ UNCHANGED <<modem, tty, subdir, plugs, fd, starts>>
    BY <1>3 DEF Second, bus
  <2>2. CASE Crash(t)
    BY <1>3, <2>2, CrashType DEF Second
  <2>3. CASE /\ \E i \in Matching(t) : ent_t' = [ent_t EXCEPT ![t] = i]
             /\ Goto(t, "third")
             /\ UNCHANGED <<todo, s_device_path, leaked, calm>>
    <3>1. PICK i \in Interfaces : ent_t' = [ent_t EXCEPT ![t] = i]
      BY <2>3 DEF Matching
    <3> QED BY <2>1, <2>3, <3>1 DEF Goto, TypeOK, Places, Looking
  <2>4. CASE leaked' = leaked + 1 /\ Return(t, "null") /\ UNCHANGED calm
    BY <2>1, <2>4, ReturnType DEF TypeOK
  <2> QED BY <1>3, <2>2, <2>3, <2>4 DEF Second
<1>4. CASE Third(t)
  <2>1. pc[t] = "third" /\ UNCHANGED <<modem, tty, subdir, plugs, fd, starts>>
        /\ ent_t[t] \in Interfaces
    BY <1>4 DEF Third, bus, TypeOK
  <2>2. CASE Crash(t)
    BY <1>4, <2>2, CrashType DEF Third
  <2>3. CASE tty[ent_t[t]] # NoName /\ Found(t, tty[ent_t[t]]) /\ UNCHANGED leaked
    <3>1. tty[ent_t[t]] \in Names /\ leaked' \in Nat
      BY <2>1, <2>3 DEF TypeOK
    <3> QED BY <1>4, <2>1, <2>3, <3>1, FoundType DEF Third
  <2>4. CASE Goto(t, "fourth") /\ UNCHANGED <<todo, ent_t, s_device_path, leaked, calm>>
    BY <2>1, <2>4 DEF Goto, TypeOK, Places, Looking
  <2> QED BY <1>4, <2>2, <2>3, <2>4 DEF Third
<1>5. CASE Fourth(t)
  <2>1. pc[t] = "fourth" /\ UNCHANGED <<bus, fd, starts>> /\ ent_t[t] \in Interfaces
    BY <1>5 DEF Fourth, TypeOK
  <2>2. CASE Crash(t)
    BY <2>1, <2>2, CrashType
  <2>3. CASE tty[ent_t[t]] # NoName /\ Found(t, tty[ent_t[t]]) /\ leaked' = leaked + 1
    <3>1. tty[ent_t[t]] \in Names /\ leaked' \in Nat
      BY <2>1, <2>3 DEF TypeOK
    <3> QED BY <2>1, <2>3, <3>1, FoundType
  <2> QED BY <1>5, <2>2, <2>3 DEF Fourth
<1> QED BY <1>1, <1>2, <1>3, <1>4, <1>5 DEF FindUsbDevice

LEMMA CallerType ==
  ASSUME TypeOK, Search \/ StartPppd \/ Reopen \/ Redial \/ Quit \/ Restart
                 \/ \E t \in Threads : Open(t)
  PROVE  TypeOK'
<1>0. "main" \in Threads /\ "pppd" \in Threads
  BY DEF Threads
<1>1. CASE Search
  BY <1>0, <1>1, LookupType DEF Search, TypeOK
<1>2. CASE StartPppd
  BY <1>0, <1>2, LookupType DEF StartPppd, TypeOK
<1>3. CASE Reopen
  BY <1>3 DEF Reopen, TypeOK, Goto, bus, Places, NoName
<1>4. CASE Redial
  BY <1>4 DEF Redial, TypeOK, Goto, Disturb, bus, Places, NoName
<1>5. CASE Quit
  BY <1>5 DEF Quit, TypeOK, Goto, bus, Places, NoName
<1>6. CASE Restart
  BY <1>6 DEF Restart, TypeOK, bus, Places, NoName
<1>7. ASSUME NEW t \in Threads, Open(t) PROVE TypeOK'
  <2>1. PICK i \in Interfaces : fd' = [fd EXCEPT ![t] = i]
    BY <1>7 DEF Open
  <2>2. i # NoName
    BY DEF Interfaces, NoName
  <2> QED BY <1>7, <2>1, <2>2 DEF Open, TypeOK, Goto, bus, Places
<1> QED BY <1>1, <1>2, <1>3, <1>4, <1>5, <1>6, <1>7

LEMMA BusType == ASSUME TypeOK, Bus PROVE TypeOK'
<1>0. Changed
  BY DEF Bus, Plug, Configure, Bind, Unplug
<1>1. UNCHANGED <<subdir, pc, todo, ent_t, s_device_path, leaked, starts>>
  BY <1>0 DEF Changed, scan
<1>2. calm' \in [Threads -> BOOLEAN]
  <2>1. calm' = [t \in Threads |-> calm[t] /\ pc[t] \notin Looking \cup {"open"}]
    BY <1>0 DEF Changed
  <2>2. \A t \in Threads : (calm[t] /\ pc[t] \notin Looking \cup {"open"}) \in BOOLEAN
    OBVIOUS
  <2> QED BY <2>1, <2>2
<1>3. CASE Plug \/ Configure
  BY <1>1, <1>2, <1>3 DEF Plug, Configure, TypeOK
<1>4. CASE Bind
  BY <1>1, <1>2, <1>4 DEF Bind, TypeOK
<1>5. CASE Unplug
  BY <1>1, <1>2, <1>5 DEF Unplug, TypeOK, NoName
<1> QED BY <1>3, <1>4, <1>5 DEF Bus

LEMMA TypeStep == TypeOK /\ [Next]_vars => TypeOK'
<1> SUFFICES ASSUME TypeOK, [Next]_vars PROVE TypeOK'
  OBVIOUS
<1>1. CASE UNCHANGED vars
  BY <1>1 DEF vars, bus, scan, TypeOK
<1>2. CASE Main \/ Pppd \/ Restart
  BY <1>2, ScanType, CallerType DEF Main, Pppd, Threads
<1>3. CASE Bus
  BY <1>3, BusType
<1> QED BY <1>1, <1>2, <1>3 DEF Next

\* Every variable of the lookups, their callers and the bus has its type, and a
\* thread has a file exactly while it is "opened".
THEOREM TypeCorrect == Spec => []TypeOK
  BY TypeInit, TypeStep, PTL DEF Spec

-----------------------------------------------------------------------------
(* What is found                                                           *)

LEMMA BusInit == Init => BusInv
  BY DEF Init, BusInv

LEMMA BusStep == TypeOK /\ BusInv /\ [Next]_vars => BusInv'
<1> SUFFICES ASSUME TypeOK, BusInv, [Next]_vars PROVE BusInv'
  OBVIOUS
<1>1. CASE Bus
  <2>1. CASE Plug \/ Configure
    BY <1>1, <2>1 DEF Plug, Configure, BusInv
  <2>2. CASE Bind
    BY <2>2 DEF Bind, BusInv, TypeOK
  <2>3. CASE Unplug
    BY <2>3 DEF Unplug, BusInv
  <2> QED BY <1>1, <2>1, <2>2, <2>3 DEF Bus
<1>2. CASE UNCHANGED bus
  BY <1>2 DEF BusInv, bus
<1>3. Main \/ Pppd \/ Restart \/ UNCHANGED vars => UNCHANGED bus
  BY DEF Main, Pppd, Restart, vars, FindUsbDevice, Examine, NotFound, Second, Third,
         Fourth, Search, StartPppd, Lookup, Open, Reopen, Redial, Quit
<1> QED BY <1>1, <1>2, <1>3 DEF Next

\* What a lookup must preserve, thread by thread
Right(t) ==
    calm[t] =>
        /\ pc[t] \notin {"null", "crashed"}
        /\ pc[t] = "open" => s_device_path[t] = tty[Interface[t]]
        /\ pc[t] = "opened" => fd[t] \in {Interface[t], "dead"}
        /\ pc[t] \in Looking \cup {"open"} => Bound(t)
        /\ pc[t] = "first" => "modem" \in todo[t]
        /\ pc[t] = "second" => ent_t[t] = "modem"
        /\ pc[t] \in {"third", "fourth"} => ent_t[t] = Interface[t]
        /\ pc[t] = "fourth" => subdir

LEMMA RightIsInv == (\A t \in Threads : Right(t)) <=> CalmInv /\ FoundRight
  BY DEF Right, CalmInv, FoundRight

\* A thread's steps leave the other alone, and the bus.
Local(t) ==
    /\ UNCHANGED bus
    /\ \A u \in Threads : u # t =>
          /\ pc'[u] = pc[u] /\ todo'[u] = todo[u] /\ ent_t'[u] = ent_t[u]
          /\ s_device_path'[u] = s_device_path[u] /\ fd'[u] = fd[u]
          /\ calm'[u] = calm[u]

LEMMA RightLocal ==
  ASSUME NEW t \in Threads, Local(t), \A u \in Threads : Right(u), Right(t)'
  PROVE  \A u \in Threads : Right(u)'
<1>1. ASSUME NEW u \in Threads, u # t PROVE Right(u)'
  BY <1>1 DEF Local, Right, Bound, bus
<1> QED BY <1>1

LEMMA ScanLocal == ASSUME TypeOK, NEW t \in Threads, FindUsbDevice(t) PROVE Local(t)
<1>1. CASE Examine(t)
  BY <1>1 DEF Examine, Local, Goto, Disturb, TypeOK
<1>2. CASE NotFound(t)
  BY <1>2 DEF NotFound, Return, Local, Goto, TypeOK
<1>3. CASE Second(t)
  BY <1>3 DEF Second, Crash, Return, Local, Goto, Disturb, TypeOK
<1>4. CASE Third(t)
  BY <1>4 DEF Third, Found, Crash, Return, Local, Goto, Disturb, TypeOK
<1>5. CASE Fourth(t)
  BY <1>5 DEF Fourth, Found, Crash, Return, Local, Goto, Disturb, TypeOK
<1> QED BY <1>1, <1>2, <1>3, <1>4, <1>5 DEF FindUsbDevice

LEMMA CallerLocal ==
  ASSUME TypeOK, NEW t \in Threads,
         \/ t = "main" /\ (Search \/ Reopen)
         \/ t = "pppd" /\ (StartPppd \/ Redial \/ Quit)
         \/ Open(t)
  PROVE  Local(t)
<1>1. CASE Open(t)
  BY <1>1 DEF Open, Local, Goto, TypeOK
<1>2. CASE t = "main" /\ Search
  BY <1>2 DEF Search, Lookup, Return, Local, Goto, Disturb, TypeOK
<1>3. CASE t = "main" /\ Reopen
  BY <1>3 DEF Reopen, Local, Goto, TypeOK
<1>4. CASE t = "pppd" /\ StartPppd
  BY <1>4 DEF StartPppd, Lookup, Return, Local, Goto, Disturb, TypeOK
<1>5. CASE t = "pppd" /\ Redial
  BY <1>5 DEF Redial, Local, Goto, Disturb, TypeOK
<1>6. CASE t = "pppd" /\ Quit
  BY <1>6 DEF Quit, Local, Goto, TypeOK
<1> QED BY <1>1, <1>2, <1>3, <1>4, <1>5, <1>6

\* A disturbed lookup promises nothing.
LEMMA RightDisturbed ==
  ASSUME TypeOK, NEW t \in Threads, Disturb(t) PROVE Right(t)'
  BY DEF Disturb, Right, TypeOK

LEMMA RightScan ==
  ASSUME TypeOK, BusInv, NEW t \in Threads, Right(t), FindUsbDevice(t)
  PROVE  Right(t)'
<1> SUFFICES ASSUME calm[t], ~Disturb(t) PROVE Right(t)'
  <2>1. calm'[t] => calm[t] \/ Disturb(t)
    BY DEF FindUsbDevice, Examine, NotFound, Second, Third, Fourth, Found, Crash, TypeOK
  <2> QED BY <2>1, RightDisturbed DEF Right
<1>0. UNCHANGED bus /\ (Bound(t) => Bound(t)')
  BY ScanLocal DEF Local, bus, Bound
<1>1. CASE Examine(t)
  <2>1. PICK e \in todo[t] :
          IF FdFree /\ Matches(e) /\ (e = "modem" => modem # "absent")
          THEN /\ Goto(t, "second") /\ todo' = [todo EXCEPT ![t] = {}]
               /\ ent_t' = [ent_t EXCEPT ![t] = e]
          ELSE /\ FdFree /\ todo' = [todo EXCEPT ![t] = @ \ {e}]
               /\ UNCHANGED <<pc, ent_t>>
    BY <1>1 DEF Examine
  <2>2. pc[t] = "first" /\ "modem" \in todo[t] /\ Bound(t) /\ e \in Devices /\ FdFree
    BY <1>1, <2>1 DEF Examine, Right, Looking, TypeOK
  <2>3. modem = "configured"
    BY <2>2 DEF BusInv, Bound, Interface, Interfaces, Threads
  <2>4. Matches(e) <=> e = "modem"
    BY <2>2 DEF Matches, Devices, Ids
  <2>5. CASE e = "modem"
    BY <1>0, <2>1, <2>2, <2>3, <2>4, <2>5 DEF Right, Goto, TypeOK
  <2>6. CASE e # "modem"
    BY <1>0, <2>1, <2>2, <2>4, <2>6 DEF Right, TypeOK
  <2> QED BY <2>5, <2>6
<1>2. CASE NotFound(t)
  BY <1>2 DEF NotFound, Right
<1>3. CASE Second(t)
  <2>1. pc[t] = "second" /\ ent_t[t] = "modem" /\ Bound(t)
    BY <1>3 DEF Second, Right, Looking
  <2>2. modem = "configured" /\ Matching(t) = {Interface[t]} /\ Interface[t] \in Interfaces
    BY <2>1 DEF BusInv, Bound, Interface, Interfaces, Threads, Matching
  <2>3. Goto(t, "third") /\ ent_t' = [ent_t EXCEPT ![t] = Interface[t]]
    BY <1>3, <2>2 DEF Second, Crash
  <2> QED BY <1>0, <2>1, <2>3 DEF Right, Goto, TypeOK, Looking
<1>4. CASE Third(t)
  <2>1. pc[t] = "third" /\ ent_t[t] = Interface[t] /\ Bound(t)
    BY <1>4 DEF Third, Right, Looking
  <2>2. modem = "configured"
    BY <2>1 DEF BusInv, Bound, Interface, Interfaces, Threads
  <2>3. CASE Return(t, tty[ent_t[t]]) /\ tty[ent_t[t]] # NoName
    <3>1. tty[ent_t[t]] # "null"
      BY <2>1, <2>3, NamesAssumption DEF TypeOK, Interface, Interfaces, Threads
    <3>2. pc'[t] = "open" /\ s_device_path'[t] = tty[Interface[t]]
      BY <2>1, <2>3, <3>1 DEF Return, Goto, TypeOK
    <3> QED BY <1>0, <2>1, <3>2 DEF Right, bus, Looking
  <2>4. CASE Goto(t, "fourth") /\ UNCHANGED ent_t /\ subdir
    BY <1>0, <2>1, <2>4 DEF Right, Goto, TypeOK, bus
  <2> QED BY <1>4, <2>1, <2>2, <2>3, <2>4 DEF Third, Found, Crash, Bound
<1>5. CASE Fourth(t)
  <2>1. pc[t] = "fourth" /\ ent_t[t] = Interface[t] /\ Bound(t) /\ subdir
    BY <1>5 DEF Fourth, Right, Looking
  <2>2. Return(t, tty[ent_t[t]]) /\ tty[ent_t[t]] # NoName
    BY <1>5, <2>1 DEF Fourth, Crash, Found, Bound
  <2>3. tty[ent_t[t]] # "null"
    BY <2>1, <2>2, NamesAssumption DEF TypeOK, Interface, Interfaces, Threads
  <2>4. pc'[t] = "open" /\ s_device_path'[t] = tty[Interface[t]]
    BY <2>1, <2>2, <2>3 DEF Return, Goto, TypeOK
  <2> QED BY <1>0, <2>1, <2>4 DEF Right, bus, Looking
<1> QED BY <1>1, <1>2, <1>3, <1>4, <1>5 DEF FindUsbDevice

LEMMA RightCaller ==
  ASSUME TypeOK, BusInv, NEW t \in Threads, Right(t),
         \/ t = "main" /\ (Search \/ Reopen)
         \/ t = "pppd" /\ (StartPppd \/ Redial \/ Quit)
         \/ Open(t)
  PROVE  Right(t)'
<1>1. CASE Open(t)
  <2>1. PICK i \in Interfaces : tty[i] = s_device_path[t] /\ tty[i] # NoName
                                /\ fd' = [fd EXCEPT ![t] = i]
    BY <1>1 DEF Open
  <2>2. pc[t] = "open" /\ pc'[t] = "opened" /\ UNCHANGED <<bus, calm>> /\ fd'[t] = i
    BY <1>1, <2>1 DEF Open, Goto, TypeOK
  <2>3. calm[t] => i = Interface[t]
    <3>1. Interface[t] \in Interfaces
      BY DEF Interface, Interfaces, Threads
    <3> QED BY <2>1, <2>2, <3>1 DEF Right, BusInv
  <2> QED BY <2>2, <2>3 DEF Right, Looking
<1>2. CASE (t = "main" /\ Reopen) \/ (t = "pppd" /\ Quit)
  <2>1. pc'[t] = "idle"
    BY <1>2 DEF Reopen, Quit, Goto, TypeOK
  <2> QED BY <2>1 DEF Right, Looking
<1>3. CASE Lookup(t)
  <2>1. CASE ~FdFree
    BY <1>3, <2>1, RightDisturbed DEF Lookup
  <2>2. CASE FdFree
    <3>1. /\ pc'[t] = "first" /\ calm'[t] = Bound(t) /\ UNCHANGED bus
          /\ todo'[t] = IF modem = "absent" THEN Devices \ {"modem"} ELSE Devices
      BY <1>3, <2>2 DEF Lookup, Goto, TypeOK
    <3>2. Bound(t) => modem = "configured"
      BY DEF BusInv, Bound, Interface, Interfaces, Threads
    <3> QED BY <3>1, <3>2 DEF Right, Bound, bus, Devices, Ids
  <2> QED BY <2>1, <2>2
<1>4. CASE t = "pppd" /\ Redial
  BY <1>4, RightDisturbed DEF Redial
<1> QED BY <1>1, <1>2, <1>3, <1>4 DEF Search, StartPppd

LEMMA RightBus ==
  ASSUME TypeOK, NEW t \in Threads, Right(t), Bus PROVE Right(t)'
<1>1. /\ calm'[t] => calm[t] /\ pc[t] \notin Looking \cup {"open"}
      /\ pc' = pc
  BY DEF Bus, Plug, Configure, Bind, Unplug, Changed, scan
<1>2. fd'[t] = fd[t] \/ fd'[t] = "dead"
  BY DEF Bus, Plug, Configure, Bind, Unplug, TypeOK
<1> QED BY <1>1, <1>2 DEF Right, Looking

LEMMA RightStep ==
  TypeOK /\ BusInv /\ (\A t \in Threads : Right(t)) /\ [Next]_vars
    => (\A t \in Threads : Right(t))'
<1> SUFFICES ASSUME TypeOK, BusInv, \A t \in Threads : Right(t), [Next]_vars
             PROVE  \A t \in Threads : Right(t)'
  OBVIOUS
<1>1. ASSUME NEW t \in Threads, FindUsbDevice(t) PROVE \A u \in Threads : Right(u)'
  BY <1>1, ScanLocal, RightScan, RightLocal
<1>2. ASSUME NEW t \in Threads,
             \/ t = "main" /\ (Search \/ Reopen)
             \/ t = "pppd" /\ (StartPppd \/ Redial \/ Quit)
             \/ Open(t)
      PROVE  \A u \in Threads : Right(u)'
  BY <1>2, CallerLocal, RightCaller, RightLocal
<1>3. CASE Restart
  BY <1>3 DEF Restart, Right, Looking
<1>4. CASE Bus
  BY <1>4, RightBus
<1>5. CASE UNCHANGED vars
  BY <1>5 DEF vars, bus, scan, Right, Bound
<1>6. "main" \in Threads /\ "pppd" \in Threads
  BY DEF Threads
<1> QED BY <1>1, <1>2, <1>3, <1>4, <1>5, <1>6 DEF Next, Main, Pppd

\* A lookup that nothing disturbs finds the interface it was asked for, and the
\* name it returns opens that interface and no other.
THEOREM LookupRight == Spec => []FoundRight
<1>1. Init => \A t \in Threads : Right(t)
  BY DEF Init, Right, Looking
<1>2. (\A t \in Threads : Right(t)) => FoundRight
  BY RightIsInv
<1> QED BY <1>1, <1>2, TypeInit, TypeStep, BusInit, BusStep, RightStep, PTL DEF Spec
=============================================================================
