------------------------------- MODULE UsbFind --------------------------------
(***************************************************************************)
(* How the modem's serial ports are found: FindUsbDevice of usb_find.c,    *)
(* which scans sysfs in three stages, as it is called by mainLoop of       *)
(* reference-ril.c, again and again, and by the pppd thread, once; what    *)
(* the two then do with the name; and a modem that is plugged, configured, *)
(* bound to a driver and unplugged between any two steps of theirs.        *)
(*                                                                         *)
(* A name is that of a tty, "null" or "garbled": FindUsbDevice copies a    *)
(* directory entry after closedir, and returns the address of a local.     *)
(***************************************************************************)
EXTENDS Integers, FiniteSets

CONSTANTS
    Names,     \* the names of ttys
    Returned,  \* what may be left of the name in the local whose address is
               \* returned: "name", "garbled", or "null" for the address itself
    MaxFds,    \* the files that the process may have open
    MaxPlugs,  \* bound: how often the modem is plugged
    MaxStarts  \* bound: pppd threads

Threads == {"main", "pppd"}
Interface == [main |-> "at", pppd |-> "ppp"]
Interfaces == {"at", "ppp"}

\* The devices of the bus, and which of their ids are the modem's: product 1 is
\* also that of a root hub, and a modem that boots has the vendor of one.
Ids == [modem |-> {"vendor", "product"}, hub |-> {"product"}, boot |-> {"vendor"}]
Devices == DOMAIN Ids
NoName == "none"

ASSUME NamesAssumption == Names \cap {NoName, "null", "garbled"} = {}
ASSUME ReturnedAssumption == Returned \subseteq {"name", "garbled", "null"}
ASSUME BoundsAssumption ==
    MaxFds \in Nat /\ MaxPlugs \in Nat /\ MaxStarts \in Nat

VARIABLES
    modem,        \* "absent", "device" or "configured": with its interfaces
    tty,          \* the tty of each interface, once a driver is bound to it
    subdir,       \* whether ttys are in a tty folder of the interface's
    pc,           \* where each thread is
    todo,         \* the first stage's entries not yet read
    ent_t,        \* the entry each thread has found last
    s_device_path,\* the name each thread opens
    fd,           \* the interface it has open, "dead" when it has gone
    leaked,       \* directories left open
    plugs, starts,\* counters of the bounds
    calm          \* history: see Lookup

bus == <<modem, tty, subdir, plugs>>
scan == <<pc, todo, ent_t>>
vars == <<bus, scan, s_device_path, fd, leaked, starts, calm>>

Looking == {"first", "second", "third", "fourth"}
Places == Looking \cup {"idle", "null", "open", "opened", "crashed"}

Init ==
    /\ modem = "absent" /\ tty = [i \in Interfaces |-> NoName] /\ plugs = 0
    /\ subdir \in BOOLEAN
    /\ pc = [t \in Threads |-> "idle"]
    /\ todo = [t \in Threads |-> {}]
    /\ ent_t = [t \in Threads |-> NoName]
    /\ s_device_path = [t \in Threads |-> NoName]
    /\ fd = [t \in Threads |-> NoName]
    /\ leaked = 0 /\ starts = 0
    /\ calm = [t \in Threads |-> FALSE]

Alive == \A t \in Threads : pc[t] # "crashed"
Bound(t) == tty[Interface[t]] # NoName

\* Whether another file or directory can be opened
FdFree ==
    leaked + Cardinality({t \in Threads : pc[t] \in {"first", "fourth", "opened"}}) < MaxFds

Goto(t, place) == pc' = [pc EXCEPT ![t] = place]
Disturb(t) == calm' = [calm EXCEPT ![t] = FALSE]

-----------------------------------------------------------------------------
(* FindUsbDevice                                                           *)

\* The caller has a result: mainLoop sleeps a second and looks again if it is
\* NULL, the pppd thread makes a path of whatever it is.
Return(t, r) ==
    /\ IF t = "main" /\ r = "null"
       THEN Goto(t, "null") /\ UNCHANGED s_device_path
       ELSE Goto(t, "open") /\ s_device_path' = [s_device_path EXCEPT ![t] = r]
    /\ todo' = [todo EXCEPT ![t] = {}] /\ ent_t' = [ent_t EXCEPT ![t] = NoName]

\* readdir(NULL)
Crash(t) ==
    /\ Goto(t, "crashed")
    /\ IF FdFree THEN UNCHANGED calm ELSE Disturb(t)
    /\ UNCHANGED <<todo, ent_t, s_device_path, leaked>>

\* The first opendir.  A lookup is calm as long as nothing changes on the bus
\* until its name has been opened, provided the interface had its tty when it
\* began, no file is wanting and no name is garbled.
Lookup(t) ==
    /\ Alive
    /\ IF ~FdFree
       THEN Return(t, "null") /\ Disturb(t)
       ELSE /\ Goto(t, "first")
            /\ todo' = [todo EXCEPT ![t] = IF modem = "absent" THEN Devices \ {"modem"}
                                                               ELSE Devices]
            /\ calm' = [calm EXCEPT ![t] = Bound(t)]
            /\ UNCHANGED <<ent_t, s_device_path>>
    /\ UNCHANGED <<bus, fd, leaked>>

\* Vendor and product id are both among the known ones.
Matches(e) == Ids[e] = {"vendor", "product"}

\* First stage: read the ids of the next device, and go on with it if they match
Examine(t) ==
    /\ Alive /\ pc[t] = "first"
    /\ \E e \in todo[t] :
          /\ IF FdFree /\ Matches(e) /\ (e = "modem" => modem # "absent")
             THEN /\ Goto(t, "second") /\ todo' = [todo EXCEPT ![t] = {}]
                  /\ \/ ent_t' = [ent_t EXCEPT ![t] = e] /\ UNCHANGED calm
                     \/ ent_t' = [ent_t EXCEPT ![t] = "garbled"] /\ Disturb(t)
             ELSE /\ todo' = [todo EXCEPT ![t] = @ \ {e}]
                  /\ UNCHANGED <<pc, ent_t>>
                  /\ IF FdFree THEN UNCHANGED calm ELSE Disturb(t)
    /\ UNCHANGED <<bus, s_device_path, fd, leaked, starts>>

\* First stage: no device matches
NotFound(t) ==
    /\ Alive /\ pc[t] = "first" /\ todo[t] = {}
    /\ Return(t, "null")
    /\ UNCHANGED <<bus, fd, leaked, starts, calm>>

\* Variant: the interface number is not compared.
MatchingAny(t) ==
    {i \in Interfaces : modem = "configured" /\ ent_t[t] = "modem"}

\* The entries named <device>:1.<interface number>
Matching(t) ==
    {i \in Interfaces : modem = "configured" /\ ent_t[t] = "modem" /\ i = Interface[t]}

\* Second stage: the interface's entry; without it the directory stays open
Second(t) ==
    /\ Alive /\ pc[t] = "second"
    /\ \/ ~FdFree /\ Crash(t)
       \/ /\ FdFree
          /\ \E i \in Matching(t) : ent_t' = [ent_t EXCEPT ![t] = i]
          /\ Goto(t, "third")
          /\ UNCHANGED <<todo, s_device_path, leaked, calm>>
       \/ /\ FdFree /\ Matching(t) = {}
          /\ leaked' = leaked + 1
          /\ Return(t, "null")
          /\ UNCHANGED calm
    /\ UNCHANGED <<bus, fd, starts>>

\* The name of a tty on its way to the caller
Found(t, name) ==
    \/ "name" \in Returned /\ Return(t, name) /\ UNCHANGED calm
    \/ \E r \in Returned \ {"name"} : Return(t, r) /\ Disturb(t)

\* Third stage: a tty in the interface's folder
Third(t) ==
    /\ Alive /\ pc[t] = "third"
    /\ \/ (~FdFree \/ modem # "configured") /\ Crash(t)
       \/ /\ FdFree /\ modem = "configured"
          /\ ~subdir /\ tty[ent_t[t]] # NoName
          /\ Found(t, tty[ent_t[t]])
          /\ UNCHANGED leaked
       \/ /\ FdFree /\ modem = "configured"
          /\ subdir \/ tty[ent_t[t]] = NoName
          /\ Goto(t, "fourth")
          /\ UNCHANGED <<todo, ent_t, s_device_path, leaked, calm>>
    /\ UNCHANGED <<bus, fd, starts>>

\* Third stage: a tty in its tty folder; the interface's stays open
Fourth(t) ==
    /\ Alive /\ pc[t] = "fourth"
    /\ IF ~FdFree \/ ~subdir \/ tty[ent_t[t]] = NoName
       THEN Crash(t)
       ELSE /\ leaked' = leaked + 1
            /\ Found(t, tty[ent_t[t]])
    /\ UNCHANGED <<bus, fd, starts>>

FindUsbDevice(t) == Examine(t) \/ NotFound(t) \/ Second(t) \/ Third(t) \/ Fourth(t)

-----------------------------------------------------------------------------
(* The callers                                                             *)

\* mainLoop: usb_device_name is NULL
Search ==
    /\ pc["main"] \in {"idle", "null"}
    /\ Lookup("main")
    /\ UNCHANGED starts

\* pppd_create_thread
StartPppd ==
    /\ pc["pppd"] = "idle" /\ starts < MaxStarts
    /\ starts' = starts + 1
    /\ Lookup("pppd")

\* open(); until it succeeds it is tried again with the same name
Open(t) ==
    /\ Alive /\ pc[t] = "open" /\ FdFree
    /\ \E i \in Interfaces :
          /\ tty[i] = s_device_path[t] /\ tty[i] # NoName
          /\ fd' = [fd EXCEPT ![t] = i]
    /\ Goto(t, "opened")
    /\ UNCHANGED <<bus, todo, ent_t, s_device_path, leaked, starts, calm>>

\* Variant: usb_device_name is not reset.
ReopenSameName ==
    /\ Alive /\ fd["main"] = "dead"
    /\ fd' = [fd EXCEPT !["main"] = NoName]
    /\ Goto("main", "open")
    /\ UNCHANGED <<bus, todo, ent_t, s_device_path, leaked, starts, calm>>

\* at_close, and mainLoop, woken by it, looks for the device again
Reopen ==
    /\ Alive /\ fd["main"] = "dead"
    /\ fd' = [fd EXCEPT !["main"] = NoName]
    /\ Goto("main", "idle")
    /\ UNCHANGED <<bus, todo, ent_t, s_device_path, leaked, starts, calm>>

\* The pppd thread closes the port and tries the same name again
Redial ==
    /\ Alive /\ fd["pppd"] = "dead"
    /\ fd' = [fd EXCEPT !["pppd"] = NoName]
    /\ Goto("pppd", "open") /\ Disturb("pppd")
    /\ UNCHANGED <<bus, todo, ent_t, s_device_path, leaked, starts>>

\* pppd_quit ends the pppd thread
Quit ==
    /\ Alive /\ pc["pppd"] \in {"open", "opened"}
    /\ fd' = [fd EXCEPT !["pppd"] = NoName]
    /\ Goto("pppd", "idle")
    /\ UNCHANGED <<bus, todo, ent_t, s_device_path, leaked, starts, calm>>

\* init starts rild again
Restart ==
    /\ ~Alive
    /\ pc' = [t \in Threads |-> "idle"] /\ fd' = [t \in Threads |-> NoName]
    /\ todo' = [t \in Threads |-> {}] /\ ent_t' = [t \in Threads |-> NoName]
    /\ s_device_path' = [t \in Threads |-> NoName] /\ leaked' = 0
    /\ UNCHANGED <<bus, starts, calm>>

-----------------------------------------------------------------------------
(* The modem                                                               *)

\* Any change disturbs the lookups that have not opened their name yet.
Changed ==
    /\ calm' = [t \in Threads |-> calm[t] /\ pc[t] \notin Looking \cup {"open"}]
    /\ UNCHANGED <<subdir, scan, s_device_path, leaked, starts>>

Plug ==
    /\ modem = "absent" /\ plugs < MaxPlugs
    /\ modem' = "device" /\ plugs' = plugs + 1
    /\ UNCHANGED <<tty, fd>> /\ Changed

Configure ==
    /\ modem = "device"
    /\ modem' = "configured"
    /\ UNCHANGED <<tty, plugs, fd>> /\ Changed

\* A driver takes a name that is free: not one whose file is still open
Bind ==
    /\ modem = "configured"
    /\ \E i \in Interfaces, n \in Names :
          /\ tty[i] = NoName
          /\ \A j \in Interfaces : tty[j] # n
          /\ \A t \in Threads : fd[t] = "dead" => s_device_path[t] # n
          /\ tty' = [tty EXCEPT ![i] = n]
    /\ UNCHANGED <<modem, plugs, fd>> /\ Changed

Unplug ==
    /\ modem # "absent"
    /\ modem' = "absent" /\ tty' = [i \in Interfaces |-> NoName]
    /\ fd' = [t \in Threads |-> IF fd[t] = NoName THEN NoName ELSE "dead"]
    /\ UNCHANGED plugs /\ Changed

Main == Search \/ FindUsbDevice("main") \/ Open("main") \/ Reopen
Pppd == StartPppd \/ FindUsbDevice("pppd") \/ Open("pppd") \/ Redial \/ Quit
Bus == Plug \/ Configure \/ Bind \/ Unplug

Next == Main \/ Pppd \/ Restart \/ Bus
Spec == Init /\ [][Next]_vars

\* mainLoop goes on, and init restarts a rild that has crashed.
FairSpec == Spec /\ WF_vars(Main) /\ WF_vars(Restart)

-----------------------------------------------------------------------------
(* Properties *)

\* The values of the state; a thread has a file exactly while it is "opened".
TypeOK ==
    /\ modem \in {"absent", "device", "configured"}
    /\ tty \in [Interfaces -> Names \cup {NoName}] /\ subdir \in BOOLEAN
    /\ pc \in [Threads -> Places]
    /\ todo \in [Threads -> SUBSET Devices]
    /\ ent_t \in [Threads -> Devices \cup Interfaces \cup {"garbled", NoName}]
    /\ \A t \in Threads : pc[t] \in {"third", "fourth"} => ent_t[t] \in Interfaces
    /\ s_device_path \in [Threads -> Names \cup {"garbled", "null", NoName}]
    /\ fd \in [Threads -> Interfaces \cup {"dead", NoName}]
    /\ \A t \in Threads : fd[t] # NoName <=> pc[t] = "opened"
    /\ leaked \in Nat /\ plugs \in Nat /\ starts \in Nat
    /\ calm \in [Threads -> BOOLEAN]

\* A lookup that nothing disturbs finds its interface, of the right device, and
\* that is what is opened: it does not fail, and it does not crash in a
\* directory that is not there.
FoundRight ==
    \A t \in Threads : calm[t] =>
        /\ pc[t] \notin {"null", "crashed"}
        /\ pc[t] = "open" => s_device_path[t] = tty[Interface[t]]
        /\ pc[t] = "opened" => fd[t] \in {Interface[t], "dead"}

\* A name that was the AT interface's, or was taken for it, when mainLoop looked
\* and is not any more: it goes on trying it, or has opened another interface.
Misled ==
    /\ pc["main"] \in {"open", "opened"} /\ ~calm["main"]
    /\ s_device_path["main"] # tty["at"]

\* Fewer files than the four that the two threads need are left of those that
\* lookups have not closed.
Exhausted == MaxFds - leaked < 4

\* A modem that stays plugged in is opened, over any number of crashes, unless
\* mainLoop has been misled or the files are exhausted.
Opens ==
    <>[]Bound("main") => []<>(fd["main"] = "at" \/ Misled \/ Exhausted)

-----------------------------------------------------------------------------
\* Inductive, with TypeOK and FoundRight: ttys belong to one interface, of a
\* configured modem, and what a calm lookup has found so far is right.
BusInv ==
    \A i \in Interfaces : tty[i] # NoName =>
        modem = "configured" /\ \A j \in Interfaces : tty[j] = tty[i] => j = i

CalmInv ==
    \A t \in Threads : calm[t] =>
        /\ pc[t] \in Looking \cup {"open"} => Bound(t)
        /\ pc[t] = "first" => "modem" \in todo[t]
        /\ pc[t] = "second" => ent_t[t] = "modem"
        /\ pc[t] \in {"third", "fourth"} => ent_t[t] = Interface[t]
        /\ pc[t] = "fourth" => subdir
=============================================================================
