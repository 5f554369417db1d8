------------------------------ MODULE Programs ------------------------------
(***************************************************************************)
(* The life of the programs of a Module in user space (redbpf/src/lib.rs): *)
(* Program::load, the attach and detach methods of the program kinds, and  *)
(* their Drop implementations, against the file descriptor table of the    *)
(* process and the attachments the kernel holds.                           *)
(*                                                                         *)
(* A perf event or a link is an object of the kernel that lives as long as *)
(* its descriptor, and detaches its program when it is closed.  An XDP     *)
(* program sits in a slot of the interface, and a stream parser or verdict *)
(* program in a slot of the sockmap, without any descriptor.  Descriptor   *)
(* numbers are reused, lowest first, and may run out.  Every system call   *)
(* may fail.                                                               *)
(***************************************************************************)
EXTENDS Integers, FiniteSets, FiniteSetsExt

CONSTANTS
  None,
  Progs,        \* the programs that occur
  Modules,      \* the modules: sets of programs
  Kind,         \* their kinds: a function on Progs
  Points,       \* what a kprobe, uprobe or tracepoint can be attached to
  Ifaces,       \* names of network interfaces
  NativeIfaces, \* those whose driver supports XDP
  FlagSet,      \* the xdp::Flags the caller uses
  MaxFds,       \* RLIMIT_NOFILE
  MaxOther,     \* bound: descriptors other code has open at a time
  MaxXdpAttach  \* bound: recorded attachments per program and interface

Kinds == {"kprobe", "uprobe", "tracepoint", "xdp", "socketfilter",
          "streamparser", "streamverdict", "task_iter", "sk_lookup"}
Flags == {"Unset", "UpdateIfNoExist", "SkbMode", "DrvMode", "HwMode", "Modes", "Mask"}
Modes == {"skb", "drv"}
Fds   == 1 .. MaxFds
NoFd  == 0

ASSUME ProgramsAssumption ==
  /\ None \notin Progs \cup Points \cup Ifaces
  /\ Modules \subseteq SUBSET Progs
  /\ Kind \in [Progs -> Kinds]
  /\ NativeIfaces \subseteq Ifaces
  /\ FlagSet \subseteq Flags
  /\ MaxFds \in Nat /\ MaxOther \in Nat /\ MaxXdpAttach \in Nat

VARIABLES
  \* kernel
  fdt,      \* the descriptor table: what each number refers to
  xdp,      \* the program in the slot of an interface and mode
  sockmap,  \* the parser and the verdict program of the sockmap
  up,       \* the interfaces that exist
  \* the Module
  alive,    \* the programs not dropped yet
  fd,       \* ProgramData::fd
  points,   \* attachment_points of a KProbe or UProbe
  ifaces,   \* XDP::interfaces: how often each name is in the vector
  link,     \* SkLookup::link or TaskIter::link_fd: [ns, lfd]
  \* the caller
  user,     \* descriptors handed to the caller
  ret       \* the last call and its result

vars == <<fdt, xdp, sockmap, up, alive, fd, points, ifaces, link, user, ret>>

File(type, prog, at, on) == [type |-> type, prog |-> prog, at |-> at, on |-> on]
Free   == File("free", None, None, FALSE)
NoLink == [ns |-> NoFd, lfd |-> NoFd]

Init ==
  /\ fdt = [f \in Fds |-> Free]
  /\ xdp = [s \in Ifaces \X Modes |-> None]
  /\ sockmap = [k \in {"streamparser", "streamverdict"} |-> None]
  /\ up = Ifaces
  /\ alive \in Modules
  /\ fd = [p \in Progs |-> NoFd]
  /\ points = [p \in Progs |-> {}]
  /\ ifaces = [p \in Progs |-> [i \in Ifaces |-> 0]]
  /\ link = [p \in Progs |-> NoLink]
  /\ user = {}
  /\ ret = [op |-> "none", prog |-> None, at |-> None, res |-> "Ok"]

-----------------------------------------------------------------------------
(* Descriptors (external).                                                 *)

Unused(t)     == {f \in Fds : t[f] = Free}
Lowest(t)     == Min(Unused(t))
Opened(t, o)  == [t EXCEPT ![Lowest(t)] = o]
Closed(t, F)  == [f \in Fds |-> IF f \in F THEN Free ELSE t[f]]

Returns(op, p, at, res) == ret' = [op |-> op, prog |-> p, at |-> at, res |-> res]

\* Other code of the process opens and closes its own descriptors, and the
\* caller closes those it was given.
OtherOpen ==
  /\ Unused(fdt) # {}
  /\ Cardinality({f \in Fds : fdt[f].type = "other"}) < MaxOther
  /\ fdt' = Opened(fdt, File("other", None, None, FALSE))
  /\ Returns("other", None, None, "Ok")
  /\ UNCHANGED <<xdp, sockmap, up, alive, fd, points, ifaces, link, user>>

OtherClose ==
  /\ \E f \in Fds : fdt[f].type = "other" /\ fdt' = Closed(fdt, {f})
  /\ Returns("other", None, None, "Ok")
  /\ UNCHANGED <<xdp, sockmap, up, alive, fd, points, ifaces, link, user>>

UserClose ==
  /\ \E f \in user : fdt' = Closed(fdt, {f}) /\ user' = user \ {f}
  /\ Returns("other", None, None, "Ok")
  /\ UNCHANGED <<xdp, sockmap, up, alive, fd, points, ifaces, link>>

\* An interface disappears with what is attached to it, or appears again;
\* nobody but XDP programs looks at it.
IfaceChange ==
  /\ \E p \in alive : Kind[p] = "xdp"
  /\ \E i \in Ifaces :
       IF i \in up
       THEN up' = up \ {i} /\ xdp' = [s \in DOMAIN xdp |-> IF s[1] = i THEN None ELSE xdp[s]]
       ELSE up' = up \cup {i} /\ UNCHANGED xdp
  /\ Returns("other", None, None, "Ok")
  /\ UNCHANGED <<fdt, sockmap, alive, fd, points, ifaces, link, user>>

-----------------------------------------------------------------------------
(* Program::load                                                           *)

\* ProgramLoad models what happens between the call and its result.
Load(p) ==
  /\ p \in alive
  /\ \/ /\ fd[p] # NoFd
        /\ Returns("load", p, None, "ProgramAlreadyLoaded")
        /\ UNCHANGED <<fdt, fd>>
     \/ /\ fd[p] = NoFd
        /\ Unused(fdt) # {}
        /\ fd' = [fd EXCEPT ![p] = Lowest(fdt)]
        /\ fdt' = Opened(fdt, File("prog", p, None, FALSE))
        /\ Returns("load", p, None, "Ok")
     \/ /\ fd[p] = NoFd
        /\ Returns("load", p, None, "Err")
        /\ UNCHANGED <<fdt, fd>>
  /\ UNCHANGED <<xdp, sockmap, up, alive, points, ifaces, link, user>>

-----------------------------------------------------------------------------
(* KProbe, UProbe and TracePoint: perf events.                             *)

\* attach_perf_event on a fresh event: setting the program may fail, then
\* enabling the event may fail.  What the event looks like afterwards.
AttachOutcomes(p, at) ==
  { [res |-> "Err", file |-> File("perf", None, at, FALSE)],
    [res |-> "Err", file |-> File("perf", p, at, FALSE)],
    [res |-> "Ok",  file |-> File("perf", p, at, TRUE)] }

\* ProgramNotLoaded; or the symbol of a uprobe is not found, or the event
\* cannot be opened, or a file of sysfs or tracefs cannot be read (a panic).
AttachEarlyError(op, p, at) ==
  /\ \E res \in IF fd[p] = NoFd THEN {"ProgramNotLoaded"} ELSE {"Err", "Panic"} :
       Returns(op, p, at, res)
  /\ UNCHANGED <<fdt, points>>

\* attach_kprobe and attach_uprobe: the event is closed again when attaching
\* fails.
AttachProbe(p, at) ==
  /\ p \in alive /\ Kind[p] \in {"kprobe", "uprobe"}
  /\ \/ AttachEarlyError("attach", p, at)
     \/ /\ fd[p] # NoFd
        /\ Unused(fdt) # {}
        /\ \E out \in AttachOutcomes(p, at) :
             LET pfd == Lowest(fdt)
                 t   == Opened(fdt, out.file)
             IN  /\ Returns("attach", p, at, out.res)
                 /\ IF out.res = "Ok"
                    THEN /\ fdt' = t
                         /\ points' = [points EXCEPT ![p] = @ \cup {[at |-> at, pfd |-> pfd]}]
                    ELSE /\ fdt' = Closed(t, {pfd})
                         /\ UNCHANGED points
  /\ UNCHANGED <<xdp, sockmap, up, alive, fd, ifaces, link, user>>

\* detach_kprobe and detach_uprobe: retain drops every matching attachment
\* point, which disables and closes its event.
DetachProbe(p, at) ==
  /\ p \in alive /\ Kind[p] \in {"kprobe", "uprobe"}
  /\ LET gone == {a \in points[p] : a.at = at}
     IN  /\ points' = [points EXCEPT ![p] = @ \ gone]
         /\ fdt' = Closed(fdt, {a.pfd : a \in gone})
  /\ Returns("detach", p, at, "Ok")
  /\ UNCHANGED <<xdp, sockmap, up, alive, fd, ifaces, link, user>>

\* attach_trace_point: nobody keeps the descriptor of the event.
AttachTracePoint(p, at) ==
  /\ p \in alive /\ Kind[p] = "tracepoint"
  /\ \/ AttachEarlyError("attach", p, at)
     \/ /\ fd[p] # NoFd
        /\ Unused(fdt) # {}
        /\ \E out \in AttachOutcomes(p, at) :
             /\ fdt' = Opened(fdt, out.file)
             /\ Returns("attach", p, at, out.res)
        /\ UNCHANGED points
  /\ UNCHANGED <<xdp, sockmap, up, alive, fd, ifaces, link, user>>

-----------------------------------------------------------------------------
(* XDP                                                                     *)

\* The slot the kernel (external) picks for the flags of a request.
ModesOf(flags, i) ==
  CASE flags = "SkbMode" -> {"skb"}
    [] flags = "DrvMode" -> {"drv"} \cap (IF i \in NativeIfaces THEN Modes ELSE {})
    [] flags \in {"Unset", "UpdateIfNoExist"} -> IF i \in NativeIfaces THEN {"drv"} ELSE {"skb"}
    [] OTHER -> {}

\* Whether the kernel (external) accepts program p in the slot: generic and
\* native XDP exclude each other.
SlotAccepts(flags, i, m) ==
  /\ i \in up
  /\ flags = "UpdateIfNoExist" => xdp[<<i, m>>] = None
  /\ \A n \in Modes \ {m} : xdp[<<i, n>>] = None

\* The name is recorded before the kernel is asked.
AttachXdp(p, i, flags) ==
  /\ p \in alive /\ Kind[p] = "xdp"
  /\ \/ /\ fd[p] = NoFd
        /\ Returns("attach_xdp", p, i, "ProgramNotLoaded")
        /\ UNCHANGED <<ifaces, xdp>>
     \/ /\ fd[p] # NoFd
        /\ ifaces[p][i] < MaxXdpAttach
        /\ ifaces' = [ifaces EXCEPT ![p][i] = @ + 1]
        /\ \/ /\ \E m \in ModesOf(flags, i) :
                   SlotAccepts(flags, i, m) /\ xdp' = [xdp EXCEPT ![<<i, m>>] = p]
              /\ Returns("attach_xdp", p, i, "Ok")
           \/ /\ Returns("attach_xdp", p, i, "Err")
              /\ UNCHANGED xdp
  /\ UNCHANGED <<fdt, sockmap, up, alive, fd, points, link, user>>

\* bpf_set_link_xdp_fd(ifindex, -1, 0) on the interfaces of a set: it empties
\* the slot of the default mode, and fails only for a missing interface.
Detached(I) ==
  [s \in DOMAIN xdp |->
     IF s[1] \in I \cap up /\ s[2] \in ModesOf("Unset", s[1]) THEN None ELSE xdp[s]]

\* Mutant of DetachXdp: the kernel is not asked while the name is recorded more than once.
DetachXdpLazy(p, i) ==
  /\ p \in alive /\ Kind[p] = "xdp"
  /\ \/ /\ ifaces[p][i] = 0
        /\ Returns("detach_xdp", p, i, "ProgramNotLoaded")
        /\ UNCHANGED <<ifaces, xdp>>
     \/ /\ ifaces[p][i] > 0 /\ i \in up
        /\ xdp' = IF ifaces[p][i] = 1 THEN Detached({i}) ELSE xdp
        /\ ifaces' = [ifaces EXCEPT ![p][i] = @ - 1]
        /\ Returns("detach_xdp", p, i, "Ok")
     \/ /\ ifaces[p][i] > 0
        /\ Returns("detach_xdp", p, i, "Err")
        /\ UNCHANGED <<ifaces, xdp>>
  /\ UNCHANGED <<fdt, sockmap, up, alive, fd, points, link, user>>

DetachXdp(p, i) ==
  /\ p \in alive /\ Kind[p] = "xdp"
  /\ \/ /\ ifaces[p][i] = 0
        /\ Returns("detach_xdp", p, i, "ProgramNotLoaded")
        /\ UNCHANGED <<ifaces, xdp>>
     \/ /\ ifaces[p][i] > 0 /\ i \in up
        /\ xdp' = Detached({i})
        /\ ifaces' = [ifaces EXCEPT ![p][i] = @ - 1]
        /\ Returns("detach_xdp", p, i, "Ok")
     \/ /\ ifaces[p][i] > 0
        /\ Returns("detach_xdp", p, i, "Err")
        /\ UNCHANGED <<ifaces, xdp>>
  /\ UNCHANGED <<fdt, sockmap, up, alive, fd, points, link, user>>

-----------------------------------------------------------------------------
(* SocketFilter, SkLookup, TaskIter, StreamParser and StreamVerdict        *)

\* The raw socket is closed unless the program could be attached to it; then
\* the caller owns it.
AttachSocketFilter(p) ==
  /\ p \in alive /\ Kind[p] = "socketfilter"
  /\ \/ /\ \E res \in IF fd[p] = NoFd THEN {"ProgramNotLoaded"} ELSE {"Err"} :
             Returns("attach", p, None, res)
        /\ UNCHANGED <<fdt, user>>
     \/ /\ fd[p] # NoFd
        /\ Unused(fdt) # {}
        /\ LET sfd == Lowest(fdt)
               t   == Opened(fdt, File("sock", p, None, TRUE))
           IN  \/ /\ fdt' = t /\ user' = user \cup {sfd}
                  /\ Returns("attach", p, None, "Ok")
               \/ /\ fdt' = Closed(t, {sfd}) /\ UNCHANGED user
                  /\ Returns("attach", p, None, "Err")
  /\ UNCHANGED <<xdp, sockmap, up, alive, fd, points, ifaces, link>>

\* Mutant of AttachSkLookup: the namespace stays open when the link fails.
AttachSkLookupLeaky(p) ==
  /\ p \in alive /\ Kind[p] = "sk_lookup"
  /\ \/ /\ \E res \in IF link[p] # NoLink THEN {"ProgramAlreadyLinked"}
                      ELSE IF fd[p] = NoFd THEN {"ProgramNotLoaded"} ELSE {"Err"} :
             Returns("attach", p, None, res)
        /\ UNCHANGED <<fdt, link>>
     \/ /\ link[p] = NoLink /\ fd[p] # NoFd
        /\ Unused(fdt) # {}
        /\ LET nfd == Lowest(fdt)
               t   == Opened(fdt, File("ns", None, None, FALSE))
           IN  \/ /\ Unused(t) # {}
                  /\ fdt' = Opened(t, File("link", p, None, TRUE))
                  /\ link' = [link EXCEPT ![p] = [ns |-> nfd, lfd |-> Lowest(t)]]
                  /\ Returns("attach", p, None, "Ok")
               \/ /\ fdt' = t
                  /\ Returns("attach", p, None, "Err")
                  /\ UNCHANGED link
  /\ UNCHANGED <<xdp, sockmap, up, alive, fd, points, ifaces, user>>

AttachSkLookup(p) ==
  /\ p \in alive /\ Kind[p] = "sk_lookup"
  /\ \/ /\ \E res \in IF link[p] # NoLink THEN {"ProgramAlreadyLinked"}
                      ELSE IF fd[p] = NoFd THEN {"ProgramNotLoaded"} ELSE {"Err"} :
             Returns("attach", p, None, res)
        /\ UNCHANGED <<fdt, link>>
     \/ /\ link[p] = NoLink /\ fd[p] # NoFd
        /\ Unused(fdt) # {}
        /\ LET nfd == Lowest(fdt)
               t   == Opened(fdt, File("ns", None, None, FALSE))
           IN  \/ /\ Unused(t) # {}
                  /\ fdt' = Opened(t, File("link", p, None, TRUE))
                  /\ link' = [link EXCEPT ![p] = [ns |-> nfd, lfd |-> Lowest(t)]]
                  /\ Returns("attach", p, None, "Ok")
               \/ /\ fdt' = Closed(t, {nfd})
                  /\ Returns("attach", p, None, "Err")
                  /\ UNCHANGED link
  /\ UNCHANGED <<xdp, sockmap, up, alive, fd, points, ifaces, user>>

\* TaskIter::bpf_iter: the link is created once and kept; each call opens an
\* iterator on it, which the caller owns.
BpfIter(p) ==
  /\ p \in alive /\ Kind[p] = "task_iter"
  /\ \/ /\ \E res \in IF fd[p] = NoFd THEN {"ProgramNotLoaded"} ELSE {"Err"} :
             Returns("bpf_iter", p, None, res)
        /\ UNCHANGED <<fdt, link, user>>
     \/ /\ fd[p] # NoFd
        /\ link[p] = NoLink => Unused(fdt) # {}
        /\ LET fresh == link[p] = NoLink
               lfd   == IF fresh THEN Lowest(fdt) ELSE link[p].lfd
               t     == IF fresh THEN Opened(fdt, File("link", p, None, TRUE)) ELSE fdt
           IN  /\ link' = [link EXCEPT ![p].lfd = lfd]
               /\ \/ /\ Unused(t) # {}
                     /\ fdt' = Opened(t, File("iter", None, None, FALSE))
                     /\ user' = user \cup {Lowest(t)}
                     /\ Returns("bpf_iter", p, None, "Ok")
                  \/ /\ fdt' = t
                     /\ Returns("bpf_iter", p, None, "Err")
                     /\ UNCHANGED user
  /\ UNCHANGED <<xdp, sockmap, up, alive, fd, points, ifaces>>

\* A program that is not loaded panics in unwrap().
AttachSockmap(p) ==
  /\ p \in alive /\ Kind[p] \in DOMAIN sockmap
  /\ \/ /\ Returns("attach", p, None, IF fd[p] = NoFd THEN "Panic" ELSE "Err")
        /\ UNCHANGED sockmap
     \/ /\ fd[p] # NoFd
        /\ sockmap' = [sockmap EXCEPT ![Kind[p]] = p]
        /\ Returns("attach", p, None, "Ok")
  /\ UNCHANGED <<fdt, xdp, up, alive, fd, points, ifaces, link, user>>

-----------------------------------------------------------------------------
(* Drop                                                                    *)

\* Drop of SkLookup and TaskIter closes the descriptors of the link.
LinkFds(p) == {link[p].ns, link[p].lfd} \ {NoFd}

\* Drop of KProbeAttachmentPoint and UProbeAttachmentPoint closes the event.
PointFds(p) == {a.pfd : a \in points[p]}

\* The descriptors of a program and of its fields.
OwnedFds(p) == ({fd[p]} \ {NoFd}) \cup LinkFds(p) \cup PointFds(p)

\* Drop of XDP detaches every interface in the vector.
DropXdp(p) == Detached({i \in Ifaces : ifaces[p][i] > 0})

Drop(p) ==
  /\ p \in alive
  /\ alive' = alive \ {p}
  /\ fdt' = Closed(fdt, OwnedFds(p))
  /\ xdp' = DropXdp(p)
  /\ fd' = [fd EXCEPT ![p] = NoFd]
  /\ points' = [points EXCEPT ![p] = {}]
  /\ ifaces' = [ifaces EXCEPT ![p] = [i \in Ifaces |-> 0]]
  /\ link' = [link EXCEPT ![p] = NoLink]
  /\ Returns("drop", p, None, "Ok")
  /\ UNCHANGED <<sockmap, up, user>>

Next ==
  \/ OtherOpen \/ OtherClose \/ UserClose \/ IfaceChange
  \/ \E p \in Progs :
       \/ Load(p) \/ Drop(p)
       \/ \E at \in Points :
            AttachProbe(p, at) \/ DetachProbe(p, at) \/ AttachTracePoint(p, at)
       \/ \E i \in Ifaces, flags \in FlagSet : AttachXdp(p, i, flags)
       \/ \E i \in Ifaces : DetachXdp(p, i)
       \/ AttachSocketFilter(p) \/ AttachSkLookup(p) \/ BpfIter(p) \/ AttachSockmap(p)

Spec == Init /\ [][Next]_vars

-----------------------------------------------------------------------------
(* Properties.                                                             *)

\* Every descriptor a program records is open and still is the one it opened,
\* and no two owners record the same number: no Drop closes a descriptor
\* twice, or one that was reused for something else in the meantime.  On every
\* path, failures included, a descriptor that redbpf opened is owned by a
\* program that will close it, or by the caller.  The exception is the perf
\* event of attach_trace_point, which nobody records.
OwnedFdsRight ==
  /\ \A p \in Progs :
       /\ fd[p] # NoFd => fdt[fd[p]] = File("prog", p, None, FALSE)
       /\ \A a \in points[p] : fdt[a.pfd] = File("perf", p, a.at, TRUE)
       /\ link[p].lfd # NoFd => fdt[link[p].lfd] = File("link", p, None, TRUE)
       /\ link[p].ns # NoFd => fdt[link[p].ns].type = "ns"
       /\ OwnedFds(p) \cap user = {}
       /\ \A q \in Progs \ {p} : OwnedFds(p) \cap OwnedFds(q) = {}
  /\ \A f \in user : fdt[f].type \in {"sock", "iter"}
  /\ \A f \in Fds :
       \/ fdt[f].type \in {"free", "other"}
       \/ f \in user \cup UNION {OwnedFds(p) : p \in alive}
       \/ /\ fdt[f].type = "perf"
          /\ \E p \in Progs : Kind[p] = "tracepoint" /\ fdt[f].prog \in {p, None}

\* lib.rs:1004: "Detach the XDP program from the given network interface, if
\* attached."  After Ok the program is not attached to the interface.
XdpDetachComplete ==
  (ret.op = "detach_xdp" /\ ret.res = "Ok") =>
    \A m \in Modes : xdp[<<ret.at, m>>] # ret.prog

\* lib.rs, on detach_kprobe: "detaching a bpf program from kprobe event
\* selectively".  After it, and after detach_uprobe, no event at that point
\* runs the program, however often it was attached there.  As long as programs
\* are attached in the default mode, detach_xdp takes the program out, and every
\* program in an interface's slot is alive and has recorded the interface, so
\* that its Drop will take it out.
DetachComplete ==
  /\ ret.op = "detach" =>
       \A f \in Fds : fdt[f].type = "perf" => fdt[f].prog # ret.prog \/ fdt[f].at # ret.at
  /\ XdpDetachComplete
  /\ \A s \in Ifaces \X Modes :
       xdp[s] # None => xdp[s] \in alive /\ ifaces[xdp[s]][s[1]] > 0
=============================================================================
