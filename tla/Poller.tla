--------------------------------- MODULE Poller --------------------------------
(***************************************************************************)
(* The table of file descriptors of the main loop and the polling methods  *)
(* under it (re/src/main/main.c): select() is given its sets anew before   *)
(* every call, poll() has an array and epoll a set in the kernel that      *)
(* fd_listen() keeps up to date - for the method in use only.  The method  *)
(* may be changed while the loop runs.                                     *)
(***************************************************************************)
EXTENDS Integers, FiniteSets

CONSTANTS
    Fd,          \* file descriptors
    Flags,       \* sets of events a handler may want, all non-empty
    MaxChanges   \* bound on changes of the method

VARIABLES
    open,      \* descriptors that are open
    fhs,       \* re->fhs: the events the handler of a descriptor wants, {} none
    nfds,      \* re->nfds: descriptors that were ever listened on
    method,    \* re->method: "null", "poll", "select", "epoll"
    fds,       \* re->fds: allocated, and the events polled by descriptor
    epoll,     \* re->epfd: open, and the kernel's set
    changes    \* number of changes of the method

vars == <<open, fhs, nfds, method, fds, epoll, changes>>

NoEvents == [fd \in Fd |-> {}]
NoFds == [have |-> FALSE, ev |-> NoEvents]

Init ==
    /\ open = {} /\ fhs = NoEvents /\ nfds = {} /\ method = "null"
    /\ fds = NoFds /\ epoll = NoFds
    /\ changes = 0

(* set_poll_fds(), set_epoll_fds(): the events of one descriptor *)
Set(table, fd, ev) ==
    IF table.have THEN [table EXCEPT !.ev[fd] = ev] ELSE table

(* poll_init(): the array, or the epoll descriptor *)
Made(table) == [table EXCEPT !.have = TRUE]

(* rebuild_fds(): every descriptor with a handler, and only those *)
Rebuilt(table) ==
    [table EXCEPT !.ev = [fd \in Fd |-> IF fd \in nfds /\ fhs[fd] # {} THEN fhs[fd] ELSE @[fd]]]

(* poll_close(), fd_setsize(0): all handlers go; nfds and the method stay *)
Closes == fhs' = NoEvents /\ fds' = NoFds /\ epoll' = NoFds

(* poll_method_set() with poll_init() and rebuild_fds() *)
Method(m) ==
    /\ method' = m
    /\ fds' = IF m = "poll" THEN Rebuilt(Made(fds)) ELSE fds
    /\ epoll' = IF m = "epoll" THEN Rebuilt(Made(epoll)) ELSE epoll

(* poll_method_best() *)
Best == {"epoll", "poll"}

(* a descriptor is opened by the program; numbers are used again *)
Open(fd) ==
    /\ fd \notin open /\ open' = open \cup {fd}
    /\ UNCHANGED <<fhs, nfds, method, fds, epoll, changes>>

(* poll_setup() the first time: the method is chosen *)
Setup ==
    /\ method = "null"
    /\ \E m \in Best : Method(m)
    /\ UNCHANGED <<open, fhs, nfds, changes>>

(* poll_setup() that runs out of memory: poll_close() drops the handlers of
   all other descriptors with it *)
SetupFails ==
    /\ \/ method = "poll" /\ ~fds.have
       \/ method = "epoll" /\ ~epoll.have
    /\ Closes
    /\ UNCHANGED <<open, nfds, method, changes>>

(* fd_listen() *)
Listen(fd, ev) ==
    /\ fd \in open /\ method # "null"
    /\ fhs' = [fhs EXCEPT ![fd] = ev] /\ nfds' = nfds \cup {fd}
    /\ fds' = IF method = "poll" THEN Set(Made(fds), fd, ev) ELSE fds
    /\ epoll' = IF method = "epoll" THEN Set(Made(epoll), fd, ev) ELSE epoll
    /\ UNCHANGED <<open, method, changes>>

(* fd_close(), and the descriptor is closed, which takes it out of the
   kernel's set *)
Close(fd) ==
    /\ fd \in open /\ open' = open \ {fd}
    /\ fhs' = [fhs EXCEPT ![fd] = {}]
    /\ fds' = IF method = "poll" THEN Set(fds, fd, {}) ELSE fds
    /\ epoll' = Set(epoll, fd, {})
    /\ UNCHANGED <<nfds, method, changes>>

(* fd_close() of a descriptor that stays open: set_epoll_fds() or
   set_poll_fds() without events *)
Ignore(fd) ==
    /\ fd \in open /\ fhs[fd] # {}
    /\ fhs' = [fhs EXCEPT ![fd] = {}]
    /\ fds' = IF method = "poll" THEN Set(fds, fd, {}) ELSE fds
    /\ epoll' = IF method = "epoll" THEN Set(epoll, fd, {}) ELSE epoll
    /\ UNCHANGED <<open, nfds, method, changes>>

(* poll_method_set() by the program *)
Change ==
    /\ method # "null" /\ changes < MaxChanges /\ changes' = changes + 1
    /\ \E m \in {"poll", "select", "epoll"} \ {method} : Method(m)
    /\ UNCHANGED <<open, fhs, nfds>>

(* re_thread_init() for a thread of its own: an empty loop *)
ThreadInit ==
    /\ fhs' = NoEvents /\ nfds' = {} /\ method' = "null"
    /\ fds' = NoFds /\ epoll' = NoFds /\ changes' = 0
    /\ open = {} /\ UNCHANGED open

(* libre_close(): fd_setsize(0) *)
LibreClose ==
    /\ method # "null" /\ Closes
    /\ UNCHANGED <<open, nfds, method, changes>>

Next ==
    \/ Setup \/ SetupFails \/ Change \/ ThreadInit \/ LibreClose
    \/ \E fd \in Fd : Open(fd) \/ Close(fd) \/ Ignore(fd)
    \/ \E fd \in Fd, ev \in Flags : Listen(fd, ev)

Spec == Init /\ [][Next]_vars

TypeOK ==
    /\ method \in {"null", "poll", "select", "epoll"}
    /\ fhs \in [Fd -> Flags \cup {{}}] /\ nfds \subseteq Fd /\ changes \in 0..MaxChanges

(* what fd_poll() waits for on a descriptor *)
Polled(fd) ==
    CASE method = "poll" -> IF fd \in nfds THEN fds.ev[fd] ELSE {}
      [] method = "epoll" -> epoll.ev[fd]
      [] method = "select" -> IF fd \in nfds THEN fhs[fd] ELSE {}
      [] OTHER -> {}

(* Every handler that was set is waited for with the events it wants, whatever
   the method and however often it was changed; as long as it was changed
   once at most, nothing else is waited for either, so an event always has
   a handler. *)
HandlersPolled ==
    /\ \A fd \in Fd : fhs[fd] # {} => Polled(fd) = fhs[fd]
    /\ changes <= 1 => \A fd \in Fd : Polled(fd) # {} => fhs[fd] # {}
===============================================================================
