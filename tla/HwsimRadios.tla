---------------------------- MODULE HwsimRadios ----------------------------
(***************************************************************************)
(* How the simulated radios come and go (mac80211_hwsim.c): the module     *)
(* makes some when it is loaded and deletes what is left when it is        *)
(* unloaded; programs make, delete and list them by netlink and register   *)
(* as their medium; the end of a program or of a network namespace deletes *)
(* some.  Netlink serves one request at a time, but everything else runs   *)
(* beside it, and a radio is deleted outside of the lock of the list.      *)
(***************************************************************************)
EXTENDS Naturals, Sequences, FiniteSets, SequencesExt

CONSTANTS Nets, init_net,        \* network namespaces, and the first one
          Clients, NetOf(_),     \* the sockets of programs, by their portid, and where they are
          None,
          radios, channels,      \* parameters of the module: radios to make, their channels
          Listers,               \* the programs that list radios
          Channels,              \* how many channels a request may ask for
          MaxRadios              \* bound: radios made

ASSUME HwsimRadiosAssumption ==
  /\ init_net \in Nets /\ \A c \in Clients : NetOf(c) \in Nets
  /\ None \notin Clients /\ Listers \subseteq Clients
  /\ {radios, MaxRadios} \subseteq Nat /\ radios <= MaxRadios
  /\ Channels \cup {channels} \subseteq Nat \ {0}

VARIABLES radio,         \* all radios so far, in the order of their numbers
          hwsim_radios,  \* the list
          wmediumd,      \* the program registered for each netgroup
          module,        \* the thread that loads or unloads the module
          request,       \* the netlink request being served
          walk,          \* hwsim_exit_net
          works,         \* the radios whose destroy_work is queued or running
          socket,        \* per program: its socket is open; where the notifier is
          dump,          \* per program: a listing of the radios
          mixed          \* registrations a notifier came in between of (history)

vars == <<radio, hwsim_radios, wmediumd, module, request, walk, works, socket, dump, mixed>>

Ids  == DOMAIN radio
Idle == [op |-> "none", by |-> None, id |-> 0]
Away == [pc |-> "none", net |-> init_net, data |-> 0, tmp |-> 0]
NoDump == [runs |-> FALSE, cursor |-> 1, got |-> <<>>, since |-> {}, missed |-> {}]

TypeOK ==
  /\ radio \in Seq([at: {"made", "listed", "removing", "gone"}, netgroup: Nets,
                    channels: Channels \cup {channels, 1}, by: Clients \cup {None},
                    destroy_on_close: BOOLEAN, wmediumd: Clients \cup {None},
                    behind: BOOLEAN])
  /\ hwsim_radios \in Seq(Ids)
  /\ wmediumd \in [Nets -> Clients \cup {None}]
  /\ module \in [pc: {"netlink", "init", "loaded", "failing", "failed", "exiting", "pernet", "gone"},
                 id: Nat, todo: SUBSET Nets]
  /\ request \in [op: {"none", "new", "del", "register", "registered"},
                  by: Clients \cup {None}, id: Nat]
  /\ walk \in [pc: {"none", "delete", "resume", "astray"}, net: Nets, data: Nat, tmp: Nat]
  /\ works \subseteq Ids
  /\ socket \in [Clients -> [open: BOOLEAN, notifier: BOOLEAN]]
  /\ dump \in [Listers -> [runs: BOOLEAN, cursor: Nat, got: Seq(Nat), since: SUBSET Ids,
                           missed: SUBSET Ids]]
  /\ mixed \subseteq Nets

(* hwsim_init_netlink has returned, hwsim_class does not exist yet.        *)
Init ==
  /\ radio = <<>> /\ hwsim_radios = <<>>
  /\ wmediumd = [n \in Nets |-> None]
  /\ module = [pc |-> "netlink", id |-> 0, todo |-> {}]
  /\ request = Idle /\ walk = Away /\ works = {}
  /\ socket = [c \in Clients |-> [open |-> TRUE, notifier |-> FALSE]]
  /\ dump = [c \in Listers |-> NoDump]
  /\ mixed = {}

----------------------------------------------------------------------------
Before(q, r) == \E m \in DOMAIN hwsim_radios : \E k \in 1..(m - 1) :
                  hwsim_radios[k] = q /\ hwsim_radios[m] = r

(* Taking radios off the list, which those that are listing them notice.   *)
(* The others stay in their order.                                         *)
Unlisted(ids) ==
  /\ LET others == ToSet(hwsim_radios) \ ids
     IN  \E list \in SeqOf(others, Len(hwsim_radios)) :
           /\ ToSet(list) = others
           /\ \A i, j \in DOMAIN list : i < j => Before(list[i], list[j])
           /\ hwsim_radios' = list
  /\ radio' = [r \in Ids |-> IF r \in ids THEN [radio[r] EXCEPT !.at = "removing"] ELSE radio[r]]
  /\ dump'  = [c \in Listers |-> [dump[c] EXCEPT !.since = @ \ ids]]

(* mac80211_hwsim_del_radio.  What is freed is as good as cleared.         *)
Freed(rec) == [rec EXCEPT !.at = "gone", !.wmediumd = None, !.behind = FALSE,
                          !.destroy_on_close = FALSE, !.channels = 1]

del_radio(r) == radio' = [radio EXCEPT ![r] = Freed(@)]

(* mac80211_hwsim_new_radio: it takes a number, makes the radio and only   *)
(* then puts it on the list.                                               *)
NewRadio(n, c, chans, close) ==
  /\ Len(radio) < MaxRadios
  /\ radio' = Append(radio, [at |-> "made", netgroup |-> n, channels |-> chans, by |-> c,
                             destroy_on_close |-> close, wmediumd |-> None,
                             behind |-> FALSE])

Listed(r) ==
  /\ radio' = [radio EXCEPT ![r].at = "listed",
                            ![r].behind = \E q \in ToSet(hwsim_radios) : q > r]
  /\ hwsim_radios' = Append(hwsim_radios, r)

----------------------------------------------------------------------------
(* The module.                                                             *)
ClassCreated ==
  /\ module.pc = "netlink"
  /\ module' = [module EXCEPT !.pc = "init"]
  /\ UNCHANGED <<radio, hwsim_radios, wmediumd, request, walk, works, socket, dump, mixed>>

OfInit == {r \in Ids : radio[r].by = None}

InitMakes ==
  /\ module.pc = "init" /\ module.id = 0 /\ Cardinality(OfInit) < radios
  /\ NewRadio(init_net, None, channels, FALSE)
  /\ module' = [module EXCEPT !.id = Len(radio) + 1]
  /\ UNCHANGED <<hwsim_radios, wmediumd, request, walk, works, socket, dump, mixed>>

InitLists ==
  /\ module.pc = "init" /\ module.id # 0
  /\ Listed(module.id)
  /\ module' = [module EXCEPT !.id = 0]
  /\ UNCHANGED <<wmediumd, request, walk, works, socket, dump, mixed>>

Loaded ==
  /\ module.pc = "init" /\ module.id = 0 /\ Cardinality(OfInit) = radios
  /\ module' = [module EXCEPT !.pc = "loaded"]
  /\ UNCHANGED <<radio, hwsim_radios, wmediumd, request, walk, works, socket, dump, mixed>>

(* No class, or no radio, or no monitor interface: what exists is freed.   *)
InitFails ==
  /\ \/ /\ module.pc = "netlink"
        /\ module' = [module EXCEPT !.pc = "failed"]
        /\ UNCHANGED radio
     \/ /\ module.pc = "init"
        /\ module' = [module EXCEPT !.pc = "failing", !.id = 0]
        /\ radio' = [r \in Ids |-> IF r = module.id THEN Freed(radio[r]) ELSE radio[r]]
  /\ UNCHANGED <<hwsim_radios, wmediumd, request, walk, works, socket, dump, mixed>>

(* hwsim_exit_netlink waits for notifier and request that are under way;   *)
(* unloading begins with it, a failed load ends with it.                   *)
exit_netlink ==
  /\ module.pc \in {"loaded", "failed"}
  /\ request = Idle /\ \A c \in Clients : ~socket[c].notifier
  /\ module' = IF module.pc = "loaded" THEN [module EXCEPT !.pc = "exiting"]
               ELSE [module EXCEPT !.pc = "pernet", !.todo = Nets]
  /\ UNCHANGED <<radio, hwsim_radios, wmediumd, request, walk, works, socket, dump, mixed>>

(* mac80211_hwsim_free: the first of the list, until there is none.        *)
FreeUnlists ==
  /\ module.pc \in {"failing", "exiting"} /\ module.id = 0 /\ hwsim_radios # <<>>
  /\ Unlisted({Head(hwsim_radios)})
  /\ module' = [module EXCEPT !.id = Head(hwsim_radios)]
  /\ UNCHANGED <<wmediumd, request, walk, works, socket, mixed>>

FreeDeletes ==
  /\ module.pc \in {"failing", "exiting"} /\ module.id # 0
  /\ del_radio(module.id)
  /\ module' = [module EXCEPT !.id = 0]
  /\ UNCHANGED <<hwsim_radios, wmediumd, request, walk, works, socket, dump, mixed>>

FreeEnds ==
  /\ module.pc \in {"failing", "exiting"} /\ module.id = 0 /\ hwsim_radios = <<>>
  /\ module' = IF module.pc = "failing" THEN [module EXCEPT !.pc = "failed"]
               ELSE [module EXCEPT !.pc = "pernet", !.todo = Nets]
  /\ UNCHANGED <<radio, hwsim_radios, wmediumd, request, walk, works, socket, dump, mixed>>

Unloaded ==
  /\ module.pc = "pernet" /\ module.todo = {} /\ walk = Away
  /\ module' = [module EXCEPT !.pc = "gone"]
  /\ UNCHANGED <<radio, hwsim_radios, wmediumd, request, walk, works, socket, dump, mixed>>

----------------------------------------------------------------------------
(* hwsim_exit_net, when a namespace ends or for all of them when the       *)
(* module does.  It goes by list_for_each_entry_safe: the entry after the  *)
(* one to delete is read before the lock is released, and used after that. *)
Exits(r, n) == radio[r].netgroup = n /\ n # init_net

From(r, n)  == {k \in DOMAIN hwsim_radios :
                  /\ Exits(hwsim_radios[k], n)
                  /\ \A j \in k..Len(hwsim_radios) : j > k => hwsim_radios[j] # r}

Entry(k) == IF k \in DOMAIN hwsim_radios THEN hwsim_radios[k] ELSE 0

(* Under the lock: to the next radio to delete, or to the end.             *)
WalkOn(r, n) ==
  IF r = 0 \/ From(r, n) = {}
  THEN /\ walk' = Away
       /\ UNCHANGED <<radio, hwsim_radios, dump>>
  ELSE LET k == Min(From(r, n))
       IN  /\ walk' = [pc |-> "delete", net |-> n, data |-> Entry(k), tmp |-> Entry(k + 1)]
           /\ Unlisted({Entry(k)})

WalkBegins(n) ==
  /\ walk = Away
  /\ \/ /\ module.pc = "pernet" /\ n \in module.todo
        /\ module' = [module EXCEPT !.todo = @ \ {n}]
     \/ /\ module.pc \notin {"pernet", "gone"} /\ n # init_net
        /\ \A c \in Clients : NetOf(c) = n => ~socket[c].open /\ ~socket[c].notifier
        /\ UNCHANGED module
  /\ WalkOn(Entry(1), n)
  /\ UNCHANGED <<wmediumd, request, works, socket, mixed>>

WalkDeletes ==
  /\ walk.pc = "delete"
  /\ del_radio(walk.data)
  /\ walk' = [walk EXCEPT !.pc = "resume"]
  /\ UNCHANGED <<hwsim_radios, wmediumd, module, request, works, socket, dump, mixed>>

WalkResumes ==
  /\ walk.pc = "resume"
  /\ IF walk.tmp = 0 \/ walk.tmp \in ToSet(hwsim_radios) THEN WalkOn(walk.tmp, walk.net)
     ELSE /\ walk' = [walk EXCEPT !.pc = "astray"]
          /\ UNCHANGED <<radio, hwsim_radios, dump>>
  /\ UNCHANGED <<wmediumd, module, request, works, socket, mixed>>

----------------------------------------------------------------------------
(* Netlink requests.                                                       *)
Family == module.pc \notin {"exiting", "pernet", "gone"}

Asks(c) == Family /\ request = Idle /\ socket[c].open

(* HWSIM_CMD_NEW_RADIO.  Without a class it fails; with the class that a   *)
(* failed load has destroyed it may do anything.                           *)
new_radio_nl(c) ==
  /\ Asks(c) /\ module.pc # "netlink"
  /\ \E chans \in Channels, close \in BOOLEAN : NewRadio(NetOf(c), c, chans, close)
  /\ request' = [op |-> "new", by |-> c, id |-> Len(radio) + 1]
  /\ UNCHANGED <<hwsim_radios, wmediumd, module, walk, works, socket, dump, mixed>>

NewListed ==
  /\ request.op = "new"
  /\ Listed(request.id)
  /\ request' = Idle
  /\ UNCHANGED <<wmediumd, module, walk, works, socket, dump, mixed>>

NewFails ==
  /\ request.op = "new"
  /\ del_radio(request.id)
  /\ request' = Idle
  /\ UNCHANGED <<hwsim_radios, wmediumd, module, walk, works, socket, dump, mixed>>

(* HWSIM_CMD_DEL_RADIO, of a radio that is in the namespace of the asker.  *)
del_radio_nl(c, r) ==
  /\ Asks(c) /\ radio[r].netgroup = NetOf(c) /\ r \in ToSet(hwsim_radios)
  /\ Unlisted({r})
  /\ request' = [op |-> "del", by |-> c, id |-> r]
  /\ UNCHANGED <<wmediumd, module, walk, works, socket, mixed>>

DelDeletes ==
  /\ request.op = "del"
  /\ del_radio(request.id)
  /\ request' = Idle
  /\ UNCHANGED <<hwsim_radios, wmediumd, module, walk, works, socket, dump, mixed>>

\* Mutant: who wants to be the medium need not be able to tell channels apart.
RegisterUnchecked(c) ==
  /\ Asks(c)
  /\ request' = [op |-> "register", by |-> c, id |-> 0]
  /\ UNCHANGED <<radio, hwsim_radios, wmediumd, module, walk, works, socket, dump, mixed>>

(* HWSIM_CMD_REGISTER: refused when a radio has several channels, and when *)
(* somebody is registered; then all radios of the netgroup are told.       *)
register_received_nl(c) ==
  /\ Asks(c)
  /\ \A r \in ToSet(hwsim_radios) : radio[r].channels = 1
  /\ request' = [op |-> "register", by |-> c, id |-> 0]
  /\ UNCHANGED <<radio, hwsim_radios, wmediumd, module, walk, works, socket, dump, mixed>>

RegisterSets ==
  /\ request.op = "register"
  /\ IF wmediumd[NetOf(request.by)] # None
     THEN request' = Idle /\ UNCHANGED wmediumd
     ELSE /\ request' = [request EXCEPT !.op = "registered"]
          /\ wmediumd' = [wmediumd EXCEPT ![NetOf(request.by)] = request.by]
  /\ UNCHANGED <<radio, hwsim_radios, module, walk, works, socket, dump, mixed>>

register_wmediumd(n, c) ==
  radio' = [r \in Ids |-> IF r \in ToSet(hwsim_radios) /\ radio[r].netgroup = n
                         THEN [radio[r] EXCEPT !.wmediumd = c] ELSE radio[r]]

RegisterTells ==
  /\ request.op = "registered"
  /\ register_wmediumd(NetOf(request.by), request.by)
  /\ request' = Idle
  /\ UNCHANGED <<hwsim_radios, wmediumd, module, walk, works, socket, dump, mixed>>

----------------------------------------------------------------------------
(* A socket is closed: that of the program, when no request of it is under *)
(* way, or one of another netlink protocol that happens to have the same   *)
(* number; the notifier does not tell them apart.  The radios that were to *)
(* go with it leave the list, and if it was the medium nobody is now.      *)
Owned(c) == {r \in ToSet(hwsim_radios) : radio[r].destroy_on_close /\ radio[r].by = c}

\* Mutant: a radio stays on the list until its work has run.
LeftOnList(c) ==
  /\ works' = works \cup Owned(c)
  /\ UNCHANGED <<radio, hwsim_radios, dump>>

remove_user_radios(c) ==
  /\ works' = works \cup Owned(c)
  /\ Unlisted(Owned(c))

netlink_notify(c, namesake) ==
  LET n == NetOf(c)
      medium == wmediumd[n] = c
  IN  /\ Family /\ socket[c].open /\ ~socket[c].notifier
      /\ namesake \/ request.by # c
      /\ remove_user_radios(c)
      /\ socket' = [socket EXCEPT ![c] = [open |-> namesake, notifier |-> medium]]
      /\ wmediumd' = [wmediumd EXCEPT ![n] = IF medium THEN None ELSE @]
      /\ mixed' = IF medium /\ request.op = "registered" /\ request.by = c THEN mixed \cup {n}
                  ELSE mixed
      /\ UNCHANGED <<module, request, walk>>

(* Then the radios of its netgroup are told.                               *)
NotifierTells(c) ==
  /\ socket[c].notifier
  /\ register_wmediumd(NetOf(c), None)
  /\ socket' = [socket EXCEPT ![c].notifier = FALSE]
  /\ UNCHANGED <<hwsim_radios, wmediumd, module, request, walk, works, dump, mixed>>

destroy_radio(r) ==
  /\ r \in works
  /\ del_radio(r)
  /\ works' = works \ {r}
  /\ UNCHANGED <<hwsim_radios, wmediumd, module, request, walk, socket, dump, mixed>>

----------------------------------------------------------------------------
\* Mutant: the next message begins with the radio that was the last.
ReportedAgain(d, c, r) ==
  IF r < d.cursor \/ radio[r].netgroup # NetOf(c) THEN d
  ELSE [d EXCEPT !.cursor = r, !.got = Append(@, r)]

(* Listing the radios of a namespace (hwsim_dump_radio_nl), in as many     *)
(* messages as it takes; a number says where the next one goes on.         *)
Reported(d, c, r) ==
  IF r < d.cursor \/ radio[r].netgroup # NetOf(c) THEN d
  ELSE [d EXCEPT !.cursor = r + 1, !.got = Append(@, r)]

DumpBegins(c) ==
  /\ Asks(c) /\ ~dump[c].runs
  /\ dump' = [dump EXCEPT ![c] = [NoDump EXCEPT !.runs = TRUE,
                 !.since = {r \in ToSet(hwsim_radios) : radio[r].netgroup = NetOf(c)}]]
  /\ UNCHANGED <<radio, hwsim_radios, wmediumd, module, request, walk, works, socket, mixed>>

(* The listing after the first k radios of the list were looked at.        *)
Progress(c, k) ==
  LET d[j \in 0..k] == IF j = 0 THEN dump[c] ELSE Reported(d[j - 1], c, hwsim_radios[j])
  IN  d[k]

(* One message, with the radios that are among the first k of the list.    *)
DumpMessage(c) ==
  /\ Asks(c) /\ dump[c].runs
  /\ \E k \in 0..Len(hwsim_radios) :
       LET d == Progress(c, k)
       IN  /\ d.got = dump[c].got => k = Len(hwsim_radios)
           /\ dump' = [dump EXCEPT ![c] = IF d.got = dump[c].got
                        THEN [NoDump EXCEPT !.missed = {r \in d.since \ ToSet(d.got) : ~radio[r].behind}]
                        ELSE d]
  /\ UNCHANGED <<radio, hwsim_radios, wmediumd, module, request, walk, works, socket, mixed>>

----------------------------------------------------------------------------
Module == \/ ClassCreated \/ InitMakes \/ InitLists \/ Loaded \/ InitFails \/ exit_netlink
          \/ FreeUnlists \/ FreeDeletes \/ FreeEnds \/ Unloaded
Walk   == (\E n \in Nets : WalkBegins(n)) \/ WalkDeletes \/ WalkResumes
Served == NewListed \/ NewFails \/ DelDeletes \/ RegisterSets \/ RegisterTells

Next ==
  \/ Module \/ Walk \/ Served
  \/ \E c \in Clients :
       \/ new_radio_nl(c) \/ register_received_nl(c)
       \/ NotifierTells(c) \/ \E namesake \in BOOLEAN : netlink_notify(c, namesake)
       \/ \E r \in Ids : del_radio_nl(c, r)
  \/ \E c \in Listers : DumpBegins(c) \/ DumpMessage(c)
  \/ \E r \in Ids : destroy_radio(r)

Spec == Init /\ [][Next]_vars

----------------------------------------------------------------------------
(* Who is to delete a radio that has been taken off the list.              *)
Holders(r) ==
  {h \in {"module", "request", "walk", "work"} :
     \/ h = "module"  /\ module.id = r /\ module.pc \in {"failing", "exiting"}
     \/ h = "request" /\ request.op = "del" /\ request.id = r
     \/ h = "walk"    /\ walk.pc = "delete" /\ walk.data = r
     \/ h = "work"    /\ r \in works}

(* Every radio is deleted once: while it is on the list it is there once   *)
(* and nobody is about to delete it, and once it has left the list exactly *)
(* one is, however requests, notifier, namespaces and module come together.*)
(* The module leaves nothing behind but works that are still to run, and,  *)
(* when it failed to load, what a request made in the meantime.            *)
RadiosAccounted ==
  /\ IsInjective(hwsim_radios)
  /\ \A r \in Ids :
       /\ r \in ToSet(hwsim_radios) <=> radio[r].at = "listed"
       /\ Cardinality(Holders(r)) = IF radio[r].at = "removing" THEN 1 ELSE 0
       /\ module.pc = "gone" /\ radio[r].at # "gone" => r \in works \/ radio[r].by # None

(* What a radio sends its frames to is the program registered for its      *)
(* netgroup, or nobody; only while a notifier is on its way, or after it   *)
(* came in between of a registration, can it be one that is gone.  And it  *)
(* is never the medium of a radio with several channels, unless that radio *)
(* was made by the module while it registered.                             *)
MediumIsRight ==
  \A r \in ToSet(hwsim_radios) :
    LET m == radio[r].wmediumd
    IN  /\ m \in {None, wmediumd[radio[r].netgroup]}
             \/ radio[r].netgroup \in mixed
             \/ \E c \in Clients : NetOf(c) = radio[r].netgroup /\ socket[c].notifier
        /\ m # None => radio[r].channels = 1 \/ radio[r].by = None

(* A listing has no radio twice, and none that was there all the time is   *)
(* missing, however many messages it takes and whatever comes and goes     *)
(* between them; but a radio that got on the list behind a higher number   *)
(* can be passed over.                                                     *)
DumpComplete ==
  \A c \in Listers :
    /\ IsInjective(dump[c].got)
    /\ dump[c].missed = {}
=============================================================================
