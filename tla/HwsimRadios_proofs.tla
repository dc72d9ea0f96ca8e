------------------------- MODULE HwsimRadios_proofs -------------------------
(***************************************************************************)
(* Whatever programs, namespaces and the module do with the simulated      *)
(* radios, however many there are of each.                                 *)
(***************************************************************************)
EXTENDS HwsimRadios, SequenceTheorems, FiniteSetTheorems, WellFoundedInduction, TLAPS

Record == [at: {"made", "listed", "removing", "gone"}, netgroup: Nets,
           channels: Channels \cup {channels, 1}, by: Clients \cup {None},
           destroy_on_close: BOOLEAN, wmediumd: Clients \cup {None},
           behind: BOOLEAN]

(* The types, of all but the listings.                                     *)
RadioTypes ==
  /\ radio \in Seq(Record)
  /\ hwsim_radios \in Seq(Ids)
  /\ works \subseteq Ids

ControlTypes ==
  /\ wmediumd \in [Nets -> Clients \cup {None}]
  /\ module \in [pc: {"netlink", "init", "loaded", "failing", "failed", "exiting", "pernet", "gone"},
                 id: Nat, todo: SUBSET Nets]
  /\ request \in [op: {"none", "new", "del", "register", "registered"},
                  by: Clients \cup {None}, id: Nat]
  /\ walk \in [pc: {"none", "delete", "resume", "astray"}, net: Nets, data: Nat, tmp: Nat]
  /\ socket \in [Clients -> [open: BOOLEAN, notifier: BOOLEAN]]
  /\ mixed \subseteq Nets

LEMMA RadiosAre ==
  ASSUME RadioTypes
  PROVE  /\ Len(radio) \in Nat /\ Ids = 1..Len(radio) /\ 0 \notin Ids /\ Len(radio) + 1 \notin Ids
         /\ \A r \in Ids : radio[r] \in Record
         /\ Len(hwsim_radios) \in Nat /\ DOMAIN hwsim_radios = 1..Len(hwsim_radios)
         /\ \A k \in DOMAIN hwsim_radios : hwsim_radios[k] \in Ids
         /\ ToSet(hwsim_radios) \subseteq Ids
<1>1. radio \in Seq(Record) /\ hwsim_radios \in Seq(Ids)
  BY DEF RadioTypes
<1>2. Len(radio) \in Nat /\ Ids = 1..Len(radio) /\ \A r \in Ids : radio[r] \in Record
  BY <1>1, LenProperties, ElementOfSeq DEF Ids
<1>3. /\ Len(hwsim_radios) \in Nat /\ DOMAIN hwsim_radios = 1..Len(hwsim_radios)
      /\ \A k \in DOMAIN hwsim_radios : hwsim_radios[k] \in Ids
  BY <1>1, LenProperties, ElementOfSeq
<1>4. 0 \notin Ids /\ Len(radio) + 1 \notin Ids
  BY <1>2
<1> QED
  BY <1>2, <1>3, <1>4 DEF ToSet

----------------------------------------------------------------------------
(***************************************************************************)
(* What each of the functions does to the radios and to the list.          *)
(***************************************************************************)
LEMMA NewRadioIs ==
  ASSUME RadioTypes, NEW n \in Nets, NEW c \in Clients \cup {None},
         NEW chans \in Channels \cup {channels}, NEW close \in BOOLEAN,
         NewRadio(n, c, chans, close), UNCHANGED hwsim_radios
  PROVE  LET x == Len(radio) + 1
         IN  /\ radio' \in Seq(Record) /\ Ids' = Ids \cup {x} /\ x \notin Ids /\ x \in Nat \ {0}
             /\ hwsim_radios' \in Seq(Ids')
             /\ \A r \in Ids : radio'[r] = radio[r]
             /\ radio'[x] = [at |-> "made", netgroup |-> n, channels |-> chans, by |-> c,
                             destroy_on_close |-> close, wmediumd |-> None, behind |-> FALSE]
<1> DEFINE x == Len(radio) + 1
           rec == [at |-> "made", netgroup |-> n, channels |-> chans, by |-> c,
                   destroy_on_close |-> close, wmediumd |-> None, behind |-> FALSE]
<1>1. rec \in Record
  BY DEF Record
<1>2. radio' = Append(radio, rec) /\ radio \in Seq(Record) /\ hwsim_radios \in Seq(Ids)
  BY DEF NewRadio, RadioTypes
<1> HIDE DEF rec
<1>3. /\ radio' \in Seq(Record) /\ Len(radio') = x /\ radio'[x] = rec
      /\ \A r \in 1..Len(radio) : radio'[r] = radio[r]
  BY <1>1, <1>2, AppendProperties
<1>4. Len(radio) \in Nat /\ Ids = 1..Len(radio) /\ x \notin Ids
  BY RadiosAre
<1>5. Ids' = 1..x
  BY <1>3, LenProperties DEF Ids
<1>6. Ids' = Ids \cup {x} /\ x \in Nat \ {0}
  BY <1>4, <1>5
<1>7. hwsim_radios' \in Seq(Ids')
  BY <1>2, <1>6, SeqMonotonic
<1> QED
  BY <1>3, <1>4, <1>6, <1>7 DEF rec

LEMMA FreedIs ==
  ASSUME NEW rec \in Record
  PROVE  /\ Freed(rec) \in Record /\ Freed(rec).at = "gone" /\ Freed(rec).wmediumd = None
         /\ Freed(rec).by = rec.by /\ Freed(rec).netgroup = rec.netgroup /\ Freed(rec).channels = 1
  BY DEF Freed, Record

(* Functions that change one field or another of some radios.              *)
LEMMA RadiosBecome ==
  ASSUME RadioTypes, NEW f, radio' = [r \in Ids |-> f[r]], \A r \in Ids : f[r] \in Record
  PROVE  radio' \in Seq(Record) /\ Ids' = Ids /\ \A r \in Ids : radio'[r] = f[r]
<1>1. Len(radio) \in Nat /\ Ids = 1..Len(radio)
  BY RadiosAre
<1>2. radio' \in [1..Len(radio) -> Record] /\ \A r \in Ids : radio'[r] = f[r]
  BY <1>1
<1>3. radio' \in Seq(Record) /\ DOMAIN radio' = 1..Len(radio)
  BY <1>1, <1>2, SeqDef
<1> QED
  BY <1>1, <1>2, <1>3 DEF Ids

LEMMA DelRadioIs ==
  ASSUME RadioTypes, NEW x \in Ids, del_radio(x)
  PROVE  /\ radio' \in Seq(Record) /\ Ids' = Ids
         /\ \A r \in Ids : r # x => radio'[r] = radio[r]
         /\ radio'[x] = Freed(radio[x])
<1> DEFINE f == [radio EXCEPT ![x] = Freed(radio[x])]
<1>1. radio' = f /\ DOMAIN radio = Ids
  BY DEF del_radio, Ids
<1>2. f = [r \in Ids |-> f[r]] /\ f[x] = Freed(radio[x]) /\ \A r \in Ids : r # x => f[r] = radio[r]
  BY <1>1
<1>3. \A r \in Ids : f[r] \in Record
  BY <1>2, RadiosAre, FreedIs
<1> HIDE DEF f
<1>4. radio' \in Seq(Record) /\ Ids' = Ids /\ \A r \in Ids : radio'[r] = f[r]
  BY <1>1, <1>2, <1>3, RadiosBecome
<1> QED
  BY <1>2, <1>4

LEMMA RegisterIs ==
  ASSUME RadioTypes, NEW n, NEW c \in Clients \cup {None}, register_wmediumd(n, c)
  PROVE  /\ radio' \in Seq(Record) /\ Ids' = Ids
         /\ \A r \in Ids :
              IF r \in ToSet(hwsim_radios) /\ radio[r].netgroup = n
              THEN radio'[r] = [radio[r] EXCEPT !.wmediumd = c]
              ELSE radio'[r] = radio[r]
<1> DEFINE f == [r \in Ids |-> IF r \in ToSet(hwsim_radios) /\ radio[r].netgroup = n
                               THEN [radio[r] EXCEPT !.wmediumd = c] ELSE radio[r]]
<1>1. radio' = f
  BY DEF register_wmediumd
<1>2. f = [r \in Ids |-> f[r]]
  OBVIOUS
<1>3. ASSUME NEW r \in Ids PROVE f[r] \in Record
  <2>1. radio[r] \in Record
    BY RadiosAre
  <2>2. [radio[r] EXCEPT !.wmediumd = c] \in Record
    BY <2>1 DEF Record
  <2> QED
    BY <2>1, <2>2
<1>4. \A r \in Ids :
        IF r \in ToSet(hwsim_radios) /\ radio[r].netgroup = n
        THEN f[r] = [radio[r] EXCEPT !.wmediumd = c]
        ELSE f[r] = radio[r]
  OBVIOUS
<1> HIDE DEF f
<1>5. radio' \in Seq(Record) /\ Ids' = Ids /\ \A r \in Ids : radio'[r] = f[r]
  BY <1>1, <1>2, <1>3, RadiosBecome
<1> QED
  BY <1>4, <1>5

LEMMA UnlistedIs ==
  ASSUME RadioTypes, IsInjective(hwsim_radios), NEW ids, Unlisted(ids)
  PROVE  /\ radio' \in Seq(Record) /\ Ids' = Ids
         /\ \A r \in Ids : IF r \in ids THEN radio'[r] = [radio[r] EXCEPT !.at = "removing"]
                           ELSE radio'[r] = radio[r]
         /\ hwsim_radios' \in Seq(Ids') /\ IsInjective(hwsim_radios')
         /\ ToSet(hwsim_radios') = ToSet(hwsim_radios) \ ids
         /\ \A q, r : Before(q, r)' => Before(q, r)
<1> DEFINE f == [r \in Ids |-> IF r \in ids THEN [radio[r] EXCEPT !.at = "removing"] ELSE radio[r]]
<1>1. radio' = f
  BY DEF Unlisted
<1>2. f = [r \in Ids |-> f[r]]
  OBVIOUS
<1>3. ASSUME NEW r \in Ids PROVE f[r] \in Record
  <2>1. radio[r] \in Record
    BY RadiosAre
  <2>2. [radio[r] EXCEPT !.at = "removing"] \in Record
    BY <2>1 DEF Record
  <2> QED
    BY <2>1, <2>2
<1>4. \A r \in Ids : IF r \in ids THEN f[r] = [radio[r] EXCEPT !.at = "removing"] ELSE f[r] = radio[r]
  OBVIOUS
<1> HIDE DEF f
<1>5. radio' \in Seq(Record) /\ Ids' = Ids /\ \A r \in Ids : radio'[r] = f[r]
  BY <1>1, <1>2, <1>3, RadiosBecome
<1> DEFINE others == ToSet(hwsim_radios) \ ids
<1>6. PICK list \in SeqOf(others, Len(hwsim_radios)) :
         /\ ToSet(list) = others
         /\ \A i, j \in DOMAIN list : i < j => Before(list[i], list[j])
         /\ hwsim_radios' = list
  BY DEF Unlisted
<1>7. others \subseteq Ids /\ DOMAIN hwsim_radios = 1..Len(hwsim_radios) /\ Len(hwsim_radios) \in Nat
  BY RadiosAre
<1> HIDE DEF others
<1>8. PICK m \in 0..Len(hwsim_radios) : list \in [1..m -> others]
  BY <1>6 DEF SeqOf
<1>9. list \in Seq(Ids) /\ DOMAIN list = 1..m /\ m \in Nat
  <2>1. m \in Nat /\ list \in [1..m -> Ids]
    BY <1>7, <1>8
  <2> QED
    BY <2>1, SeqDef
<1>10. ASSUME NEW q, NEW r, Before(q, r), q = r PROVE FALSE
  <2>1. PICK j \in DOMAIN hwsim_radios : \E k \in 1..(j - 1) : hwsim_radios[k] = q /\ hwsim_radios[j] = r
    BY <1>10 DEF Before
  <2>2. PICK k \in 1..(j - 1) : hwsim_radios[k] = q /\ hwsim_radios[j] = r
    BY <2>1
  <2>3. k \in DOMAIN hwsim_radios /\ k # j
    BY <1>7, <2>1
  <2> QED
    BY <1>10, <2>1, <2>2, <2>3 DEF IsInjective
<1>11. IsInjective(list)
  <2> SUFFICES ASSUME NEW i \in DOMAIN list, NEW j \in DOMAIN list, list[i] = list[j], i # j PROVE FALSE
    BY DEF IsInjective
  <2>1. i < j \/ j < i
    BY <1>9
  <2> QED
    BY <1>6, <1>10, <2>1
<1>12. ASSUME NEW q, NEW r, Before(q, r)' PROVE Before(q, r)
  <2>1. PICK j \in DOMAIN list : \E k \in 1..(j - 1) : list[k] = q /\ list[j] = r
    BY <1>6, <1>12 DEF Before
  <2>2. PICK k \in 1..(j - 1) : list[k] = q /\ list[j] = r
    BY <2>1
  <2>3. k \in DOMAIN list /\ k < j
    BY <1>9, <2>1
  <2> QED
    BY <1>6, <2>1, <2>2, <2>3
<1>13. ToSet(hwsim_radios') = ToSet(hwsim_radios) \ ids
  BY <1>6 DEF others
<1> QED
  BY <1>4, <1>5, <1>6, <1>9, <1>11, <1>12, <1>13

LEMMA ListedIs ==
  ASSUME RadioTypes, IsInjective(hwsim_radios), NEW x \in Ids, x \notin ToSet(hwsim_radios), Listed(x)
  PROVE  /\ radio' \in Seq(Record) /\ Ids' = Ids
         /\ \A r \in Ids : r # x => radio'[r] = radio[r]
         /\ radio'[x] = [radio[x] EXCEPT !.at = "listed",
                                         !.behind = \E q \in ToSet(hwsim_radios) : q > x]
         /\ hwsim_radios' \in Seq(Ids') /\ IsInjective(hwsim_radios')
         /\ ToSet(hwsim_radios') = ToSet(hwsim_radios) \cup {x}
         /\ \A q, r : Before(q, r)' => Before(q, r) \/ (r = x /\ q \in ToSet(hwsim_radios))
<1> DEFINE b == \E q \in ToSet(hwsim_radios) : q > x
           rec == [radio[x] EXCEPT !.at = "listed", !.behind = b]
           f == [radio EXCEPT ![x] = rec]
           n == Len(hwsim_radios)
<1>1. radio[x] \in Record /\ DOMAIN radio = Ids /\ b \in BOOLEAN
  BY RadiosAre DEF Ids
<1>2. rec \in Record
  BY <1>1 DEF Record
<1>3. radio' = f
  <2>1. radio' = [radio EXCEPT ![x].at = "listed", ![x].behind = b]
    BY DEF Listed
  <2> HIDE DEF b
  <2> QED
    BY <1>1, <2>1
<1> HIDE DEF rec
<1>4. f = [r \in Ids |-> f[r]] /\ f[x] = rec /\ \A r \in Ids : r # x => f[r] = radio[r]
  BY <1>1
<1>5. \A r \in Ids : f[r] \in Record
  BY <1>2, <1>4, RadiosAre
<1> HIDE DEF f
<1>6. radio' \in Seq(Record) /\ Ids' = Ids /\ \A r \in Ids : radio'[r] = f[r]
  BY <1>3, <1>4, <1>5, RadiosBecome
<1>7. /\ n \in Nat /\ DOMAIN hwsim_radios = 1..n /\ hwsim_radios \in Seq(Ids)
      /\ hwsim_radios' = Append(hwsim_radios, x)
  BY RadiosAre DEF RadioTypes, Listed
<1>8. /\ hwsim_radios' \in Seq(Ids) /\ Len(hwsim_radios') = n + 1
      /\ \A i \in 1..n : hwsim_radios'[i] = hwsim_radios[i]
      /\ hwsim_radios'[n + 1] = x
  BY <1>7, AppendProperties
<1>9. DOMAIN hwsim_radios' = 1..(n + 1)
  BY <1>8, LenProperties
<1>10. \A i \in 1..n : hwsim_radios[i] # x /\ hwsim_radios[i] \in ToSet(hwsim_radios)
  BY <1>7 DEF ToSet
<1> HIDE DEF n
<1>11. \A i \in 1..(n + 1) : i = n + 1 \/ i \in 1..n
  BY <1>7
<1>12. IsInjective(hwsim_radios')
  <2> SUFFICES ASSUME NEW i \in 1..(n + 1), NEW j \in 1..(n + 1), hwsim_radios'[i] = hwsim_radios'[j]
               PROVE  i = j
    BY <1>9 DEF IsInjective
  <2> QED
    BY <1>7, <1>8, <1>10, <1>11 DEF IsInjective
<1>13. ToSet(hwsim_radios') = ToSet(hwsim_radios) \cup {x}
  <2>1. ToSet(hwsim_radios') = {hwsim_radios'[i] : i \in 1..(n + 1)}
    BY <1>9 DEF ToSet
  <2>2. ToSet(hwsim_radios) = {hwsim_radios[i] : i \in 1..n}
    BY <1>7 DEF ToSet
  <2>3. n + 1 \in 1..(n + 1) /\ \A i \in 1..n : i \in 1..(n + 1)
    BY <1>7
  <2> QED
    BY <1>8, <1>11, <2>1, <2>2, <2>3
<1>14. ASSUME NEW q, NEW r, Before(q, r)'
       PROVE  Before(q, r) \/ (r = x /\ q \in ToSet(hwsim_radios))
  <2>1. PICK j \in 1..(n + 1) : \E k \in 1..(j - 1) : hwsim_radios'[k] = q /\ hwsim_radios'[j] = r
    BY <1>9, <1>14 DEF Before
  <2>2. PICK k \in 1..(j - 1) : hwsim_radios'[k] = q /\ hwsim_radios'[j] = r
    BY <2>1
  <2>3. k \in 1..n /\ hwsim_radios[k] = q
    BY <1>7, <1>8, <2>1, <2>2
  <2>4. CASE j = n + 1
    BY <1>8, <1>10, <2>2, <2>3, <2>4
  <2>5. CASE j \in 1..n
    BY <1>7, <1>8, <2>2, <2>3, <2>5 DEF Before
  <2> QED
    BY <1>11, <2>4, <2>5
<1> QED
  BY <1>4, <1>6, <1>8, <1>12, <1>13, <1>14 DEF rec

----------------------------------------------------------------------------
(***************************************************************************)
(* Each radio is in one place: it is being made by the module or by a      *)
(* request, it is on the list, one of four is about to delete it, or it is *)
(* gone.                                                                   *)
(***************************************************************************)
ModuleMakes(r)  == module.pc = "init" /\ module.id = r
RequestMakes(r) == request.op = "new" /\ request.id = r
OnList(r)       == r \in ToSet(hwsim_radios)
ByModule(r)     == module.pc \in {"failing", "exiting"} /\ module.id = r
ByRequest(r)    == request.op = "del" /\ request.id = r
ByWalk(r)       == walk.pc = "delete" /\ walk.data = r
ByWork(r)       == r \in works

InPlace(r) ==
  /\ OnList(r) <=> radio[r].at = "listed"
  /\ ModuleMakes(r) \/ RequestMakes(r) <=> radio[r].at = "made"
  /\ ByModule(r) \/ ByRequest(r) \/ ByWalk(r) \/ ByWork(r) <=> radio[r].at = "removing"
  /\ ~(ByModule(r) /\ ByRequest(r)) /\ ~(ByModule(r) /\ ByWalk(r)) /\ ~(ByModule(r) /\ ByWork(r))
  /\ ~(ByRequest(r) /\ ByWalk(r)) /\ ~(ByRequest(r) /\ ByWork(r)) /\ ~(ByWalk(r) /\ ByWork(r))
  /\ ModuleMakes(r) => radio[r].by = None
  /\ RequestMakes(r) => radio[r].by # None

Places == IsInjective(hwsim_radios) /\ \A r \in Ids : InPlace(r)

(* The numbers that are held are those of radios.                          *)
Numbers ==
  /\ IF module.pc \in {"init", "failing", "exiting"} THEN module.id \in Ids \cup {0} ELSE module.id = 0
  /\ request.op \in {"new", "del"} => request.id \in Ids
  /\ request.op # "none" => request.by \in Clients
  /\ walk.pc = "delete" => walk.data \in Ids

(* What is left of the module and its radios as it goes.                   *)
Phase ==
  /\ module.pc = "netlink" => \A r \in Ids : radio[r].by # None
  /\ module.pc \in {"failed", "pernet", "gone"} =>
       \A r \in Ids : radio[r].by = None => radio[r].at # "listed"
  /\ module.pc \in {"exiting", "pernet", "gone"} => request = Idle
  /\ module.pc = "gone" => walk = Away

Core == RadioTypes /\ ControlTypes /\ Places /\ Numbers /\ Phase

(* A step that does not move the radio r.                                  *)
Unmoved(r) ==
  /\ radio'[r].at = radio[r].at /\ radio'[r].by = radio[r].by
  /\ OnList(r)' <=> OnList(r)
  /\ ModuleMakes(r)' <=> ModuleMakes(r)
  /\ RequestMakes(r)' <=> RequestMakes(r)
  /\ ByModule(r)' <=> ByModule(r)
  /\ ByRequest(r)' <=> ByRequest(r)
  /\ ByWalk(r)' <=> ByWalk(r)
  /\ ByWork(r)' <=> ByWork(r)

LEMMA StaysInPlace ==
  ASSUME NEW r, InPlace(r), Unmoved(r)
  PROVE  InPlace(r)'
  BY DEF InPlace, Unmoved

LEMMA Assumed ==
  /\ init_net \in Nets /\ None \notin Clients /\ Listers \subseteq Clients
  /\ \A c \in Clients : NetOf(c) \in Nets
  /\ radios \in Nat /\ MaxRadios \in Nat
  BY HwsimRadiosAssumption

LEMMA InitCore == Init => Core
<1> SUFFICES ASSUME Init PROVE Core
  OBVIOUS
<1>1. radio = <<>> /\ hwsim_radios = <<>> /\ works = {} /\ request = Idle /\ walk = Away
      /\ module = [pc |-> "netlink", id |-> 0, todo |-> {}]
  BY DEF Init
<1>2. radio \in Seq(Record) /\ Ids = {} /\ hwsim_radios \in Seq(Ids) /\ DOMAIN hwsim_radios = {}
  BY <1>1 DEF Ids
<1>3. RadioTypes
  BY <1>1, <1>2 DEF RadioTypes
<1>4. ControlTypes
  BY Assumed DEF Init, ControlTypes, Idle, Away
<1>5. Places
  BY <1>2 DEF Places, IsInjective
<1>6. Numbers /\ Phase
  BY <1>1, <1>2 DEF Numbers, Phase, Idle, Away
<1> QED
  BY <1>3, <1>4, <1>5, <1>6 DEF Core

(* Steps that leave the radios, the list and the works alone.              *)
LEMMA ControlOnly ==
  ASSUME Core, UNCHANGED <<radio, hwsim_radios, works>>,
         \A r \in Ids : Unmoved(r), ControlTypes', Numbers', Phase'
  PROVE  Core'
<1>1. RadioTypes' /\ IsInjective(hwsim_radios)' /\ Ids' = Ids
  BY DEF Core, RadioTypes, Places, Ids
<1>2. ASSUME NEW r \in Ids PROVE InPlace(r)'
  BY <1>2, StaysInPlace DEF Core, Places
<1> QED
  BY <1>1, <1>2 DEF Core, Places

LEMMA ModuleControl ==
  ASSUME Core, ClassCreated \/ Loaded \/ (InitFails /\ module.pc = "netlink") \/ exit_netlink
               \/ FreeEnds \/ Unloaded
  PROVE  Core'
<1>1. RadioTypes /\ ControlTypes /\ Places /\ Numbers /\ Phase
  BY DEF Core
<1>2. UNCHANGED <<radio, hwsim_radios, works, request, walk, wmediumd, socket, mixed>>
  BY DEF ClassCreated, Loaded, InitFails, exit_netlink, FreeEnds, Unloaded
<1>3. /\ module'.id = 0 /\ module.id = 0 /\ module'.pc \notin {"netlink", "failing"}
      /\ module' \in [pc: {"init", "loaded", "failed", "exiting", "pernet", "gone"},
                      id: Nat, todo: SUBSET Nets]
      /\ module'.pc \in {"failed", "pernet", "gone"} =>
           \/ module.pc \in {"failed", "pernet", "netlink"}
           \/ hwsim_radios = <<>>
      /\ module'.pc \in {"exiting", "pernet", "gone"} =>
           request = Idle \/ module.pc \in {"exiting", "pernet", "gone"}
      /\ module'.pc = "gone" => walk = Away
  BY ZenonT(40), <1>1 DEF ClassCreated, Loaded, InitFails, exit_netlink, FreeEnds, Unloaded, ControlTypes, Numbers
<1>4. ControlTypes'
  BY <1>1, <1>2, <1>3 DEF ControlTypes
<1>5. Ids' = Ids /\ 0 \notin Ids
  BY <1>1, <1>2, RadiosAre DEF Ids
<1>6. Numbers'
  BY <1>1, <1>2, <1>3, <1>5 DEF Numbers
<1>7. ASSUME hwsim_radios = <<>>, NEW r \in Ids PROVE radio[r].at # "listed"
  <2>1. ToSet(hwsim_radios) = {}
    BY <1>7 DEF ToSet
  <2> QED
    BY <1>1, <2>1 DEF Places, InPlace, OnList
<1>8. Phase'
  BY <1>1, <1>2, <1>3, <1>5, <1>7 DEF Phase
<1>9. ASSUME NEW r \in Ids PROVE Unmoved(r)
  <2>1. r # 0
    BY <1>5
  <2>2. UNCHANGED OnList(r) /\ UNCHANGED RequestMakes(r) /\ UNCHANGED ByRequest(r)
        /\ UNCHANGED ByWalk(r) /\ UNCHANGED ByWork(r)
    BY <1>2 DEF OnList, RequestMakes, ByRequest, ByWalk, ByWork
  <2>3. ~ModuleMakes(r) /\ ~ModuleMakes(r)' /\ ~ByModule(r) /\ ~ByModule(r)'
    BY <1>3, <2>1 DEF ModuleMakes, ByModule
  <2> QED
    BY <1>2, <2>2, <2>3 DEF Unmoved
<1> QED
  BY <1>2, <1>4, <1>6, <1>8, <1>9, ControlOnly

(* Steps that only tell radios who their medium is, or leave them alone.   *)
LEMMA MediumControl ==
  ASSUME Core,
         \/ \E c \in Clients : register_received_nl(c) \/ NotifierTells(c)
         \/ RegisterSets \/ RegisterTells
         \/ UNCHANGED <<radio, hwsim_radios, wmediumd, module, request, walk, works, socket, mixed>>
  PROVE  Core'
<1>1. RadioTypes /\ ControlTypes /\ Places /\ Numbers /\ Phase
  BY DEF Core
<1>2. UNCHANGED <<hwsim_radios, works, module, walk, mixed>>
  BY DEF register_received_nl, NotifierTells, RegisterSets, RegisterTells
<1>3. /\ radio' \in Seq(Record) /\ Ids' = Ids
      /\ \A r \in Ids : radio'[r].at = radio[r].at /\ radio'[r].by = radio[r].by
  <2>1. CASE UNCHANGED radio
    BY <1>1, <2>1 DEF RadioTypes, Ids
  <2>2. ASSUME NEW n, NEW c \in Clients \cup {None}, register_wmediumd(n, c)
        PROVE  /\ radio' \in Seq(Record) /\ Ids' = Ids
               /\ \A r \in Ids : radio'[r].at = radio[r].at /\ radio'[r].by = radio[r].by
    <3>1. ASSUME NEW r \in Ids
          PROVE  [radio[r] EXCEPT !.wmediumd = c].at = radio[r].at /\ [radio[r] EXCEPT !.wmediumd = c].by = radio[r].by
      <4>1. radio[r] \in Record
        BY <1>1, RadiosAre
      <4> QED
        BY <4>1 DEF Record
    <3> QED
      BY ZenonT(40), <1>1, <2>2, <3>1, RegisterIs
  <2>3. UNCHANGED radio \/ \E n, c : c \in Clients \cup {None} /\ register_wmediumd(n, c)
    BY <1>1 DEF register_received_nl, NotifierTells, RegisterSets, RegisterTells, Numbers
  <2> QED
    BY <2>1, <2>2, <2>3
<1>4. /\ request' = request \/ request' = Idle \/ request'.op \in {"register", "registered"}
      /\ request'.op \notin {"none"} => request'.by \in Clients
      /\ request' \in [op: {"none", "new", "del", "register", "registered"}, by: Clients \cup {None}, id: Nat]
      /\ request' = request \/ request.op \notin {"new", "del"}
      /\ module.pc \in {"exiting", "pernet", "gone"} => request' = Idle
  <2>1. CASE \E c \in Clients : register_received_nl(c)
    <3>1. request = Idle /\ module.pc \notin {"exiting", "pernet", "gone"}
      BY <2>1 DEF register_received_nl, Asks, Family
    <3>2. PICK c \in Clients : request' = [op |-> "register", by |-> c, id |-> 0]
      BY <2>1 DEF register_received_nl
    <3> QED
      BY <3>1, <3>2 DEF Idle
  <2>2. CASE RegisterSets
    <3>1. request.op = "register" /\ (request' = Idle \/ request' = [request EXCEPT !.op = "registered"])
      BY <2>2 DEF RegisterSets
    <3>2. [request EXCEPT !.op = "registered"].op = "registered" /\ [request EXCEPT !.op = "registered"].by = request.by
      BY <1>1 DEF ControlTypes
    <3> QED
      BY <1>1, <3>1, <3>2 DEF ControlTypes, Numbers, Idle, Phase
  <2>3. CASE RegisterTells
    BY <1>1, <2>3 DEF RegisterTells, ControlTypes, Numbers, Idle, Phase
  <2>4. CASE UNCHANGED request
    BY <1>1, <2>4 DEF ControlTypes, Numbers, Phase
  <2> QED
    BY <2>1, <2>2, <2>3, <2>4 DEF NotifierTells
<1>5. ControlTypes'
  <2>1. wmediumd' \in [Nets -> Clients \cup {None}] /\ socket' \in [Clients -> [open: BOOLEAN, notifier: BOOLEAN]]
    <3>1. CASE RegisterSets
      BY <1>1, <3>1 DEF RegisterSets, ControlTypes, Numbers
    <3>2. CASE \E c \in Clients : NotifierTells(c)
      <4>1. PICK c \in Clients : NotifierTells(c)
        BY <3>2
      <4>2. socket' = [socket EXCEPT ![c].notifier = FALSE] /\ UNCHANGED wmediumd
        BY <4>1 DEF NotifierTells
      <4>3. socket \in [Clients -> [open: BOOLEAN, notifier: BOOLEAN]]
            /\ wmediumd \in [Nets -> Clients \cup {None}]
        BY <1>1 DEF ControlTypes
      <4>4. socket[c] \in [open: BOOLEAN, notifier: BOOLEAN]
        BY <4>3
      <4>5. socket' \in [Clients -> [open: BOOLEAN, notifier: BOOLEAN]]
        BY <4>2, <4>3, <4>4
      <4> QED
        BY <4>2, <4>3, <4>5
    <3>3. CASE UNCHANGED <<wmediumd, socket>>
      BY <1>1, <3>3 DEF ControlTypes
    <3> QED
      BY <3>1, <3>2, <3>3 DEF register_received_nl, RegisterTells
  <2> QED
    BY <1>1, <1>2, <1>4, <2>1 DEF ControlTypes
<1>6. Numbers'
  BY <1>1, <1>2, <1>3, <1>4 DEF Numbers, Idle
<1>7. Phase'
  BY <1>1, <1>2, <1>3, <1>4 DEF Phase
<1>8. ASSUME NEW r \in Ids PROVE Unmoved(r)
  <2>1. UNCHANGED OnList(r) /\ UNCHANGED ModuleMakes(r) /\ UNCHANGED ByModule(r)
        /\ UNCHANGED ByWalk(r) /\ UNCHANGED ByWork(r)
    BY <1>2 DEF OnList, ModuleMakes, ByModule, ByWalk, ByWork
  <2>2. (RequestMakes(r)' <=> RequestMakes(r)) /\ (ByRequest(r)' <=> ByRequest(r))
    BY <1>4 DEF RequestMakes, ByRequest, Idle
  <2> QED
    BY <1>3, <2>1, <2>2 DEF Unmoved
<1>9. ASSUME NEW r \in Ids PROVE InPlace(r)'
  BY <1>1, <1>8, StaysInPlace DEF Places
<1>10. Places' /\ RadioTypes'
  BY <1>1, <1>2, <1>3, <1>9 DEF Places, RadioTypes
<1> QED
  BY <1>5, <1>6, <1>7, <1>10 DEF Core

(* A radio is made: it has a number, and is not on the list.               *)
LEMMA MakeControl ==
  ASSUME Core, NEW c \in Clients \cup {None}, NEW n \in Nets,
         NEW chans \in Channels \cup {channels}, NEW close \in BOOLEAN,
         NewRadio(n, c, chans, close),
         UNCHANGED <<hwsim_radios, wmediumd, walk, works, socket, mixed>>,
         \/ /\ c = None /\ module.pc = "init" /\ module.id = 0
            /\ module' = [module EXCEPT !.id = Len(radio) + 1] /\ UNCHANGED request
         \/ /\ c \in Clients /\ request = Idle /\ module.pc \notin {"netlink", "exiting", "pernet", "gone"}
            /\ request' = [op |-> "new", by |-> c, id |-> Len(radio) + 1] /\ UNCHANGED module
  PROVE  Core'
<1>1. RadioTypes /\ ControlTypes /\ Places /\ Numbers /\ Phase
  BY DEF Core
<1> DEFINE x == Len(radio) + 1
<1>2. /\ radio' \in Seq(Record) /\ Ids' = Ids \cup {x} /\ x \notin Ids /\ x \in Nat \ {0}
      /\ hwsim_radios' \in Seq(Ids')
      /\ \A r \in Ids : radio'[r] = radio[r]
      /\ radio'[x].at = "made" /\ radio'[x].by = c
  <2>1. UNCHANGED hwsim_radios
    OBVIOUS
  <2>2. /\ radio' \in Seq(Record) /\ Ids' = Ids \cup {x} /\ x \notin Ids /\ x \in Nat \ {0}
        /\ hwsim_radios' \in Seq(Ids')
        /\ \A r \in Ids : radio'[r] = radio[r]
        /\ radio'[x] = [at |-> "made", netgroup |-> n, channels |-> chans, by |-> c,
                        destroy_on_close |-> close, wmediumd |-> None, behind |-> FALSE]
    BY <1>1, <2>1, NewRadioIs
  <2> QED
    BY <2>2
<1>3. \/ /\ c = None /\ module.pc = "init" /\ module.id = 0
         /\ module' = [module EXCEPT !.id = x] /\ UNCHANGED request
      \/ /\ c \in Clients /\ request = Idle /\ module.pc \notin {"netlink", "exiting", "pernet", "gone"}
         /\ request' = [op |-> "new", by |-> c, id |-> x] /\ UNCHANGED module
  OBVIOUS
<1>4. ToSet(hwsim_radios) \subseteq Ids /\ works \subseteq Ids /\ 0 \notin Ids
  BY <1>1, RadiosAre DEF RadioTypes
<1> HIDE DEF x
<1>5. /\ module'.pc = module.pc /\ (module' = module \/ (module.id = 0 /\ module'.id = x /\ module.pc = "init"))
      /\ module' \in [pc: {"netlink", "init", "loaded", "failing", "failed", "exiting", "pernet", "gone"},
                      id: Nat, todo: SUBSET Nets]
  BY <1>1, <1>2, <1>3 DEF ControlTypes
<1>6. ControlTypes'
  BY <1>1, <1>2, <1>3, <1>5 DEF ControlTypes
<1>7. Numbers'
  BY <1>1, <1>2, <1>3, <1>5 DEF Numbers
<1>8. Phase'
  BY <1>1, <1>2, <1>3, <1>5, Assumed DEF Phase
<1>9. RadioTypes'
  BY <1>2, <1>4 DEF RadioTypes
<1>10. ASSUME NEW r \in Ids PROVE InPlace(r)'
  <2>1. r # 0 /\ r # x
    BY <1>2, <1>4
  <2>2. UNCHANGED OnList(r) /\ UNCHANGED ByWalk(r) /\ UNCHANGED ByWork(r)
    BY DEF OnList, ByWalk, ByWork
  <2>3. (RequestMakes(r)' <=> RequestMakes(r)) /\ (ByRequest(r)' <=> ByRequest(r))
    BY <1>3, <2>1 DEF RequestMakes, ByRequest, Idle
  <2>4. (ModuleMakes(r)' <=> ModuleMakes(r)) /\ (ByModule(r)' <=> ByModule(r))
    BY <1>5, <2>1 DEF ModuleMakes, ByModule
  <2>5. Unmoved(r)
    BY <1>2, <2>2, <2>3, <2>4 DEF Unmoved
  <2> QED
    BY <1>1, <2>5, StaysInPlace DEF Places
<1>11. ASSUME NEW r, r = x PROVE InPlace(r)'
  <2>1. ~OnList(r)' /\ ~ByWork(r)' /\ ~ByWalk(r)'
    BY <1>1, <1>2, <1>4, <1>11 DEF OnList, ByWork, ByWalk, Numbers
  <2>2. ~ByModule(r)' /\ ~ByRequest(r)'
    BY <1>1, <1>2, <1>3, <1>5, <1>11 DEF ByModule, ByRequest, Numbers
  <2>3. /\ ModuleMakes(r)' => c = None
        /\ RequestMakes(r)' => c # None
        /\ ModuleMakes(r)' \/ RequestMakes(r)'
    <3>1. CASE c = None
      <4>1. module'.pc = "init" /\ module'.id = r
        BY <1>1, <1>3, <1>5, <1>11, <3>1, Assumed DEF ControlTypes
      <4>2. ~RequestMakes(r)'
        BY <1>1, <1>2, <1>3, <1>11, <3>1, Assumed DEF RequestMakes, Numbers
      <4> QED
        BY <3>1, <4>1, <4>2 DEF ModuleMakes
    <3>2. CASE c # None
      <4>1. request'.op = "new" /\ request'.id = r /\ UNCHANGED module
        BY <1>3, <1>11, <3>2
      <4>2. ~ModuleMakes(r)'
        BY <1>1, <1>2, <1>4, <1>11, <4>1 DEF ModuleMakes, Numbers
      <4> QED
        BY <3>2, <4>1, <4>2 DEF RequestMakes
    <3> QED
      BY <3>1, <3>2
  <2>4. radio'[r].at = "made" /\ radio'[r].by = c
    BY <1>2, <1>11
  <2> QED
    BY <2>1, <2>2, <2>3, <2>4 DEF InPlace
<1>12. Places'
  BY <1>1, <1>2, <1>10, <1>11 DEF Places
<1> QED
  BY <1>6, <1>7, <1>8, <1>9, <1>12 DEF Core

(* Steps that move radios, one or several.                                 *)
LEMMA Moves ==
  ASSUME Core, RadioTypes', ControlTypes', Numbers', Phase', IsInjective(hwsim_radios)', Ids' = Ids,
         NEW ids, \A r \in Ids : r \notin ids => Unmoved(r), \A r \in Ids : r \in ids => InPlace(r)'
  PROVE  Core'
<1>1. ASSUME NEW r \in Ids PROVE InPlace(r)'
  BY <1>1, StaysInPlace DEF Core, Places
<1> QED
  BY <1>1 DEF Core, Places

(* A radio that was made gets on the list.                                 *)
LEMMA ListControl ==
  ASSUME Core, NEW x \in Ids, Listed(x),
         UNCHANGED <<wmediumd, walk, works, socket, mixed>>,
         \/ ModuleMakes(x) /\ module' = [module EXCEPT !.id = 0] /\ UNCHANGED request
         \/ RequestMakes(x) /\ request' = Idle /\ UNCHANGED module
  PROVE  Core'
<1>1. RadioTypes /\ ControlTypes /\ Places /\ Numbers /\ Phase
  BY DEF Core
<1>2. InPlace(x) /\ radio[x].at = "made"
  BY <1>1 DEF Places, InPlace
<1>3. x \notin ToSet(hwsim_radios) /\ IsInjective(hwsim_radios)
  BY <1>1, <1>2 DEF InPlace, OnList, Places
<1>4. /\ radio' \in Seq(Record) /\ Ids' = Ids
      /\ \A r \in Ids : r # x => radio'[r] = radio[r]
      /\ radio'[x] = [radio[x] EXCEPT !.at = "listed",
                                      !.behind = \E q \in ToSet(hwsim_radios) : q > x]
      /\ hwsim_radios' \in Seq(Ids') /\ IsInjective(hwsim_radios')
      /\ ToSet(hwsim_radios') = ToSet(hwsim_radios) \cup {x}
  BY <1>1, <1>3, ListedIs
<1>5. radio'[x].at = "listed" /\ radio'[x].by = radio[x].by
  <2>1. radio[x] \in Record
    BY <1>1, RadiosAre
  <2> QED
    BY <1>4, <2>1 DEF Record
<1>6. /\ module'.pc = module.pc
      /\ module' \in [pc: {"netlink", "init", "loaded", "failing", "failed", "exiting", "pernet", "gone"},
                      id: Nat, todo: SUBSET Nets]
      /\ (UNCHANGED module /\ request' = Idle /\ RequestMakes(x))
         \/ (module'.id = 0 /\ UNCHANGED request /\ ModuleMakes(x))
  BY <1>1 DEF ControlTypes
<1>7. 0 \notin Ids /\ works \subseteq Ids
  BY <1>1, RadiosAre DEF RadioTypes
<1>8. RadioTypes'
  BY <1>4, <1>7 DEF RadioTypes
<1>9. ControlTypes'
  BY <1>1, <1>6 DEF ControlTypes, Idle
<1>10. Numbers'
  BY <1>1, <1>4, <1>6 DEF Numbers, Idle
<1>11. Phase'
  <2>1. \A r \in Ids : radio'[r].by = radio[r].by
    BY <1>4, <1>5
  <2>2. module.pc \in {"failed", "pernet", "gone"} =>
          \A r \in Ids : radio'[r].by = None => radio'[r].at # "listed"
    <3>1. ModuleMakes(x) \/ radio[x].by # None
      BY <1>2, <1>6 DEF InPlace
    <3> QED
      BY <1>1, <1>4, <1>5, <3>1 DEF Phase, ModuleMakes
  <2> QED
    BY <1>1, <1>4, <1>6, <2>1, <2>2 DEF Phase
<1>12. ASSUME NEW r \in Ids, r \notin {x} PROVE Unmoved(r)
  <2>1. UNCHANGED ByWalk(r) /\ UNCHANGED ByWork(r) /\ (OnList(r)' <=> OnList(r))
    BY <1>4, <1>12 DEF OnList, ByWalk, ByWork
  <2>2. (RequestMakes(r)' <=> RequestMakes(r)) /\ (ByRequest(r)' <=> ByRequest(r))
    BY <1>6, <1>12 DEF RequestMakes, ByRequest, Idle
  <2>3. (ModuleMakes(r)' <=> ModuleMakes(r)) /\ (ByModule(r)' <=> ByModule(r))
    BY <1>6, <1>7, <1>12 DEF ModuleMakes, ByModule
  <2> QED
    BY <1>4, <1>12, <2>1, <2>2, <2>3 DEF Unmoved
<1>13. InPlace(x)'
  <2>1. ~ByModule(x) /\ ~ByRequest(x) /\ ~ByWalk(x) /\ ~ByWork(x) /\ ~(ModuleMakes(x) /\ RequestMakes(x))
    BY <1>2 DEF InPlace
  <2>2. ~ByWalk(x)' /\ ~ByWork(x)'
    BY <2>1 DEF ByWalk, ByWork
  <2>3. ~ByModule(x)' /\ ~ByRequest(x)' /\ ~ModuleMakes(x)' /\ ~RequestMakes(x)'
    BY <1>6, <1>7, <2>1 DEF ByModule, ByRequest, ModuleMakes, RequestMakes, Idle
  <2>4. OnList(x)'
    BY <1>4 DEF OnList
  <2> QED
    BY <1>5, <2>2, <2>3, <2>4 DEF InPlace
<1> QED
  BY ZenonT(40), <1>4, <1>8, <1>9, <1>10, <1>11, <1>12, <1>13, Moves

(* A radio that is made, or has left the list, is deleted.                 *)
LEMMA DeleteControl ==
  ASSUME Core, NEW x \in Ids, del_radio(x),
         UNCHANGED <<hwsim_radios, wmediumd, socket, mixed>>,
         \/ /\ ByModule(x) /\ module' = [module EXCEPT !.id = 0] /\ UNCHANGED <<request, walk, works>>
         \/ /\ ModuleMakes(x) /\ module' = [module EXCEPT !.pc = "failing", !.id = 0]
            /\ UNCHANGED <<request, walk, works>>
         \/ /\ ByRequest(x) \/ RequestMakes(x)
            /\ request' = Idle /\ UNCHANGED <<module, walk, works>>
         \/ /\ ByWalk(x) /\ walk' = [walk EXCEPT !.pc = "resume"] /\ UNCHANGED <<module, request, works>>
         \/ /\ ByWork(x) /\ works' = works \ {x} /\ UNCHANGED <<module, request, walk>>
  PROVE  Core'
<1>1. RadioTypes /\ ControlTypes /\ Places /\ Numbers /\ Phase
  BY DEF Core
<1>2. InPlace(x) /\ radio[x].at # "listed"
  BY <1>1 DEF Places, InPlace
<1>3. /\ radio' \in Seq(Record) /\ Ids' = Ids
      /\ \A r \in Ids : r # x => radio'[r] = radio[r]
      /\ radio'[x].at = "gone" /\ radio'[x].by = radio[x].by
  <2>1. radio[x] \in Record
    BY <1>1, RadiosAre
  <2> QED
    BY <1>1, <2>1, FreedIs, DelRadioIs
<1>4. /\ module' \in [pc: {"netlink", "init", "loaded", "failing", "failed", "exiting", "pernet", "gone"},
                      id: Nat, todo: SUBSET Nets]
      /\ \/ UNCHANGED module
         \/ /\ module'.id = 0 /\ module.id = x /\ module.pc \in {"init", "failing", "exiting"}
            /\ module'.pc = module.pc \/ module'.pc = "failing"
  <2> DEFINE T == [pc: {"netlink", "init", "loaded", "failing", "failed", "exiting", "pernet", "gone"},
                   id: Nat, todo: SUBSET Nets]
  <2>1. module \in T
    BY <1>1 DEF ControlTypes
  <2>2. CASE UNCHANGED module
    BY <2>1, <2>2
  <2>3. CASE ByModule(x) /\ module' = [module EXCEPT !.id = 0]
    BY <2>1, <2>3 DEF ByModule
  <2>4. CASE ModuleMakes(x) /\ module' = [module EXCEPT !.pc = "failing", !.id = 0]
    BY <2>1, <2>4 DEF ModuleMakes
  <2> HIDE DEF T
  <2>5. \/ UNCHANGED module
        \/ ByModule(x) /\ module' = [module EXCEPT !.id = 0]
        \/ ModuleMakes(x) /\ module' = [module EXCEPT !.pc = "failing", !.id = 0]
    OBVIOUS
  <2> QED
    BY <2>2, <2>3, <2>4, <2>5 DEF T
<1>5. /\ walk' \in [pc: {"none", "delete", "resume", "astray"}, net: Nets, data: Nat, tmp: Nat]
      /\ UNCHANGED walk \/ (walk.pc = "delete" /\ walk.data = x /\ walk'.pc = "resume")
  BY <1>1 DEF ControlTypes, ByWalk
<1>6. UNCHANGED request \/ (request' = Idle /\ request.op \in {"new", "del"} /\ request.id = x)
  BY DEF ByRequest, RequestMakes
<1>7. UNCHANGED works \/ works' = works \ {x}
  OBVIOUS
<1>8. 0 \notin Ids /\ works \subseteq Ids /\ hwsim_radios \in Seq(Ids)
  BY <1>1, RadiosAre DEF RadioTypes
<1>9. RadioTypes'
  BY <1>3, <1>7, <1>8 DEF RadioTypes
<1>10. ControlTypes'
  BY <1>1, <1>4, <1>5, <1>6 DEF ControlTypes, Idle
<1>11. Numbers'
  BY <1>1, <1>3, <1>4, <1>5, <1>6 DEF Numbers, Idle
<1>12. Phase'
  <2>1. \A r \in Ids : radio'[r].by = radio[r].by /\ (radio'[r].at = "listed" => radio[r].at = "listed")
    BY <1>3
  <2>2. module'.pc \in {"netlink", "failed", "pernet", "gone"} => UNCHANGED module
    BY <1>4
  <2>3. module'.pc \in {"exiting", "pernet", "gone"} => request' = Idle
    BY <1>1, <1>4, <1>6 DEF Phase
  <2>4. module'.pc = "gone" => walk' = Away
    BY <1>1, <1>5, <2>2 DEF Phase, Away
  <2> QED
    BY <1>1, <1>3, <2>1, <2>2, <2>3, <2>4 DEF Phase
<1>13. ASSUME NEW r \in Ids, r \notin {x} PROVE Unmoved(r)
  <2>1. (OnList(r)' <=> OnList(r)) /\ (ByWork(r)' <=> ByWork(r))
    BY <1>7, <1>13 DEF OnList, ByWork
  <2>2. (RequestMakes(r)' <=> RequestMakes(r)) /\ (ByRequest(r)' <=> ByRequest(r))
    BY <1>6, <1>13 DEF RequestMakes, ByRequest, Idle
  <2>3. (ModuleMakes(r)' <=> ModuleMakes(r)) /\ (ByModule(r)' <=> ByModule(r))
    BY <1>4, <1>8, <1>13 DEF ModuleMakes, ByModule
  <2>4. ByWalk(r)' <=> ByWalk(r)
    BY <1>5, <1>13 DEF ByWalk
  <2> QED
    BY <1>3, <1>13, <2>1, <2>2, <2>3, <2>4 DEF Unmoved
<1>14. InPlace(x)'
  <2>1. /\ ModuleMakes(x) \/ RequestMakes(x) =>
             ~ByModule(x) /\ ~ByRequest(x) /\ ~ByWalk(x) /\ ~ByWork(x) /\ ~(ModuleMakes(x) /\ RequestMakes(x))
        /\ ~(ByModule(x) /\ ByRequest(x)) /\ ~(ByModule(x) /\ ByWalk(x)) /\ ~(ByModule(x) /\ ByWork(x))
        /\ ~(ByRequest(x) /\ ByWalk(x)) /\ ~(ByRequest(x) /\ ByWork(x)) /\ ~(ByWalk(x) /\ ByWork(x))
        /\ ~OnList(x)
    BY <1>2 DEF InPlace
  <2>2. /\ (ModuleMakes(x)' => ModuleMakes(x)) /\ (ByModule(x)' => ByModule(x))
        /\ ModuleMakes(x) \/ ByModule(x) => UNCHANGED module \/ module'.id = 0
    BY <1>4, <1>8 DEF ModuleMakes, ByModule
  <2>3. (RequestMakes(x)' => RequestMakes(x)) /\ (ByRequest(x)' => ByRequest(x))
    BY <1>6 DEF RequestMakes, ByRequest, Idle
  <2>4. (ByWalk(x)' => ByWalk(x)) /\ (ByWork(x)' => ByWork(x)) /\ ~OnList(x)'
    BY <1>5, <1>7, <2>1 DEF ByWalk, ByWork, OnList
  <2>5. module'.id = 0 => ~ModuleMakes(x)' /\ ~ByModule(x)'
    BY <1>8 DEF ModuleMakes, ByModule
  <2>6. request' = Idle => ~RequestMakes(x)' /\ ~ByRequest(x)'
    BY DEF RequestMakes, ByRequest, Idle
  <2>7. walk'.pc = "resume" => ~ByWalk(x)'
    BY DEF ByWalk
  <2>8. works' = works \ {x} => ~ByWork(x)'
    BY DEF ByWork
  <2>9. /\ ~ModuleMakes(x)' /\ ~RequestMakes(x)'
        /\ ~ByModule(x)' /\ ~ByRequest(x)' /\ ~ByWalk(x)' /\ ~ByWork(x)'
    <3>1. CASE ByModule(x) /\ module' = [module EXCEPT !.id = 0]
      BY <1>1, <2>1, <2>2, <2>3, <2>4, <2>5, <3>1 DEF ControlTypes
    <3>2. CASE ModuleMakes(x) /\ module' = [module EXCEPT !.pc = "failing", !.id = 0]
      BY <1>1, <2>1, <2>2, <2>3, <2>4, <2>5, <3>2 DEF ControlTypes
    <3>3. CASE (ByRequest(x) \/ RequestMakes(x)) /\ request' = Idle
      BY <2>1, <2>2, <2>3, <2>4, <2>6, <3>3
    <3>4. CASE ByWalk(x) /\ walk' = [walk EXCEPT !.pc = "resume"]
      BY <1>1, <2>1, <2>2, <2>3, <2>4, <2>7, <3>4 DEF ControlTypes
    <3>5. CASE ByWork(x) /\ works' = works \ {x}
      BY <2>1, <2>2, <2>3, <2>4, <2>8, <3>5
    <3> QED
      BY <3>1, <3>2, <3>3, <3>4, <3>5
  <2> QED
    BY <1>3, <2>4, <2>9 DEF InPlace
<1> QED
  BY <1>1, <1>3, <1>9, <1>10, <1>11, <1>12, <1>13, <1>14, Moves DEF Places

(* What is on the list nobody makes and nobody is about to delete.         *)
LEMMA OnListIsFree ==
  ASSUME Core, NEW r \in ToSet(hwsim_radios)
  PROVE  /\ r \in Ids /\ radio[r].at = "listed"
         /\ ~ModuleMakes(r) /\ ~RequestMakes(r)
         /\ ~ByModule(r) /\ ~ByRequest(r) /\ ~ByWalk(r) /\ ~ByWork(r)
<1>1. r \in Ids
  BY RadiosAre DEF Core
<1>2. InPlace(r)
  BY <1>1 DEF Core, Places
<1> QED
  BY <1>1, <1>2 DEF InPlace, OnList

(* Radios that leave the list, and have one who is to delete them.         *)
Taken(r) ==
  /\ ByModule(r) \/ ByRequest(r) \/ ByWalk(r) \/ ByWork(r)
  /\ ~(ByModule(r) /\ ByRequest(r)) /\ ~(ByModule(r) /\ ByWalk(r)) /\ ~(ByModule(r) /\ ByWork(r))
  /\ ~(ByRequest(r) /\ ByWalk(r)) /\ ~(ByRequest(r) /\ ByWork(r)) /\ ~(ByWalk(r) /\ ByWork(r))

HeldAsBefore(r) ==
  /\ ByModule(r)' <=> ByModule(r)
  /\ ByRequest(r)' <=> ByRequest(r)
  /\ ByWalk(r)' <=> ByWalk(r)
  /\ ByWork(r)' <=> ByWork(r)

MadeAsBefore(r) ==
  /\ ModuleMakes(r)' <=> ModuleMakes(r)
  /\ RequestMakes(r)' <=> RequestMakes(r)

LEMMA TakeControl ==
  ASSUME Core, NEW ids, ids \subseteq ToSet(hwsim_radios), Unlisted(ids),
         ControlTypes', Numbers', works' \subseteq Ids, module'.pc = module.pc,
         module.pc \in {"exiting", "pernet", "gone"} => request' = Idle,
         module.pc = "gone" => walk' = Away,
         \A r \in Ids : MadeAsBefore(r),
         \A r \in Ids : r \notin ids => HeldAsBefore(r),
         \A r \in ids : Taken(r)'
  PROVE  Core'
<1>1. RadioTypes /\ Places /\ Phase /\ IsInjective(hwsim_radios)
  BY DEF Core, Places
<1>2. /\ radio' \in Seq(Record) /\ Ids' = Ids
      /\ \A r \in Ids : IF r \in ids THEN radio'[r] = [radio[r] EXCEPT !.at = "removing"]
                        ELSE radio'[r] = radio[r]
      /\ hwsim_radios' \in Seq(Ids') /\ IsInjective(hwsim_radios')
      /\ ToSet(hwsim_radios') = ToSet(hwsim_radios) \ ids
  BY <1>1, UnlistedIs
<1>3. ASSUME NEW r \in Ids
      PROVE  /\ radio'[r].by = radio[r].by
             /\ radio'[r].at = IF r \in ids THEN "removing" ELSE radio[r].at
  <2>1. radio[r] \in Record
    BY <1>1, RadiosAre
  <2> QED
    BY <1>2, <2>1 DEF Record
<1>4. RadioTypes'
  BY <1>2 DEF RadioTypes
<1>5. Phase'
  <2>1. module.pc = "netlink" => \A r \in Ids' : radio'[r].by # None
    BY <1>1, <1>2, <1>3 DEF Phase
  <2>2. module.pc \in {"failed", "pernet", "gone"} =>
          \A r \in Ids' : radio'[r].by = None => radio'[r].at # "listed"
    BY <1>1, <1>2, <1>3 DEF Phase
  <2> QED
    BY <2>1, <2>2 DEF Phase
<1>6. ASSUME NEW r \in Ids, r \notin ids PROVE Unmoved(r)
  <2>1. OnList(r)' <=> OnList(r)
    BY <1>2, <1>6 DEF OnList
  <2>2. HeldAsBefore(r) /\ MadeAsBefore(r)
    BY <1>6
  <2> QED
    BY <1>3, <1>6, <2>1, <2>2 DEF Unmoved, HeldAsBefore, MadeAsBefore
<1>7. ASSUME NEW r \in Ids, r \in ids PROVE InPlace(r)'
  <2>1. ~OnList(r)'
    BY <1>2, <1>7 DEF OnList
  <2>2. ~ModuleMakes(r) /\ ~RequestMakes(r)
    BY <1>7, OnListIsFree
  <2>3. ~ModuleMakes(r)' /\ ~RequestMakes(r)'
    BY <2>2 DEF MadeAsBefore
  <2>4. radio'[r].at = "removing"
    BY <1>3, <1>7
  <2>5. Taken(r)'
    BY <1>7
  <2> QED
    BY <2>1, <2>3, <2>4, <2>5 DEF InPlace, Taken
<1>8. IsInjective(hwsim_radios)'
  BY <1>2
<1> QED
  BY <1>2, <1>4, <1>5, <1>6, <1>7, <1>8, Moves

LEMMA FreeTakes == ASSUME Core, FreeUnlists PROVE Core'
<1>1. RadioTypes /\ ControlTypes /\ Numbers /\ Phase /\ IsInjective(hwsim_radios)
  BY DEF Core, Places
<1>0. PICK x : x = Head(hwsim_radios)
  OBVIOUS
<1>2. x \in ToSet(hwsim_radios) /\ x \in Ids /\ x \in Nat
  <2>1. hwsim_radios \in Seq(Ids) /\ hwsim_radios # <<>>
    BY <1>1 DEF RadioTypes, FreeUnlists
  <2>2. 1 \in DOMAIN hwsim_radios /\ x = hwsim_radios[1]
    BY <1>0, <1>1, <2>1, RadiosAre, EmptySeq, HeadTailProperties
  <2> QED
    BY <1>1, <2>2, RadiosAre DEF ToSet
<1>3. /\ Unlisted({x}) /\ module' = [module EXCEPT !.id = x]
      /\ UNCHANGED <<wmediumd, request, walk, works, socket, mixed>>
      /\ module.pc \in {"failing", "exiting"} /\ module.id = 0
  BY <1>0 DEF FreeUnlists
<1>4. /\ module'.pc = module.pc /\ module'.id = x
      /\ module' \in [pc: {"netlink", "init", "loaded", "failing", "failed", "exiting", "pernet", "gone"},
                      id: Nat, todo: SUBSET Nets]
  BY <1>1, <1>2, <1>3 DEF ControlTypes
<1>5. Ids' = Ids /\ works' \subseteq Ids /\ 0 \notin Ids
  BY <1>1, <1>3, UnlistedIs, RadiosAre DEF RadioTypes
<1>6. ControlTypes' /\ Numbers'
  BY <1>1, <1>2, <1>3, <1>4, <1>5 DEF ControlTypes, Numbers
<1>7. ASSUME NEW r \in Ids PROVE MadeAsBefore(r)
  BY <1>3, <1>4 DEF MadeAsBefore, ModuleMakes, RequestMakes
<1>8. ASSUME NEW r \in Ids, r \notin {x} PROVE HeldAsBefore(r)
  BY <1>3, <1>4, <1>5, <1>8 DEF HeldAsBefore, ByModule, ByRequest, ByWalk, ByWork
<1>9. Taken(x)'
  <2>1. ~ByRequest(x) /\ ~ByWalk(x) /\ ~ByWork(x)
    BY <1>2, OnListIsFree
  <2>2. ~ByRequest(x)' /\ ~ByWalk(x)' /\ ~ByWork(x)' /\ ByModule(x)'
    BY <1>3, <1>4, <2>1 DEF ByRequest, ByWalk, ByWork, ByModule
  <2> QED
    BY <2>2 DEF Taken
<1>10. /\ module.pc \in {"exiting", "pernet", "gone"} => request' = Idle
       /\ module.pc = "gone" => walk' = Away
  BY <1>1, <1>3 DEF Phase
<1> QED
  BY <1>2, <1>3, <1>4, <1>5, <1>6, <1>7, <1>8, <1>9, <1>10, TakeControl

LEMMA RequestTakes ==
  ASSUME Core, NEW c \in Clients, NEW x \in Ids, del_radio_nl(c, x)
  PROVE  Core'
<1>1. RadioTypes /\ ControlTypes /\ Numbers /\ Phase /\ IsInjective(hwsim_radios)
  BY DEF Core, Places
<1>2. /\ x \in ToSet(hwsim_radios) /\ x \in Nat
      /\ Unlisted({x}) /\ request' = [op |-> "del", by |-> c, id |-> x] /\ request = Idle
      /\ UNCHANGED <<wmediumd, module, walk, works, socket, mixed>>
      /\ module.pc \notin {"exiting", "pernet", "gone"}
  BY <1>1, RadiosAre DEF del_radio_nl, Asks, Family
<1>3. Ids' = Ids /\ works' \subseteq Ids
  BY <1>1, <1>2, UnlistedIs DEF RadioTypes
<1>4. ControlTypes' /\ Numbers'
  BY <1>1, <1>2, <1>3 DEF ControlTypes, Numbers
<1>5. ASSUME NEW r \in Ids PROVE MadeAsBefore(r)
  BY <1>2 DEF MadeAsBefore, ModuleMakes, RequestMakes, Idle
<1>6. ASSUME NEW r \in Ids, r \notin {x} PROVE HeldAsBefore(r)
  BY <1>2, <1>6 DEF HeldAsBefore, ByModule, ByRequest, ByWalk, ByWork, Idle
<1>7. Taken(x)'
  <2>1. ~ByModule(x) /\ ~ByWalk(x) /\ ~ByWork(x)
    BY <1>2, OnListIsFree
  <2>2. ByRequest(x)' /\ ~ByWalk(x)' /\ ~ByWork(x)' /\ ~ByModule(x)'
    BY <1>2, <2>1 DEF ByRequest, ByWalk, ByWork, ByModule
  <2> QED
    BY <2>2 DEF Taken
<1>8. module'.pc = module.pc
  BY <1>2
<1> QED
  BY <1>2, <1>3, <1>4, <1>5, <1>6, <1>7, <1>8, TakeControl

(* A program ends: the works of its radios are queued.                     *)
LEMMA NotifierTakes ==
  ASSUME Core, NEW c \in Clients, NEW namesake \in BOOLEAN, netlink_notify(c, namesake)
  PROVE  Core'
<1>1. RadioTypes /\ ControlTypes /\ Numbers /\ Phase /\ IsInjective(hwsim_radios)
  BY DEF Core, Places
<1>0. PICK ids : ids = Owned(c)
  OBVIOUS
<1> DEFINE medium == wmediumd[NetOf(c)] = c
<1>2. /\ ids \subseteq ToSet(hwsim_radios) /\ Unlisted(ids) /\ works' = works \cup ids
      /\ UNCHANGED <<module, request, walk>>
      /\ socket' = [socket EXCEPT ![c] = [open |-> namesake, notifier |-> medium]]
      /\ wmediumd' = [wmediumd EXCEPT ![NetOf(c)] = IF medium THEN None ELSE wmediumd[NetOf(c)]]
      /\ mixed' \in {mixed, mixed \cup {NetOf(c)}}
  BY <1>0 DEF netlink_notify, remove_user_radios, Owned
<1>3. /\ Ids' = Ids /\ works' \subseteq Ids /\ ids \subseteq Ids
  BY <1>1, <1>2, UnlistedIs, RadiosAre DEF RadioTypes
<1>4. medium \in BOOLEAN
  OBVIOUS
<1> HIDE DEF medium
<1>5. ControlTypes' /\ Numbers'
  <2>1. wmediumd' \in [Nets -> Clients \cup {None}]
    BY <1>1, <1>2, Assumed DEF ControlTypes
  <2>2. socket' \in [Clients -> [open: BOOLEAN, notifier: BOOLEAN]]
    <3>1. [open |-> namesake, notifier |-> medium] \in [open: BOOLEAN, notifier: BOOLEAN]
      BY <1>4
    <3> QED
      BY <1>1, <1>2, <3>1 DEF ControlTypes
  <2>3. mixed' \subseteq Nets
    BY <1>1, <1>2, Assumed DEF ControlTypes
  <2> QED
    BY <1>1, <1>2, <1>3, <2>1, <2>2, <2>3 DEF ControlTypes, Numbers
<1>6. ASSUME NEW r \in Ids PROVE MadeAsBefore(r)
  BY <1>2 DEF MadeAsBefore, ModuleMakes, RequestMakes
<1>7. ASSUME NEW r \in Ids, r \notin ids PROVE HeldAsBefore(r)
  BY <1>2, <1>7 DEF HeldAsBefore, ByModule, ByRequest, ByWalk, ByWork
<1>8. ASSUME NEW r \in ids PROVE Taken(r)'
  <2>1. ~ByModule(r) /\ ~ByWalk(r) /\ ~ByRequest(r)
    BY <1>2, OnListIsFree
  <2>2. ByWork(r)' /\ ~ByWalk(r)' /\ ~ByRequest(r)' /\ ~ByModule(r)'
    BY <1>2, <2>1 DEF ByRequest, ByWalk, ByWork, ByModule
  <2> QED
    BY <2>2 DEF Taken
<1>9. /\ module'.pc = module.pc
      /\ module.pc \in {"exiting", "pernet", "gone"} => request' = Idle
      /\ module.pc = "gone" => walk' = Away
  BY <1>1, <1>2 DEF Phase
<1> QED
  BY <1>2, <1>3, <1>5, <1>6, <1>7, <1>8, <1>9, TakeControl

LEMMA LeastOf ==
  ASSUME NEW T \in SUBSET Nat, T # {}
  PROVE  \E x \in T : \A y \in T : ~(y < x)
<1> DEFINE Less == {ss \in Nat \X Nat : ss[1] < ss[2]}
<1>1. IsWellFoundedOn(Less, Nat)
  BY NatLessThanWellFounded DEF OpToRel
<1> HIDE DEF Less
<1>2. \E x \in T : \A y \in T : <<y, x>> \notin Less
  BY <1>1, WFMin
<1> QED
  BY <1>2 DEF Less

LEMMA FromIs ==
  ASSUME RadioTypes, NEW r, NEW n, From(r, n) # {}
  PROVE  Min(From(r, n)) \in From(r, n)
<1> DEFINE T == From(r, n)
<1>1. T \in SUBSET Nat /\ T # {}
  BY RadiosAre DEF From
<1> HIDE DEF T
<1>2. PICK x \in T : \A y \in T : ~(y < x)
  BY <1>1, LeastOf
<1>3. \A y \in T : x <= y
  BY <1>1, <1>2
<1>4. Min(T) \in T
  BY <1>2, <1>3 DEF Min
<1> QED
  BY <1>4 DEF T

(* The walk over the list goes on: to a radio it takes, or it is over.     *)
LEMMA WalkTakes ==
  ASSUME Core, NEW n \in Nets, NEW b \in Nat, WalkOn(b, n), walk.pc # "delete",
         UNCHANGED <<wmediumd, request, works, socket, mixed>>,
         module' \in [pc: {"netlink", "init", "loaded", "failing", "failed", "exiting", "pernet", "gone"},
                      id: Nat, todo: SUBSET Nets],
         module'.pc = module.pc, module'.id = module.id, module.pc # "gone"
  PROVE  Core'
<1>1. RadioTypes /\ ControlTypes /\ Numbers /\ Phase /\ IsInjective(hwsim_radios)
  BY DEF Core, Places
<1>2. ASSUME NEW r PROVE MadeAsBefore(r) /\ (ByModule(r)' <=> ByModule(r))
                         /\ (ByRequest(r)' <=> ByRequest(r)) /\ (ByWork(r)' <=> ByWork(r))
  BY DEF MadeAsBefore, ModuleMakes, RequestMakes, ByModule, ByRequest, ByWork
<1>3. CASE b = 0 \/ From(b, n) = {}
  <2>1. UNCHANGED <<radio, hwsim_radios, works>> /\ walk' = Away
    BY <1>3 DEF WalkOn
  <2>2. Ids' = Ids
    BY <2>1 DEF Ids
  <2>3. ControlTypes' /\ Numbers' /\ Phase'
    <3>1. walk' \in [pc: {"none", "delete", "resume", "astray"}, net: Nets, data: Nat, tmp: Nat]
          /\ walk'.pc # "delete"
      BY <2>1, Assumed DEF Away
    <3>2. ControlTypes'
      BY <1>1, <3>1 DEF ControlTypes
    <3>3. Numbers'
      BY <1>1, <2>2, <3>1 DEF Numbers
    <3>4. Phase'
      BY <1>1, <2>1, <2>2 DEF Phase
    <3> QED
      BY <3>2, <3>3, <3>4
  <2>4. ASSUME NEW r \in Ids PROVE Unmoved(r)
    <3>1. ByWalk(r)' <=> ByWalk(r)
      BY <2>1 DEF ByWalk, Away
    <3>2. UNCHANGED OnList(r)
      BY <2>1 DEF OnList
    <3> QED
      BY <1>2, <2>1, <3>1, <3>2 DEF Unmoved, MadeAsBefore
  <2> QED
    BY <2>1, <2>3, <2>4, ControlOnly
<1>4. CASE ~(b = 0 \/ From(b, n) = {})
  <2> DEFINE k == Min(From(b, n))
  <2>1. k \in DOMAIN hwsim_radios
    BY <1>1, <1>4, FromIs DEF From
  <2>2. /\ walk' = [pc |-> "delete", net |-> n, data |-> Entry(k), tmp |-> Entry(k + 1)]
        /\ Unlisted({Entry(k)})
    BY <1>4 DEF WalkOn
  <2> HIDE DEF k
  <2>3. PICK x : x = Entry(k)
    OBVIOUS
  <2>4. PICK t : t = Entry(k + 1)
    OBVIOUS
  <2>5. x \in ToSet(hwsim_radios) /\ x \in Ids /\ x \in Nat
    BY <1>1, <2>1, <2>3, RadiosAre DEF Entry, ToSet
  <2>6. t \in Nat
    BY <1>1, <2>4, RadiosAre DEF Entry
  <2>7. walk' = [pc |-> "delete", net |-> n, data |-> x, tmp |-> t] /\ Unlisted({x})
    BY <2>2, <2>3, <2>4
  <2>8. Ids' = Ids /\ works' \subseteq Ids
    BY <1>1, <2>7, UnlistedIs DEF RadioTypes
  <2>9. ControlTypes'
    BY <1>1, <2>5, <2>6, <2>7 DEF ControlTypes
  <2>10. Numbers'
    BY <1>1, <2>5, <2>7, <2>8 DEF Numbers
  <2>11. ASSUME NEW r \in Ids, r \notin {x} PROVE HeldAsBefore(r)
    <3>1. ~ByWalk(r) /\ ~ByWalk(r)'
      BY <2>7, <2>11 DEF ByWalk
    <3> QED
      BY <1>2, <3>1 DEF HeldAsBefore
  <2>12. Taken(x)'
    <3>1. ~ByModule(x) /\ ~ByRequest(x) /\ ~ByWork(x)
      BY <2>5, OnListIsFree
    <3>2. ByWalk(x)' /\ ~ByModule(x)' /\ ~ByRequest(x)' /\ ~ByWork(x)'
      BY <1>2, <2>7, <3>1 DEF ByWalk
    <3> QED
      BY <3>2 DEF Taken
  <2>13. module.pc \in {"exiting", "pernet", "gone"} => request' = Idle
    BY <1>1 DEF Phase
  <2>14. \A r \in Ids : MadeAsBefore(r)
    BY <1>2
  <2> QED
    BY <2>5, <2>7, <2>8, <2>9, <2>10, <2>11, <2>12, <2>13, <2>14, TakeControl
<1> QED
  BY <1>3, <1>4

LEMMA WalkControl == ASSUME Core, Walk PROVE Core'
<1>1. RadioTypes /\ ControlTypes /\ Numbers /\ Phase
  BY DEF Core
<1> DEFINE T == [pc: {"netlink", "init", "loaded", "failing", "failed", "exiting", "pernet", "gone"},
                 id: Nat, todo: SUBSET Nets]
<1>2. module \in T
  BY <1>1 DEF ControlTypes
<1>3. ASSUME NEW n \in Nets, WalkBegins(n) PROVE Core'
  <2>1. walk.pc # "delete" /\ UNCHANGED <<wmediumd, request, works, socket, mixed>>
        /\ WalkOn(Entry(1), n)
    BY <1>3 DEF WalkBegins, Away
  <2>2. module.pc # "gone" /\ (UNCHANGED module \/ module' = [module EXCEPT !.todo = module.todo \ {n}])
    <3>1. CASE module.pc = "pernet" /\ module' = [module EXCEPT !.todo = @ \ {n}]
      BY <3>1
    <3>2. CASE module.pc \notin {"pernet", "gone"} /\ UNCHANGED module
      BY <3>2
    <3>3. \/ module.pc = "pernet" /\ module' = [module EXCEPT !.todo = @ \ {n}]
          \/ module.pc \notin {"pernet", "gone"} /\ UNCHANGED module
      BY <1>3 DEF WalkBegins
    <3> QED
      BY <3>1, <3>2, <3>3
  <2>3. module' \in T /\ module'.pc = module.pc /\ module'.id = module.id
    BY <1>2, <2>2
  <2>4. PICK b : b = Entry(1)
    OBVIOUS
  <2>5. b \in Nat
    BY <1>1, <2>4, RadiosAre DEF Entry
  <2>6. WalkOn(b, n)
    BY <2>1, <2>4
  <2> QED
    BY <2>1, <2>2, <2>3, <2>5, <2>6, WalkTakes
<1>4. ASSUME WalkDeletes PROVE Core'
  <2>1. PICK x : x = walk.data
    OBVIOUS
  <2>2. /\ x \in Ids /\ ByWalk(x) /\ del_radio(x) /\ walk' = [walk EXCEPT !.pc = "resume"]
        /\ UNCHANGED <<module, request, works>>
        /\ UNCHANGED <<hwsim_radios, wmediumd, socket, mixed>>
    BY <1>1, <1>4, <2>1 DEF WalkDeletes, Numbers, ByWalk
  <2> QED
    BY <2>2, DeleteControl
<1>5. ASSUME WalkResumes PROVE Core'
  <2>1. walk.pc = "resume" /\ UNCHANGED <<wmediumd, module, request, works, socket, mixed>>
    BY <1>5 DEF WalkResumes
  <2>2. walk.tmp \in Nat /\ walk.net \in Nets /\ module.pc # "gone"
    BY <1>1, <2>1 DEF ControlTypes, Phase, Away
  <2>3. CASE WalkOn(walk.tmp, walk.net)
    <3>1. PICK b, n : b = walk.tmp /\ n = walk.net
      OBVIOUS
    <3>2. WalkOn(b, n) /\ b \in Nat /\ n \in Nets
      BY <2>2, <2>3, <3>1
    <3> QED
      BY <1>2, <2>1, <2>2, <3>2, WalkTakes
  <2>4. CASE walk' = [walk EXCEPT !.pc = "astray"] /\ UNCHANGED <<radio, hwsim_radios>>
    <3>1. walk' \in [pc: {"none", "delete", "resume", "astray"}, net: Nets, data: Nat, tmp: Nat]
          /\ walk'.pc = "astray"
      BY <1>1, <2>4 DEF ControlTypes
    <3>2. Ids' = Ids
      BY <2>4 DEF Ids
    <3>3. ControlTypes' /\ Numbers' /\ Phase'
      <4>1. ControlTypes'
        BY <1>1, <2>1, <3>1 DEF ControlTypes
      <4>2. Numbers'
        BY <1>1, <2>1, <3>1, <3>2 DEF Numbers
      <4>3. Phase'
        BY <1>1, <2>1, <2>2, <2>4, <3>2 DEF Phase
      <4> QED
        BY <4>1, <4>2, <4>3
    <3>4. ASSUME NEW r \in Ids PROVE Unmoved(r)
      BY <2>1, <2>4, <3>1
        DEF Unmoved, OnList, ModuleMakes, RequestMakes, ByModule, ByRequest, ByWalk, ByWork
    <3> QED
      BY <2>1, <2>4, <3>3, <3>4, ControlOnly
  <2> QED
    BY <1>5, <2>3, <2>4 DEF WalkResumes
<1> QED
  BY <1>3, <1>4, <1>5 DEF Walk

----------------------------------------------------------------------------
LEMMA KeepsCore == Core /\ [Next]_vars => Core'
<1> SUFFICES ASSUME Core, [Next]_vars PROVE Core'
  OBVIOUS
<1>1. RadioTypes /\ ControlTypes /\ Places /\ Numbers /\ Phase
  BY DEF Core
<1>2. ASSUME Module PROVE Core'
  <2>1. CASE ClassCreated \/ Loaded \/ exit_netlink \/ FreeEnds \/ Unloaded
    BY <2>1, ModuleControl
  <2>2. CASE InitMakes
    <3>1. /\ NewRadio(init_net, None, channels, FALSE)
          /\ UNCHANGED <<hwsim_radios, wmediumd, walk, works, socket, mixed>>
          /\ module.pc = "init" /\ module.id = 0
          /\ module' = [module EXCEPT !.id = Len(radio) + 1] /\ UNCHANGED request
      BY <2>2 DEF InitMakes
    <3>2. init_net \in Nets /\ None \in Clients \cup {None} /\ channels \in Channels \cup {channels}
          /\ FALSE \in BOOLEAN
      BY Assumed
    <3> QED
      BY <3>1, <3>2, MakeControl
  <2>3. CASE InitLists
    <3>1. PICK x : x = module.id
      OBVIOUS
    <3>2. /\ x \in Ids /\ Listed(x) /\ ModuleMakes(x) /\ module' = [module EXCEPT !.id = 0]
          /\ UNCHANGED request /\ UNCHANGED <<wmediumd, walk, works, socket, mixed>>
      BY <1>1, <2>3, <3>1 DEF InitLists, Numbers, ModuleMakes
    <3> QED
      BY <3>2, ListControl
  <2>4. CASE InitFails
    <3>1. CASE module.pc = "netlink"
      BY <2>4, <3>1, ModuleControl
    <3>2. CASE module.pc # "netlink"
      <4>1. PICK x : x = module.id
        OBVIOUS
      <4>2. /\ module.pc = "init" /\ module' = [module EXCEPT !.pc = "failing", !.id = 0]
            /\ radio' = [r \in Ids |-> IF r = x THEN Freed(radio[r]) ELSE radio[r]]
            /\ UNCHANGED <<hwsim_radios, wmediumd, socket, mixed>>
            /\ UNCHANGED <<request, walk, works>>
        BY <2>4, <3>2, <4>1 DEF InitFails
      <4>3. radio \in [Ids -> Record]
        <5>1. radio = [r \in Ids |-> radio[r]]
          BY <1>1 DEF RadioTypes, Ids
        <5> QED
          BY <1>1, <5>1, RadiosAre
      <4>4. CASE x # 0
        <5>1. x \in Ids /\ ModuleMakes(x)
          BY <1>1, <4>1, <4>2, <4>4 DEF Numbers, ModuleMakes
        <5>2. del_radio(x)
          BY <4>2, <4>3, <5>1 DEF del_radio
        <5> QED
          BY <4>2, <5>1, <5>2, DeleteControl
      <4>5. CASE x = 0
        <5>1. 0 \notin Ids
          BY <1>1, RadiosAre
        <5>2. UNCHANGED radio
          BY <4>2, <4>3, <4>5, <5>1
        <5>3. /\ module' \in [pc: {"netlink", "init", "loaded", "failing", "failed", "exiting", "pernet", "gone"},
                              id: Nat, todo: SUBSET Nets]
              /\ module'.pc = "failing" /\ module'.id = 0 /\ module.id = 0
          BY <1>1, <4>1, <4>2, <4>5 DEF ControlTypes
        <5>4. Ids' = Ids
          BY <5>2 DEF Ids
        <5>5. ControlTypes' /\ Numbers' /\ Phase'
          BY <1>1, <4>2, <5>2, <5>3, <5>4 DEF ControlTypes, Numbers, Phase
        <5>6. ASSUME NEW r \in Ids PROVE Unmoved(r)
          BY <4>2, <5>1, <5>2, <5>3
            DEF Unmoved, OnList, ModuleMakes, RequestMakes, ByModule, ByRequest, ByWalk, ByWork
        <5> QED
          BY <4>2, <5>2, <5>5, <5>6, ControlOnly
      <4> QED
        BY <4>4, <4>5
    <3> QED
      BY <3>1, <3>2
  <2>5. CASE FreeUnlists
    BY <2>5, FreeTakes
  <2>6. CASE FreeDeletes
    <3>1. PICK x : x = module.id
      OBVIOUS
    <3>2. /\ x \in Ids /\ del_radio(x) /\ ByModule(x) /\ module' = [module EXCEPT !.id = 0]
          /\ UNCHANGED <<request, walk, works>> /\ UNCHANGED <<hwsim_radios, wmediumd, socket, mixed>>
      BY <1>1, <2>6, <3>1 DEF FreeDeletes, Numbers, ByModule
    <3> QED
      BY <3>2, DeleteControl
  <2> QED
    BY <1>2, <2>1, <2>2, <2>3, <2>4, <2>5, <2>6 DEF Module
<1>3. ASSUME Served PROVE Core'
  <2>1. CASE RegisterSets \/ RegisterTells
    BY <2>1, MediumControl
  <2>2. PICK x : x = request.id
    OBVIOUS
  <2>3. CASE NewListed
    <3>1. /\ x \in Ids /\ Listed(x) /\ RequestMakes(x) /\ request' = Idle
          /\ UNCHANGED module /\ UNCHANGED <<wmediumd, walk, works, socket, mixed>>
      BY <1>1, <2>2, <2>3 DEF NewListed, Numbers, RequestMakes
    <3> QED
      BY <3>1, ListControl
  <2>4. CASE NewFails \/ DelDeletes
    <3>1. /\ x \in Ids /\ del_radio(x) /\ (ByRequest(x) \/ RequestMakes(x)) /\ request' = Idle
          /\ UNCHANGED <<module, walk, works>> /\ UNCHANGED <<hwsim_radios, wmediumd, socket, mixed>>
      BY <1>1, <2>2, <2>4 DEF NewFails, DelDeletes, Numbers, RequestMakes, ByRequest
    <3> QED
      BY <3>1, DeleteControl
  <2> QED
    BY <1>3, <2>1, <2>3, <2>4 DEF Served
<1>4. ASSUME NEW c \in Clients, new_radio_nl(c) PROVE Core'
  <2>1. PICK chans \in Channels, close \in BOOLEAN : NewRadio(NetOf(c), c, chans, close)
    BY <1>4 DEF new_radio_nl
  <2>2. /\ UNCHANGED <<hwsim_radios, wmediumd, walk, works, socket, mixed>>
        /\ request = Idle /\ module.pc \notin {"netlink", "exiting", "pernet", "gone"}
        /\ request' = [op |-> "new", by |-> c, id |-> Len(radio) + 1] /\ UNCHANGED module
    BY <1>4 DEF new_radio_nl, Asks, Family
  <2>3. NetOf(c) \in Nets /\ c \in Clients \cup {None} /\ chans \in Channels \cup {channels}
    BY Assumed
  <2> QED
    BY <2>1, <2>2, <2>3, MakeControl
<1>5. ASSUME NEW c \in Listers, DumpBegins(c) \/ DumpMessage(c) PROVE Core'
  <2>1. UNCHANGED <<radio, hwsim_radios, wmediumd, module, request, walk, works, socket, mixed>>
    BY <1>5 DEF DumpBegins, DumpMessage
  <2> QED
    BY <2>1, MediumControl
<1>6. ASSUME NEW r \in Ids, destroy_radio(r) PROVE Core'
  <2>1. /\ del_radio(r) /\ ByWork(r) /\ works' = works \ {r}
        /\ UNCHANGED <<module, request, walk>> /\ UNCHANGED <<hwsim_radios, wmediumd, socket, mixed>>
    BY <1>6 DEF destroy_radio, ByWork
  <2>2. PICK x : x = r
    OBVIOUS
  <2> QED
    BY <2>1, DeleteControl
<1>7. ASSUME UNCHANGED vars PROVE Core'
  <2>1. UNCHANGED <<radio, hwsim_radios, wmediumd, module, request, walk, works, socket, mixed>>
    BY <1>7 DEF vars
  <2> QED
    BY <2>1, MediumControl
<1>8. ASSUME NEW c \in Clients, register_received_nl(c) \/ NotifierTells(c) PROVE Core'
  BY <1>8, MediumControl
<1>9. ASSUME NEW c \in Clients, NEW namesake \in BOOLEAN, netlink_notify(c, namesake) PROVE Core'
  BY <1>9, NotifierTakes
<1>10. ASSUME NEW c \in Clients, NEW r \in Ids, del_radio_nl(c, r) PROVE Core'
  BY <1>10, RequestTakes
<1> QED
  BY <1>2, <1>3, <1>4, <1>5, <1>6, <1>7, <1>8, <1>9, <1>10, WalkControl DEF Next

LEMMA CoreHolds == Spec => []Core
<1>1. Init => Core
  BY InitCore
<1>2. Core /\ [Next]_vars => Core'
  BY KeepsCore
<1> QED
  BY <1>1, <1>2, PTL DEF Spec

LEMMA HeldByOne ==
  ASSUME NEW r, InPlace(r)
  PROVE  Cardinality(Holders(r)) = IF radio[r].at = "removing" THEN 1 ELSE 0
<1>1. \A h : h \in Holders(r) <=>
             \/ h = "module" /\ ByModule(r)
             \/ h = "request" /\ ByRequest(r)
             \/ h = "walk" /\ ByWalk(r)
             \/ h = "work" /\ ByWork(r)
  BY DEF Holders, ByModule, ByRequest, ByWalk, ByWork
<1>2. CASE radio[r].at # "removing"
  <2>1. ~ByModule(r) /\ ~ByRequest(r) /\ ~ByWalk(r) /\ ~ByWork(r)
    BY <1>2 DEF InPlace
  <2>2. Holders(r) = {}
    BY <1>1, <2>1
  <2> QED
    BY <1>2, <2>2, FS_EmptySet
<1>3. CASE radio[r].at = "removing"
  <2>1. \E h : Holders(r) = {h}
    <3>1. CASE ByModule(r)
      <4>1. ~ByRequest(r) /\ ~ByWalk(r) /\ ~ByWork(r)
        BY <3>1 DEF InPlace
      <4>2. Holders(r) = {"module"}
        BY <1>1, <3>1, <4>1
      <4> QED
        BY <4>2
    <3>2. CASE ByRequest(r)
      <4>1. ~ByModule(r) /\ ~ByWalk(r) /\ ~ByWork(r)
        BY <3>2 DEF InPlace
      <4>2. Holders(r) = {"request"}
        BY <1>1, <3>2, <4>1
      <4> QED
        BY <4>2
    <3>3. CASE ByWalk(r)
      <4>1. ~ByModule(r) /\ ~ByRequest(r) /\ ~ByWork(r)
        BY <3>3 DEF InPlace
      <4>2. Holders(r) = {"walk"}
        BY <1>1, <3>3, <4>1
      <4> QED
        BY <4>2
    <3>4. CASE ByWork(r)
      <4>1. ~ByModule(r) /\ ~ByRequest(r) /\ ~ByWalk(r)
        BY <3>4 DEF InPlace
      <4>2. Holders(r) = {"work"}
        BY <1>1, <3>4, <4>1
      <4> QED
        BY <4>2
    <3>5. ByModule(r) \/ ByRequest(r) \/ ByWalk(r) \/ ByWork(r)
      BY <1>3 DEF InPlace
    <3> QED
      BY <3>1, <3>2, <3>3, <3>4, <3>5
  <2> QED
    BY <1>3, <2>1, FS_Singleton
<1> QED
  BY <1>2, <1>3

(* A radio is on the list once or not at all, and when it has left the     *)
(* list exactly one of the module, a request, a walk over a namespace and  *)
(* a work is to delete it, so it is deleted once; and the module leaves    *)
(* none of its own behind but to works that are queued (hwsim_radios and   *)
(* mac80211_hwsim_del_radio).                                              *)
THEOREM RadiosDeletedOnce == Spec => []RadiosAccounted
<1>1. Core => RadiosAccounted
  <2> SUFFICES ASSUME Core PROVE RadiosAccounted
    OBVIOUS
  <2>1. RadioTypes /\ Places /\ Phase
    BY DEF Core
  <2>2. ASSUME NEW r \in Ids
        PROVE  /\ r \in ToSet(hwsim_radios) <=> radio[r].at = "listed"
               /\ Cardinality(Holders(r)) = IF radio[r].at = "removing" THEN 1 ELSE 0
               /\ module.pc = "gone" /\ radio[r].at # "gone" => r \in works \/ radio[r].by # None
    <3>1. InPlace(r)
      BY <2>1 DEF Places
    <3>2. r \in ToSet(hwsim_radios) <=> radio[r].at = "listed"
      BY <3>1 DEF InPlace, OnList
    <3>3. ASSUME module.pc = "gone", radio[r].at # "gone", radio[r].by = None PROVE r \in works
      <4>1. request = Idle /\ walk = Away /\ radio[r].at # "listed"
        BY <2>1, <3>3 DEF Phase
      <4>2. ~ModuleMakes(r) /\ ~RequestMakes(r) /\ ~ByModule(r) /\ ~ByRequest(r) /\ ~ByWalk(r)
        BY <3>3, <4>1 DEF ModuleMakes, RequestMakes, ByModule, ByRequest, ByWalk, Idle, Away
      <4>3. radio[r].at = "removing"
        <5>1. radio[r] \in Record
          BY <2>1, RadiosAre
        <5>2. radio[r].at # "made"
          BY <3>1, <4>2 DEF InPlace
        <5> QED
          BY <3>3, <4>1, <5>1, <5>2 DEF Record
      <4> QED
        BY <3>1, <4>2, <4>3 DEF InPlace, ByWork
    <3> QED
      BY <3>1, <3>2, <3>3, HeldByOne
  <2> QED
    BY <2>1, <2>2 DEF RadiosAccounted, Places
<1> QED
  BY <1>1, CoreHolds, PTL

----------------------------------------------------------------------------
(***************************************************************************)
(* The medium of a radio is the one that is registered, and never the      *)
(* medium of a radio with several channels that a program made.            *)
(***************************************************************************)
Single(r) == radio[r].channels = 1 \/ radio[r].by = None

Told(r) ==
  \/ radio[r].wmediumd \in {None, wmediumd[radio[r].netgroup]}
  \/ radio[r].netgroup \in mixed
  \/ \E c \in Clients : NetOf(c) = radio[r].netgroup /\ socket[c].notifier

Unheard == \A r \in Ids : /\ radio[r].wmediumd # None => Single(r)
                          /\ radio[r].at = "made" => radio[r].wmediumd = None

Registering ==
  /\ request.op \in {"register", "registered"} => \A r \in ToSet(hwsim_radios) : Single(r)
  /\ request.op = "registered" =>
       wmediumd[NetOf(request.by)] = request.by \/ NetOf(request.by) \in mixed

Mediums == Unheard /\ Registering /\ \A r \in ToSet(hwsim_radios) : Told(r)

(* Steps that tell nothing to anybody: radios keep their medium or lose    *)
(* it, and what gets on the list was made and has none.                    *)
RadioQuiet(r) ==
  /\ radio'[r].netgroup = radio[r].netgroup /\ radio'[r].by = radio[r].by
  /\ radio'[r].channels \in {radio[r].channels, 1}
  /\ radio'[r].wmediumd \in {radio[r].wmediumd, None}
  /\ radio'[r].at = "made" => radio[r].at = "made"

NewQuiet(r) == radio[r].at = "made" /\ radio[r].wmediumd = None

Quiet ==
  /\ UNCHANGED <<wmediumd, mixed, socket>>
  /\ Ids \subseteq Ids' /\ \A r \in Ids : RadioQuiet(r)
  /\ \A r \in Ids' : r \in Ids \/ NewQuiet(r)'
  /\ \A r \in ToSet(hwsim_radios') : r \in ToSet(hwsim_radios) \/ (r \in Ids /\ radio[r].at = "made")
  /\ request'.op \in {"register", "registered"} =>
       /\ UNCHANGED request
       /\ \A r \in ToSet(hwsim_radios') : r \in ToSet(hwsim_radios) \/ radio'[r].by = None

LEMMA QuietKeeps == ASSUME Core, Mediums, Quiet PROVE Mediums'
<1>1. /\ UNCHANGED <<wmediumd, mixed, socket>> /\ Ids \subseteq Ids' /\ \A r \in Ids : RadioQuiet(r)
      /\ \A r \in Ids' : r \in Ids \/ NewQuiet(r)'
      /\ \A r \in ToSet(hwsim_radios') : r \in ToSet(hwsim_radios) \/ (r \in Ids /\ radio[r].at = "made")
      /\ request'.op \in {"register", "registered"} =>
           /\ UNCHANGED request
           /\ \A r \in ToSet(hwsim_radios') : r \in ToSet(hwsim_radios) \/ radio'[r].by = None
  BY DEF Quiet
<1>2. ToSet(hwsim_radios) \subseteq Ids
  BY RadiosAre DEF Core
<1>3. ASSUME NEW r \in Ids, Single(r) PROVE Single(r)'
  <2>1. radio'[r].by = radio[r].by /\ radio'[r].channels \in {radio[r].channels, 1}
    BY <1>1 DEF RadioQuiet
  <2> QED
    BY <1>3, <2>1 DEF Single
<1>4. Unheard'
  <2> SUFFICES ASSUME NEW r \in Ids'
               PROVE  /\ radio'[r].wmediumd # None => Single(r)'
                      /\ radio'[r].at = "made" => radio'[r].wmediumd = None
    BY DEF Unheard
  <2>1. CASE r \in Ids
    <3>1. RadioQuiet(r)
      BY <1>1, <2>1
    <3>2. /\ radio[r].wmediumd # None => Single(r)
          /\ radio[r].at = "made" => radio[r].wmediumd = None
      BY <2>1 DEF Mediums, Unheard
    <3>3. radio'[r].wmediumd # None => Single(r)'
      <4>1. radio'[r].wmediumd \in {radio[r].wmediumd, None}
        BY <3>1 DEF RadioQuiet
      <4> QED
        BY <1>3, <2>1, <3>2, <4>1
    <3> QED
      BY <3>1, <3>2, <3>3 DEF RadioQuiet
  <2>2. CASE r \notin Ids
    BY <1>1, <2>2 DEF NewQuiet
  <2> QED
    BY <2>1, <2>2
<1>5. Registering'
  <2>1. ASSUME request'.op \in {"register", "registered"}, NEW r \in ToSet(hwsim_radios')
        PROVE  Single(r)'
    <3>1. UNCHANGED request /\ (r \in ToSet(hwsim_radios) \/ radio'[r].by = None)
      BY <1>1, <2>1
    <3>2. CASE radio'[r].by = None
      BY <3>2 DEF Single
    <3>3. CASE r \in ToSet(hwsim_radios)
      <4>1. Single(r)
        BY <2>1, <3>1, <3>3 DEF Mediums, Registering
      <4> QED
        BY <1>2, <1>3, <3>3, <4>1
    <3> QED
      BY <3>1, <3>2, <3>3
  <2>2. request'.op = "registered" =>
          wmediumd'[NetOf(request'.by)] = request'.by \/ NetOf(request'.by) \in mixed'
    BY <1>1 DEF Mediums, Registering
  <2> QED
    BY <2>1, <2>2 DEF Registering
<1>6. ASSUME NEW r \in ToSet(hwsim_radios') PROVE Told(r)'
  <2>1. CASE r \in ToSet(hwsim_radios)
    <3>1. RadioQuiet(r) /\ Told(r)
      BY <1>1, <1>2, <2>1 DEF Mediums
    <3>2. radio'[r].netgroup = radio[r].netgroup /\ radio'[r].wmediumd \in {radio[r].wmediumd, None}
      BY <3>1 DEF RadioQuiet
    <3> QED
      BY <1>1, <3>1, <3>2 DEF Told
  <2>2. CASE r \in Ids /\ radio[r].at = "made"
    <3>1. radio[r].wmediumd = None /\ RadioQuiet(r)
      BY <1>1, <2>2 DEF Mediums, Unheard
    <3> QED
      BY <3>1 DEF RadioQuiet, Told
  <2> QED
    BY <1>1, <2>1, <2>2
<1> QED
  BY <1>4, <1>5, <1>6 DEF Mediums

LEMMA QuietNothing ==
  ASSUME Core, UNCHANGED <<radio, hwsim_radios, wmediumd, socket, mixed>>,
         request' = request \/ request'.op \notin {"register", "registered"}
  PROVE  Quiet
<1>1. Ids' = Ids /\ ToSet(hwsim_radios') = ToSet(hwsim_radios)
  BY DEF Ids
<1>2. ASSUME NEW r \in Ids PROVE RadioQuiet(r)
  BY DEF RadioQuiet
<1> QED
  BY <1>1, <1>2 DEF Quiet

LEMMA QuietMake ==
  ASSUME Core, NEW c \in Clients \cup {None}, NEW n \in Nets,
         NEW chans \in Channels \cup {channels}, NEW close \in BOOLEAN,
         NewRadio(n, c, chans, close), UNCHANGED <<hwsim_radios, wmediumd, socket, mixed>>,
         request' = request \/ request'.op \notin {"register", "registered"}
  PROVE  Quiet
<1>1. RadioTypes
  BY DEF Core
<1> DEFINE x == Len(radio) + 1
<1>2. UNCHANGED hwsim_radios
  OBVIOUS
<1>3. /\ Ids' = Ids \cup {x} /\ \A r \in Ids : radio'[r] = radio[r]
      /\ radio'[x] = [at |-> "made", netgroup |-> n, channels |-> chans, by |-> c,
                      destroy_on_close |-> close, wmediumd |-> None, behind |-> FALSE]
  BY <1>1, <1>2, NewRadioIs
<1>4. radio'[x].at = "made" /\ radio'[x].wmediumd = None
  BY <1>3
<1> HIDE DEF x
<1>5. ASSUME NEW r \in Ids PROVE RadioQuiet(r)
  BY <1>3 DEF RadioQuiet
<1>6. ASSUME NEW r \in Ids' PROVE r \in Ids \/ NewQuiet(r)'
  BY <1>3, <1>4 DEF NewQuiet
<1> QED
  BY <1>3, <1>5, <1>6 DEF Quiet

LEMMA QuietList ==
  ASSUME Core, NEW x \in Ids, Listed(x), radio[x].at = "made",
         UNCHANGED <<wmediumd, socket, mixed>>,
         \/ request' = request /\ radio[x].by = None
         \/ request'.op \notin {"register", "registered"}
  PROVE  Quiet
<1>1. RadioTypes /\ IsInjective(hwsim_radios) /\ InPlace(x)
  BY DEF Core, Places
<1>2. x \notin ToSet(hwsim_radios)
  BY <1>1 DEF InPlace, OnList
<1>3. /\ Ids' = Ids
      /\ \A r \in Ids : r # x => radio'[r] = radio[r]
      /\ radio'[x] = [radio[x] EXCEPT !.at = "listed",
                                      !.behind = \E q \in ToSet(hwsim_radios) : q > x]
      /\ ToSet(hwsim_radios') = ToSet(hwsim_radios) \cup {x}
  BY <1>1, <1>2, ListedIs
<1>4. /\ radio'[x].at = "listed" /\ radio'[x].netgroup = radio[x].netgroup
      /\ radio'[x].by = radio[x].by /\ radio'[x].channels = radio[x].channels
      /\ radio'[x].wmediumd = radio[x].wmediumd
  <2>1. radio[x] \in Record
    BY <1>1, RadiosAre
  <2> QED
    BY <1>3, <2>1 DEF Record
<1>5. ASSUME NEW r \in Ids PROVE RadioQuiet(r)
  BY <1>3, <1>4 DEF RadioQuiet
<1> QED
  BY <1>3, <1>4, <1>5 DEF Quiet

LEMMA QuietDelete ==
  ASSUME Core, NEW x \in Ids, del_radio(x), UNCHANGED <<hwsim_radios, wmediumd, socket, mixed>>,
         request' = request \/ request'.op \notin {"register", "registered"}
  PROVE  Quiet
<1>1. RadioTypes
  BY DEF Core
<1>2. /\ Ids' = Ids /\ \A r \in Ids : r # x => radio'[r] = radio[r]
      /\ radio'[x] = Freed(radio[x])
  BY <1>1, DelRadioIs
<1>3. /\ radio'[x].at = "gone" /\ radio'[x].netgroup = radio[x].netgroup
      /\ radio'[x].by = radio[x].by /\ radio'[x].channels = 1
      /\ radio'[x].wmediumd = None
  BY <1>1, <1>2, RadiosAre, FreedIs
<1>4. ASSUME NEW r \in Ids PROVE RadioQuiet(r)
  BY <1>2, <1>3 DEF RadioQuiet
<1> QED
  BY <1>2, <1>3, <1>4 DEF Quiet

LEMMA QuietUnlist ==
  ASSUME Core, NEW ids, Unlisted(ids)
  PROVE  /\ Ids' = Ids /\ \A r \in Ids : RadioQuiet(r)
         /\ ToSet(hwsim_radios') \subseteq ToSet(hwsim_radios)
<1>1. RadioTypes /\ IsInjective(hwsim_radios)
  BY DEF Core, Places
<1>2. /\ Ids' = Ids
      /\ \A r \in Ids : IF r \in ids THEN radio'[r] = [radio[r] EXCEPT !.at = "removing"]
                        ELSE radio'[r] = radio[r]
      /\ ToSet(hwsim_radios') = ToSet(hwsim_radios) \ ids
  BY <1>1, UnlistedIs
<1>3. ASSUME NEW r \in Ids PROVE RadioQuiet(r)
  <2>1. radio[r] \in Record
    BY <1>1, RadiosAre
  <2>2. CASE r \in ids
    BY <1>2, <2>1, <2>2 DEF Record, RadioQuiet
  <2>3. CASE r \notin ids
    BY <1>2, <2>3 DEF RadioQuiet
  <2> QED
    BY <2>2, <2>3
<1> QED
  BY <1>2, <1>3

LEMMA QuietTake ==
  ASSUME Core, NEW ids, Unlisted(ids), UNCHANGED <<wmediumd, socket, mixed>>,
         request' = request \/ request'.op \notin {"register", "registered"}
  PROVE  Quiet
<1>1. /\ Ids' = Ids /\ \A r \in Ids : RadioQuiet(r)
      /\ ToSet(hwsim_radios') \subseteq ToSet(hwsim_radios)
  BY QuietUnlist
<1> QED
  BY <1>1 DEF Quiet

LEMMA InitFailsIs == ASSUME Core, InitFails PROVE UNCHANGED radio \/ \E x \in Ids : del_radio(x)
<1>1. RadioTypes /\ Numbers
  BY DEF Core
<1>2. CASE module.pc = "init"
  <2>1. PICK x : x = module.id
    OBVIOUS
  <2>2. radio' = [r \in Ids |-> IF r = x THEN Freed(radio[r]) ELSE radio[r]]
    BY <1>2, <2>1 DEF InitFails
  <2>3. radio \in [Ids -> Record]
    <3>1. radio = [r \in Ids |-> radio[r]]
      BY <1>1 DEF RadioTypes, Ids
    <3> QED
      BY <1>1, <3>1, RadiosAre
  <2>4. CASE x \in Ids
    BY <2>2, <2>3, <2>4 DEF del_radio
  <2>5. CASE x \notin Ids
    BY <2>2, <2>3, <2>5
  <2> QED
    BY <2>4, <2>5
<1>3. CASE module.pc # "init"
  BY <1>3 DEF InitFails
<1> QED
  BY <1>2, <1>3

LEMMA WalkOnIs ==
  ASSUME NEW b, NEW n, WalkOn(b, n)
  PROVE  UNCHANGED <<radio, hwsim_radios, dump>> \/ \E x : Unlisted({x})
<1>1. CASE b = 0 \/ From(b, n) = {}
  BY <1>1 DEF WalkOn
<1>2. CASE ~(b = 0 \/ From(b, n) = {})
  <2>1. PICK x : x = Entry(Min(From(b, n)))
    OBVIOUS
  <2>2. Unlisted({Entry(Min(From(b, n)))})
    BY <1>2 DEF WalkOn
  <2> QED
    BY <2>1, <2>2
<1> QED
  BY <1>1, <1>2

LEMMA WalkIs ==
  ASSUME Core, Walk
  PROVE  /\ UNCHANGED <<wmediumd, request, works, socket, mixed>>
         /\ \/ UNCHANGED <<radio, hwsim_radios, dump>>
            \/ \E x : Unlisted({x})
            \/ UNCHANGED <<hwsim_radios, dump>> /\ \E x \in Ids : del_radio(x)
<1>1. ASSUME NEW n \in Nets, WalkBegins(n)
      PROVE  /\ UNCHANGED <<wmediumd, request, works, socket, mixed>>
             /\ UNCHANGED <<radio, hwsim_radios, dump>> \/ \E x : Unlisted({x})
  <2>1. UNCHANGED <<wmediumd, request, works, socket, mixed>> /\ WalkOn(Entry(1), n)
    BY <1>1 DEF WalkBegins
  <2>2. PICK b : b = Entry(1)
    OBVIOUS
  <2>3. WalkOn(b, n)
    BY <2>1, <2>2
  <2> QED
    BY <2>1, <2>3, WalkOnIs
<1>2. ASSUME WalkDeletes
      PROVE  /\ UNCHANGED <<wmediumd, request, works, socket, mixed>>
             /\ UNCHANGED <<hwsim_radios, dump>> /\ \E x \in Ids : del_radio(x)
  <2>1. walk.data \in Ids /\ del_radio(walk.data)
    BY <1>2 DEF WalkDeletes, Core, Numbers
  <2> QED
    BY <1>2, <2>1 DEF WalkDeletes
<1>3. ASSUME WalkResumes
      PROVE  /\ UNCHANGED <<wmediumd, request, works, socket, mixed>>
             /\ UNCHANGED <<radio, hwsim_radios, dump>> \/ \E x : Unlisted({x})
  <2>1. CASE WalkOn(walk.tmp, walk.net)
    <3>1. PICK b, n : b = walk.tmp /\ n = walk.net
      OBVIOUS
    <3>2. WalkOn(b, n)
      BY <2>1, <3>1
    <3> QED
      BY <1>3, <3>2, WalkOnIs DEF WalkResumes
  <2>2. CASE UNCHANGED <<radio, hwsim_radios, dump>>
    BY <1>3, <2>2 DEF WalkResumes
  <2> QED
    BY <1>3, <2>1, <2>2 DEF WalkResumes
<1> QED
  BY <1>1, <1>2, <1>3 DEF Walk

LEMMA ModuleQuiet == ASSUME Core, Module PROVE Quiet
<1>1. RadioTypes /\ ControlTypes /\ Places /\ Numbers
  BY DEF Core
<1>2. UNCHANGED <<wmediumd, request, socket, mixed>>
  BY DEF Module, ClassCreated, InitMakes, InitLists, Loaded, InitFails, exit_netlink,
         FreeUnlists, FreeDeletes, FreeEnds, Unloaded
<1>3. CASE ClassCreated \/ Loaded \/ exit_netlink \/ FreeEnds \/ Unloaded
  <2>1. UNCHANGED <<radio, hwsim_radios, wmediumd, socket, mixed>>
    BY <1>3 DEF ClassCreated, Loaded, exit_netlink, FreeEnds, Unloaded
  <2> QED
    BY <1>2, <2>1, QuietNothing
<1>4. CASE InitMakes
  <2>1. NewRadio(init_net, None, channels, FALSE) /\ UNCHANGED <<hwsim_radios, wmediumd, socket, mixed>>
    BY <1>4 DEF InitMakes
  <2>2. init_net \in Nets /\ None \in Clients \cup {None} /\ channels \in Channels \cup {channels}
        /\ FALSE \in BOOLEAN
    BY Assumed
  <2> QED
    BY <1>2, <2>1, <2>2, QuietMake
<1>5. CASE InitLists
  <2>1. PICK x : x = module.id
    OBVIOUS
  <2>2. x \in Ids /\ Listed(x) /\ ModuleMakes(x)
    BY <1>1, <1>5, <2>1 DEF InitLists, Numbers, ModuleMakes
  <2>3. radio[x].at = "made" /\ radio[x].by = None
    BY <1>1, <2>2 DEF Places, InPlace
  <2> QED
    BY <1>2, <2>2, <2>3, QuietList
<1>6. CASE InitFails
  <2>1. UNCHANGED <<hwsim_radios, wmediumd, socket, mixed>>
    BY <1>6 DEF InitFails
  <2>2. CASE UNCHANGED radio
    BY <1>2, <2>1, <2>2, QuietNothing
  <2>3. CASE \E x \in Ids : del_radio(x)
    BY <1>2, <2>1, <2>3, QuietDelete
  <2> QED
    BY <1>6, <2>2, <2>3, InitFailsIs
<1>7. CASE FreeUnlists
  <2>1. PICK x : x = Head(hwsim_radios)
    OBVIOUS
  <2>2. Unlisted({x})
    BY <1>7, <2>1 DEF FreeUnlists
  <2> QED
    BY <1>2, <2>2, QuietTake
<1>8. CASE FreeDeletes
  <2>1. PICK x : x = module.id
    OBVIOUS
  <2>2. x \in Ids /\ del_radio(x) /\ UNCHANGED hwsim_radios
    BY <1>1, <1>8, <2>1 DEF FreeDeletes, Numbers
  <2> QED
    BY <1>2, <2>2, QuietDelete
<1> QED
  BY <1>3, <1>4, <1>5, <1>6, <1>7, <1>8 DEF Module

LEMMA RequestQuiet ==
  ASSUME Core, \/ NewListed \/ NewFails \/ DelDeletes
               \/ \E c \in Clients : new_radio_nl(c) \/ \E r \in Ids : del_radio_nl(c, r)
  PROVE  Quiet
<1>1. RadioTypes /\ ControlTypes /\ Places /\ Numbers
  BY DEF Core
<1>2. UNCHANGED <<wmediumd, socket, mixed>> /\ request'.op \notin {"register", "registered"}
  <2>1. CASE NewListed \/ NewFails \/ DelDeletes
    BY <2>1 DEF NewListed, NewFails, DelDeletes, Idle
  <2>2. ASSUME NEW c \in Clients, new_radio_nl(c)
        PROVE  UNCHANGED <<wmediumd, socket, mixed>> /\ request'.op = "new"
    BY <2>2 DEF new_radio_nl
  <2>3. ASSUME NEW c \in Clients, NEW r \in Ids, del_radio_nl(c, r)
        PROVE  UNCHANGED <<wmediumd, socket, mixed>> /\ request'.op = "del"
    BY <2>3 DEF del_radio_nl
  <2> QED
    BY <2>1, <2>2, <2>3
<1>3. CASE NewListed
  <2>1. PICK x : x = request.id
    OBVIOUS
  <2>2. x \in Ids /\ Listed(x) /\ RequestMakes(x)
    BY <1>1, <1>3, <2>1 DEF NewListed, Numbers, RequestMakes
  <2>3. radio[x].at = "made"
    BY <1>1, <2>2 DEF Places, InPlace
  <2> QED
    BY <1>2, <2>2, <2>3, QuietList
<1>4. CASE NewFails \/ DelDeletes
  <2>1. PICK x : x = request.id
    OBVIOUS
  <2>2. x \in Ids /\ del_radio(x) /\ UNCHANGED hwsim_radios
    BY <1>1, <1>4, <2>1 DEF NewFails, DelDeletes, Numbers
  <2> QED
    BY <1>2, <2>2, QuietDelete
<1>5. ASSUME NEW c \in Clients, new_radio_nl(c) PROVE Quiet
  <2>1. PICK chans \in Channels, close \in BOOLEAN : NewRadio(NetOf(c), c, chans, close)
    BY <1>5 DEF new_radio_nl
  <2>2. NetOf(c) \in Nets /\ c \in Clients \cup {None} /\ chans \in Channels \cup {channels}
        /\ UNCHANGED <<hwsim_radios, wmediumd, socket, mixed>>
    BY <1>5, Assumed DEF new_radio_nl
  <2> QED
    BY <1>2, <2>1, <2>2, QuietMake
<1>6. ASSUME NEW c \in Clients, NEW r \in Ids, del_radio_nl(c, r) PROVE Quiet
  <2>1. PICK x : x = r
    OBVIOUS
  <2>2. Unlisted({x})
    BY <1>6, <2>1 DEF del_radio_nl
  <2> QED
    BY <1>2, <2>2, QuietTake
<1> QED
  BY <1>3, <1>4, <1>5, <1>6

LEMMA WalkQuiet == ASSUME Core, Walk PROVE Quiet
<1>1. /\ UNCHANGED <<wmediumd, request, works, socket, mixed>>
      /\ \/ UNCHANGED <<radio, hwsim_radios, dump>>
         \/ \E x : Unlisted({x})
         \/ UNCHANGED <<hwsim_radios, dump>> /\ \E x \in Ids : del_radio(x)
  BY WalkIs
<1>2. CASE UNCHANGED <<radio, hwsim_radios, dump>>
  BY <1>1, <1>2, QuietNothing
<1>3. CASE \E x : Unlisted({x})
  BY <1>1, <1>3, QuietTake
<1>4. CASE UNCHANGED hwsim_radios /\ \E x \in Ids : del_radio(x)
  BY <1>1, <1>4, QuietDelete
<1> QED
  BY <1>1, <1>2, <1>3, <1>4

LEMMA RestQuiet ==
  ASSUME Core, \/ \E c \in Listers : DumpBegins(c) \/ DumpMessage(c)
               \/ \E r \in Ids : destroy_radio(r)
               \/ UNCHANGED vars
  PROVE  Quiet
<1>1. CASE \E c \in Listers : DumpBegins(c) \/ DumpMessage(c)
  <2>1. UNCHANGED <<radio, hwsim_radios, wmediumd, socket, mixed>> /\ request' = request
    BY <1>1 DEF DumpBegins, DumpMessage
  <2> QED
    BY <2>1, QuietNothing
<1>2. CASE \E r \in Ids : destroy_radio(r)
  <2>1. UNCHANGED <<hwsim_radios, wmediumd, socket, mixed>> /\ request' = request
        /\ \E x \in Ids : del_radio(x)
    BY <1>2 DEF destroy_radio
  <2> QED
    BY <2>1, QuietDelete
<1>3. CASE UNCHANGED vars
  <2>1. UNCHANGED <<radio, hwsim_radios, wmediumd, socket, mixed>> /\ request' = request
    BY <1>3 DEF vars
  <2> QED
    BY <2>1, QuietNothing
<1> QED
  BY <1>1, <1>2, <1>3

(* A program registers, and the radios of its netgroup are told.           *)
LEMMA RegisterKeeps ==
  ASSUME Core, Mediums, (\E c \in Clients : register_received_nl(c)) \/ RegisterSets
  PROVE  Mediums'
<1>1. ControlTypes /\ Numbers /\ RadioTypes
  BY DEF Core
<1>2. UNCHANGED <<radio, hwsim_radios, socket, mixed>>
  BY DEF register_received_nl, RegisterSets
<1>3. Ids' = Ids /\ ToSet(hwsim_radios') = ToSet(hwsim_radios) /\ ToSet(hwsim_radios) \subseteq Ids
  BY <1>1, <1>2, RadiosAre DEF Ids
<1>4. Unheard'
  BY <1>2, <1>3 DEF Mediums, Unheard, Single
<1>5. CASE \E c \in Clients : register_received_nl(c)
  <2>1. request'.op = "register" /\ UNCHANGED wmediumd
        /\ \A r \in ToSet(hwsim_radios) : radio[r].channels = 1
    BY <1>5 DEF register_received_nl
  <2>2. Registering'
    BY <1>2, <1>3, <2>1 DEF Registering, Single
  <2>3. \A r \in ToSet(hwsim_radios') : Told(r)'
    BY <1>2, <1>3, <2>1 DEF Mediums, Told
  <2> QED
    BY <1>4, <2>2, <2>3 DEF Mediums
<1>6. CASE RegisterSets
  <2> DEFINE n == NetOf(request.by)
  <2>1. request.op = "register" /\ request.by \in Clients /\ n \in Nets
    BY <1>1, <1>6, Assumed DEF RegisterSets, Numbers
  <2>2. CASE wmediumd[n] # None
    <3>1. request' = Idle /\ UNCHANGED wmediumd
      BY <1>6, <2>2 DEF RegisterSets
    <3>2. Registering'
      BY <3>1 DEF Registering, Idle
    <3>3. \A r \in ToSet(hwsim_radios') : Told(r)'
      BY <1>2, <1>3, <3>1 DEF Mediums, Told
    <3> QED
      BY <1>4, <3>2, <3>3 DEF Mediums
  <2>3. CASE wmediumd[n] = None
    <3>1. /\ request' = [request EXCEPT !.op = "registered"]
          /\ wmediumd' = [wmediumd EXCEPT ![n] = request.by]
      BY <1>6, <2>3 DEF RegisterSets
    <3>2. request'.by = request.by /\ request'.op = "registered"
      BY <1>1, <3>1 DEF ControlTypes
    <3>3. wmediumd'[n] = request.by /\ \A m \in Nets : wmediumd[m] # None => wmediumd'[m] = wmediumd[m]
      BY <1>1, <2>1, <2>3, <3>1 DEF ControlTypes
    <3>4. Registering'
      <4>1. \A r \in ToSet(hwsim_radios) : Single(r)
        BY <2>1 DEF Mediums, Registering
      <4>2. \A r \in ToSet(hwsim_radios) : Single(r)'
        BY <1>2, <4>1 DEF Single
      <4>3. wmediumd'[NetOf(request'.by)] = request'.by
        BY <3>2, <3>3
      <4> QED
        BY <1>3, <4>2, <4>3 DEF Registering
    <3>5. ASSUME NEW r \in ToSet(hwsim_radios) PROVE Told(r)'
      <4>1. Told(r) /\ radio[r].netgroup \in Nets
        <5>1. radio[r] \in Record
          BY <1>1, <1>3, RadiosAre
        <5> QED
          BY <5>1 DEF Mediums, Record
      <4>2. CASE radio[r].wmediumd \in {None, wmediumd[radio[r].netgroup]}
        <5>1. radio[r].wmediumd \in {None, wmediumd'[radio[r].netgroup]}
          BY <3>3, <4>1, <4>2
        <5> QED
          BY <1>2, <5>1 DEF Told
      <4>3. CASE \/ radio[r].netgroup \in mixed
                 \/ \E c \in Clients : NetOf(c) = radio[r].netgroup /\ socket[c].notifier
        BY <1>2, <4>3 DEF Told
      <4> QED
        BY <4>1, <4>2, <4>3 DEF Told
    <3> QED
      BY <1>3, <1>4, <3>4, <3>5 DEF Mediums
  <2> QED
    BY <2>2, <2>3
<1> QED
  BY <1>5, <1>6

(* What becomes of radios that are told.                                   *)
LEMMA ToldRadios ==
  ASSUME Core, NEW n, NEW c \in Clients \cup {None}, register_wmediumd(n, c), UNCHANGED hwsim_radios
  PROVE  /\ Ids' = Ids /\ ToSet(hwsim_radios') = ToSet(hwsim_radios)
         /\ \A r \in Ids :
              /\ radio'[r].at = radio[r].at /\ radio'[r].by = radio[r].by
              /\ radio'[r].channels = radio[r].channels /\ radio'[r].netgroup = radio[r].netgroup
              /\ radio'[r].wmediumd = IF r \in ToSet(hwsim_radios) /\ radio[r].netgroup = n THEN c
                                      ELSE radio[r].wmediumd
<1>1. RadioTypes
  BY DEF Core
<1>2. /\ Ids' = Ids
      /\ \A r \in Ids :
           IF r \in ToSet(hwsim_radios) /\ radio[r].netgroup = n
           THEN radio'[r] = [radio[r] EXCEPT !.wmediumd = c]
           ELSE radio'[r] = radio[r]
  BY <1>1, RegisterIs
<1>3. ASSUME NEW r \in Ids
      PROVE  /\ radio'[r].at = radio[r].at /\ radio'[r].by = radio[r].by
             /\ radio'[r].channels = radio[r].channels /\ radio'[r].netgroup = radio[r].netgroup
             /\ radio'[r].wmediumd = IF r \in ToSet(hwsim_radios) /\ radio[r].netgroup = n THEN c
                                     ELSE radio[r].wmediumd
  <2>1. radio[r] \in Record
    BY <1>1, RadiosAre
  <2> QED
    BY <1>2, <2>1 DEF Record
<1> QED
  BY <1>2, <1>3

LEMMA TellsKeeps == ASSUME Core, Mediums, RegisterTells PROVE Mediums'
<1>1. ControlTypes /\ Numbers /\ RadioTypes /\ Places
  BY DEF Core
<1>2. PICK c, n : c = request.by /\ n = NetOf(request.by)
  OBVIOUS
<1>3. /\ request.op = "registered" /\ request.by = c /\ c \in Clients /\ n = NetOf(c)
      /\ register_wmediumd(n, c) /\ request' = Idle
      /\ UNCHANGED <<hwsim_radios, wmediumd, socket, mixed>>
  BY <1>1, <1>2 DEF RegisterTells, Numbers
<1>4. /\ Ids' = Ids /\ ToSet(hwsim_radios') = ToSet(hwsim_radios)
      /\ \A r \in Ids :
           /\ radio'[r].at = radio[r].at /\ radio'[r].by = radio[r].by
           /\ radio'[r].channels = radio[r].channels /\ radio'[r].netgroup = radio[r].netgroup
           /\ radio'[r].wmediumd = IF r \in ToSet(hwsim_radios) /\ radio[r].netgroup = n THEN c
                                   ELSE radio[r].wmediumd
  BY <1>3, ToldRadios
<1>5. ToSet(hwsim_radios) \subseteq Ids
  BY <1>1, RadiosAre
<1>6. /\ \A r \in ToSet(hwsim_radios) : Single(r)
      /\ wmediumd[n] = c \/ n \in mixed
  BY <1>3 DEF Mediums, Registering
<1>7. Unheard'
  <2>1. ASSUME NEW r \in Ids
        PROVE  /\ radio'[r].wmediumd # None => Single(r)'
               /\ radio'[r].at = "made" => radio'[r].wmediumd = None
    <3>1. Single(r)' <=> Single(r)
      BY <1>4 DEF Single
    <3>2. r \in ToSet(hwsim_radios) => Single(r) /\ radio[r].at # "made"
      BY <1>1, <1>6 DEF Places, InPlace, OnList
    <3>3. /\ radio[r].wmediumd # None => Single(r)
          /\ radio[r].at = "made" => radio[r].wmediumd = None
      BY DEF Mediums, Unheard
    <3> QED
      BY <1>4, <3>1, <3>2, <3>3
  <2> QED
    BY <1>4, <2>1 DEF Unheard
<1>8. Registering'
  BY <1>3 DEF Registering, Idle
<1>9. ASSUME NEW r \in ToSet(hwsim_radios) PROVE Told(r)'
  <2>1. Told(r) /\ r \in Ids
    BY <1>5 DEF Mediums
  <2>2. radio'[r].netgroup = radio[r].netgroup
    BY <1>4, <2>1
  <2>3. CASE radio[r].netgroup = n
    <3>1. radio'[r].wmediumd = c
      BY <1>4, <2>1, <2>3
    <3> QED
      BY <1>3, <1>6, <2>2, <2>3, <3>1 DEF Told
  <2>4. CASE radio[r].netgroup # n
    <3>1. radio'[r].wmediumd = radio[r].wmediumd
      BY <1>4, <2>1, <2>4
    <3> QED
      BY <1>3, <2>1, <2>2, <3>1 DEF Told
  <2> QED
    BY <2>3, <2>4
<1> QED
  BY <1>4, <1>7, <1>8, <1>9 DEF Mediums

LEMMA NotifierTellsKeeps ==
  ASSUME Core, Mediums, NEW c \in Clients, NotifierTells(c)
  PROVE  Mediums'
<1>1. ControlTypes /\ RadioTypes
  BY DEF Core
<1>2. PICK n : n = NetOf(c)
  OBVIOUS
<1>3. /\ register_wmediumd(n, None) /\ socket' = [socket EXCEPT ![c].notifier = FALSE]
      /\ UNCHANGED <<hwsim_radios, wmediumd, request, mixed>>
  BY <1>2 DEF NotifierTells
<1>4. /\ Ids' = Ids /\ ToSet(hwsim_radios') = ToSet(hwsim_radios)
      /\ \A r \in Ids :
           /\ radio'[r].at = radio[r].at /\ radio'[r].by = radio[r].by
           /\ radio'[r].channels = radio[r].channels /\ radio'[r].netgroup = radio[r].netgroup
           /\ radio'[r].wmediumd = IF r \in ToSet(hwsim_radios) /\ radio[r].netgroup = n THEN None
                                   ELSE radio[r].wmediumd
  BY <1>3, ToldRadios
<1>5. ToSet(hwsim_radios) \subseteq Ids
  BY <1>1, RadiosAre
<1>6. ASSUME NEW r \in Ids PROVE Single(r)' <=> Single(r)
  BY <1>4 DEF Single
<1>7. Unheard'
  <2>1. \A r \in Ids : /\ radio[r].wmediumd # None => Single(r)
                       /\ radio[r].at = "made" => radio[r].wmediumd = None
    BY DEF Mediums, Unheard
  <2> QED
    BY <1>4, <1>6, <2>1 DEF Unheard
<1>8. Registering'
  <2>1. Registering
    BY DEF Mediums
  <2> QED
    BY <1>3, <1>4, <1>5, <1>6, <2>1 DEF Registering
<1>9. \A d \in Clients : d # c => socket'[d] = socket[d]
  BY <1>1, <1>3 DEF ControlTypes
<1>10. ASSUME NEW r \in ToSet(hwsim_radios) PROVE Told(r)'
  <2>1. Told(r) /\ r \in Ids
    BY <1>5 DEF Mediums
  <2>2. radio'[r].netgroup = radio[r].netgroup
    BY <1>4, <2>1
  <2>3. CASE radio[r].netgroup = n
    <3>1. radio'[r].wmediumd = None
      BY <1>4, <2>1, <2>3
    <3> QED
      BY <3>1 DEF Told
  <2>4. CASE radio[r].netgroup # n
    <3>1. radio'[r].wmediumd = radio[r].wmediumd
      BY <1>4, <2>1, <2>4
    <3>2. ASSUME NEW d \in Clients, NetOf(d) = radio[r].netgroup PROVE socket'[d] = socket[d]
      BY <1>2, <1>9, <2>4, <3>2
    <3> QED
      BY <1>3, <2>1, <2>2, <3>1, <3>2 DEF Told
  <2> QED
    BY <2>3, <2>4
<1> QED
  BY <1>4, <1>7, <1>8, <1>10 DEF Mediums

LEMMA NotifyKeeps ==
  ASSUME Core, Mediums, NEW c \in Clients, NEW namesake \in BOOLEAN, netlink_notify(c, namesake)
  PROVE  Mediums'
<1>1. ControlTypes /\ RadioTypes /\ Numbers
  BY DEF Core
<1>2. PICK n, medium, ids : n = NetOf(c) /\ medium = (wmediumd[NetOf(c)] = c) /\ ids = Owned(c)
  OBVIOUS
<1>3. /\ Unlisted(ids) /\ n = NetOf(c) /\ n \in Nets
      /\ (medium <=> wmediumd[n] = c) /\ ~socket[c].notifier
      /\ socket' = [socket EXCEPT ![c] = [open |-> namesake, notifier |-> medium]]
      /\ wmediumd' = [wmediumd EXCEPT ![n] = IF medium THEN None ELSE wmediumd[n]]
      /\ mixed' = IF medium /\ request.op = "registered" /\ request.by = c THEN mixed \cup {n}
                  ELSE mixed
      /\ UNCHANGED request
  BY <1>2, Assumed DEF netlink_notify, remove_user_radios
<1>4. /\ Ids' = Ids /\ \A r \in Ids : RadioQuiet(r)
      /\ ToSet(hwsim_radios') \subseteq ToSet(hwsim_radios)
  BY <1>3, QuietUnlist
<1>5. ToSet(hwsim_radios) \subseteq Ids
  BY <1>1, RadiosAre
<1>6. ASSUME NEW r \in Ids, Single(r) PROVE Single(r)'
  <2>1. radio'[r].by = radio[r].by /\ radio'[r].channels \in {radio[r].channels, 1}
    BY <1>4 DEF RadioQuiet
  <2> QED
    BY <1>6, <2>1 DEF Single
<1>7. Unheard'
  <2> SUFFICES ASSUME NEW r \in Ids
               PROVE  /\ radio'[r].wmediumd # None => Single(r)'
                      /\ radio'[r].at = "made" => radio'[r].wmediumd = None
    BY <1>4 DEF Unheard
  <2>1. /\ radio'[r].wmediumd \in {radio[r].wmediumd, None}
        /\ radio'[r].at = "made" => radio[r].at = "made"
    BY <1>4 DEF RadioQuiet
  <2>2. /\ radio[r].wmediumd # None => Single(r)
        /\ radio[r].at = "made" => radio[r].wmediumd = None
    BY DEF Mediums, Unheard
  <2> QED
    BY <1>6, <2>1, <2>2
<1>8. /\ \A m \in Nets : wmediumd'[m] = IF m = n /\ medium THEN None ELSE wmediumd[m]
      /\ mixed \subseteq mixed'
  BY <1>1, <1>3 DEF ControlTypes
<1>9. Registering'
  <2>1. Registering
    BY DEF Mediums
  <2>2. request'.op \in {"register", "registered"} => \A r \in ToSet(hwsim_radios') : Single(r)'
    <3>1. request.op \in {"register", "registered"} => \A r \in ToSet(hwsim_radios) : Single(r)
      BY <2>1 DEF Registering
    <3> QED
      BY <1>3, <1>4, <1>5, <1>6, <3>1
  <2>3. ASSUME request.op = "registered"
        PROVE  wmediumd'[NetOf(request.by)] = request.by \/ NetOf(request.by) \in mixed'
    <3>1. NetOf(request.by) \in Nets
      BY <1>1, <2>3, Assumed DEF Numbers
    <3>2. wmediumd[NetOf(request.by)] = request.by \/ NetOf(request.by) \in mixed
      BY <2>1, <2>3 DEF Registering
    <3>3. CASE medium /\ request.by = c
      <4>1. mixed' = mixed \cup {n} /\ NetOf(request.by) = n
        BY <1>3, <2>3, <3>3
      <4> QED
        BY <4>1
    <3>4. CASE ~medium
      BY <1>8, <3>1, <3>2, <3>4
    <3>5. CASE medium /\ request.by # c
      <4>1. wmediumd[n] = c
        BY <1>3, <3>5
      <4>2. CASE NetOf(request.by) = n
        BY <1>8, <3>2, <3>5, <4>1, <4>2
      <4>3. CASE NetOf(request.by) # n
        BY <1>8, <3>1, <3>2, <4>3
      <4> QED
        BY <4>2, <4>3
    <3> QED
      BY <3>3, <3>4, <3>5
  <2> QED
    BY <1>3, <2>2, <2>3 DEF Registering
<1>10. /\ \A d \in Clients : d # c => socket'[d] = socket[d]
       /\ socket'[c].notifier = medium
  BY <1>1, <1>3 DEF ControlTypes
<1>11. ASSUME NEW r \in ToSet(hwsim_radios') PROVE Told(r)'
  <2>1. r \in ToSet(hwsim_radios) /\ Told(r) /\ r \in Ids
    BY <1>4, <1>5 DEF Mediums
  <2>2. radio'[r].netgroup = radio[r].netgroup /\ radio'[r].wmediumd \in {radio[r].wmediumd, None}
    BY <1>4, <2>1 DEF RadioQuiet
  <2>3. radio[r].netgroup \in Nets
    <3>1. radio[r] \in Record
      BY <1>1, <2>1, RadiosAre
    <3> QED
      BY <3>1 DEF Record
  <2>4. CASE medium /\ radio[r].netgroup = n
    <3>1. socket'[c].notifier /\ NetOf(c) = radio'[r].netgroup
      BY <1>3, <1>10, <2>2, <2>4
    <3> QED
      BY <3>1 DEF Told
  <2>5. CASE ~(medium /\ radio[r].netgroup = n)
    <3>1. wmediumd'[radio[r].netgroup] = wmediumd[radio[r].netgroup]
      BY <1>8, <2>3, <2>5
    <3>2. ASSUME NEW d \in Clients, socket[d].notifier PROVE socket'[d].notifier
      BY <1>3, <1>10, <3>2
    <3> QED
      BY <1>8, <2>1, <2>2, <3>1, <3>2 DEF Told
  <2> QED
    BY <2>4, <2>5
<1> QED
  BY <1>7, <1>9, <1>11 DEF Mediums

(* What a radio sends its frames to is the program that is registered for  *)
(* its netgroup, or nobody, unless a notifier is on its way or came in     *)
(* between of a registration; and it is never the medium of a radio with   *)
(* several channels that a program made (hwsim_register_received_nl,       *)
(* mac80211_hwsim_netlink_notify).                                         *)
THEOREM MediumIsTheOneRegistered == Spec => []MediumIsRight
<1>1. Init => Mediums
  <2> SUFFICES ASSUME Init PROVE Mediums
    OBVIOUS
  <2>1. Ids = {} /\ ToSet(hwsim_radios) = {} /\ request.op = "none"
    <3>1. radio = <<>> /\ hwsim_radios = <<>> /\ request = Idle
      BY DEF Init
    <3> QED
      BY <3>1 DEF Ids, ToSet, Idle
  <2> QED
    BY <2>1 DEF Mediums, Unheard, Registering
<1>2. Core /\ Mediums /\ [Next]_vars => Mediums'
  <2> SUFFICES ASSUME Core, Mediums, [Next]_vars PROVE Mediums'
    OBVIOUS
  <2>1. CASE Module
    BY <2>1, ModuleQuiet, QuietKeeps
  <2>2. CASE Walk
    BY <2>2, WalkQuiet, QuietKeeps
  <2>3. CASE \/ NewListed \/ NewFails \/ DelDeletes
             \/ \E c \in Clients : new_radio_nl(c) \/ \E r \in Ids : del_radio_nl(c, r)
    BY <2>3, RequestQuiet, QuietKeeps
  <2>4. CASE \/ \E c \in Listers : DumpBegins(c) \/ DumpMessage(c)
             \/ \E r \in Ids : destroy_radio(r)
             \/ UNCHANGED vars
    BY <2>4, RestQuiet, QuietKeeps
  <2>5. CASE (\E c \in Clients : register_received_nl(c)) \/ RegisterSets
    BY <2>5, RegisterKeeps
  <2>6. CASE RegisterTells
    BY <2>6, TellsKeeps
  <2>7. ASSUME NEW c \in Clients, NotifierTells(c) PROVE Mediums'
    BY <2>7, NotifierTellsKeeps
  <2>8. ASSUME NEW c \in Clients, NEW namesake \in BOOLEAN, netlink_notify(c, namesake) PROVE Mediums'
    BY <2>8, NotifyKeeps
  <2> QED
    BY <2>1, <2>2, <2>3, <2>4, <2>5, <2>6, <2>7, <2>8 DEF Next, Served
<1>3. Core /\ Mediums => MediumIsRight
  <2> SUFFICES ASSUME Core, Mediums, NEW r \in ToSet(hwsim_radios)
               PROVE  /\ \/ radio[r].wmediumd \in {None, wmediumd[radio[r].netgroup]}
                         \/ radio[r].netgroup \in mixed
                         \/ \E c \in Clients : NetOf(c) = radio[r].netgroup /\ socket[c].notifier
                      /\ radio[r].wmediumd # None => radio[r].channels = 1 \/ radio[r].by = None
    BY DEF MediumIsRight
  <2>1. Told(r) /\ Unheard
    BY DEF Mediums
  <2>2. r \in Ids
    BY RadiosAre DEF Core
  <2> QED
    BY <2>1, <2>2 DEF Told, Unheard, Single
<1> QED
  BY <1>1, <1>2, <1>3, CoreHolds, PTL DEF Spec

----------------------------------------------------------------------------
(***************************************************************************)
(* A listing has every radio that was there all the time once.             *)
(***************************************************************************)
DumpRecord == [runs: BOOLEAN, cursor: Nat, got: Seq(Nat), since: SUBSET Nat, missed: SUBSET Nat]

Growing(s) == \A i, j \in DOMAIN s : i < j => s[i] < s[j]

(* The radios come in the order of their numbers, and what has a number    *)
(* the listing is beyond was listed, or stands behind a higher number.     *)
Sound(d, c) ==
  /\ d \in DumpRecord
  /\ Growing(d.got) /\ \A i \in DOMAIN d.got : d.got[i] < d.cursor
  /\ \A r \in d.since : /\ r \in ToSet(hwsim_radios) /\ radio[r].netgroup = NetOf(c)
                        /\ r < d.cursor => r \in ToSet(d.got) \/ radio[r].behind
  /\ d.missed = {}

Behinds == \A q, r : Before(q, r) /\ q > r => radio[r].behind

Listings ==
  /\ dump = [c \in Listers |-> dump[c]]
  /\ \A c \in Listers : Sound(dump[c], c)
  /\ Behinds

LEMMA BeforeIs ==
  ASSUME RadioTypes, NEW q, NEW r, Before(q, r)
  PROVE  q \in ToSet(hwsim_radios) /\ r \in ToSet(hwsim_radios)
<1>1. PICK m \in DOMAIN hwsim_radios : \E k \in 1..(m - 1) : hwsim_radios[k] = q /\ hwsim_radios[m] = r
  BY DEF Before
<1>2. PICK k \in 1..(m - 1) : hwsim_radios[k] = q /\ hwsim_radios[m] = r
  BY <1>1
<1>3. k \in DOMAIN hwsim_radios
  BY RadiosAre, <1>1
<1> QED
  BY <1>2, <1>3 DEF ToSet

LEMMA AppendedSet ==
  ASSUME NEW S, NEW s \in Seq(S), NEW q \in S
  PROVE  ToSet(Append(s, q)) = ToSet(s) \cup {q}
<1>1. /\ Append(s, q) \in Seq(S) /\ Len(Append(s, q)) = Len(s) + 1
      /\ \A i \in 1..Len(s) : Append(s, q)[i] = s[i]
      /\ Append(s, q)[Len(s) + 1] = q
  BY AppendProperties
<1>2. Len(s) \in Nat /\ DOMAIN s = 1..Len(s) /\ DOMAIN Append(s, q) = 1..(Len(s) + 1)
  BY <1>1, LenProperties
<1> DEFINE n == Len(s)
           t == Append(s, q)
<1>3. \A i \in 1..(n + 1) : i = n + 1 \/ i \in 1..n
  BY <1>2
<1>4. n + 1 \in 1..(n + 1) /\ \A i \in 1..n : i \in 1..(n + 1)
  BY <1>2
<1> HIDE DEF n, t
<1>5. ToSet(t) = {t[i] : i \in 1..(n + 1)} /\ ToSet(s) = {s[i] : i \in 1..n}
  BY <1>2 DEF ToSet, n, t
<1>6. t[n + 1] = q /\ \A i \in 1..n : t[i] = s[i]
  BY <1>1 DEF n, t
<1>7. ToSet(t) = ToSet(s) \cup {q}
  BY <1>3, <1>4, <1>5, <1>6
<1> QED
  BY <1>7 DEF t

(* The listing d after the first k radios of the list were looked at.      *)
Along(d, c, k) ==
  /\ Sound(d, c) /\ d.since = dump[c].since
  /\ \A i \in 1..k : radio[hwsim_radios[i]].netgroup = NetOf(c) => hwsim_radios[i] < d.cursor

LEMMA ReportedGoesOn ==
  ASSUME RadioTypes, Behinds, NEW c, NEW d, NEW j \in Nat, j + 1 <= Len(hwsim_radios), Along(d, c, j)
  PROVE  Along(Reported(d, c, hwsim_radios[j + 1]), c, j + 1)
<1> DEFINE q == hwsim_radios[j + 1]
           n == Len(hwsim_radios)
           ours == radio[q].netgroup = NetOf(c)
<1>1. /\ n \in Nat /\ DOMAIN hwsim_radios = 1..n /\ j + 1 \in 1..n
      /\ q \in Ids /\ q \in Nat
      /\ \A i \in 1..n : hwsim_radios[i] \in Nat
  BY RadiosAre
<1>2. /\ Sound(d, c) /\ d.since = dump[c].since
      /\ \A i \in 1..j : radio[hwsim_radios[i]].netgroup = NetOf(c) => hwsim_radios[i] < d.cursor
  BY DEF Along
<1>3. \A i \in 1..(j + 1) : i = j + 1 \/ i \in 1..j
  OBVIOUS
<1>4. d \in DumpRecord /\ d.cursor \in Nat /\ d.got \in Seq(Nat)
  BY <1>2 DEF Sound, DumpRecord
<1>5. CASE q < d.cursor \/ ~ours
  <2>1. Reported(d, c, q) = d
    BY <1>5 DEF Reported
  <2>2. ours => q < d.cursor
    BY <1>5
  <2>3. Along(d, c, j + 1)
    BY <1>2, <1>3, <2>2 DEF Along
  <2> QED
    BY <2>1, <2>3
<1>6. CASE ~(q < d.cursor) /\ ours
  <2> DEFINE e == [d EXCEPT !.cursor = q + 1, !.got = Append(d.got, q)]
             got == Append(d.got, q)
             m == Len(d.got)
  <2>1. Reported(d, c, q) = e
    BY <1>6 DEF Reported
  <2>2. /\ got \in Seq(Nat) /\ Len(got) = m + 1 /\ m \in Nat
        /\ \A i \in 1..m : got[i] = d.got[i]
        /\ got[m + 1] = q /\ DOMAIN d.got = 1..m /\ DOMAIN got = 1..(m + 1)
    BY <1>1, <1>4, AppendProperties, LenProperties
  <2>3. ToSet(got) = ToSet(d.got) \cup {q}
    BY <1>1, <1>4, AppendedSet
  <2>4. /\ e \in DumpRecord /\ e.cursor = q + 1 /\ e.got = got
        /\ e.since = d.since /\ e.missed = d.missed
    <3>1. got \in Seq(Nat)
      BY <2>2
    <3>2. q + 1 \in Nat /\ d \in DumpRecord
      BY <1>1, <1>4
    <3>3. PICK z, g : z = q + 1 /\ g = got
      OBVIOUS
    <3>4. e = [d EXCEPT !.cursor = z, !.got = g]
      BY <3>3
    <3> HIDE DEF e, got, q
    <3>5. z \in Nat /\ g \in Seq(Nat)
      BY <3>1, <3>2, <3>3
    <3>6. /\ e \in DumpRecord /\ e.cursor = z /\ e.got = g
          /\ e.since = d.since /\ e.missed = d.missed
      BY <3>2, <3>4, <3>5 DEF DumpRecord
    <3> QED
      BY <3>3, <3>6
  <2> HIDE DEF e, got, m
  <2>5. d.cursor <= q
    BY <1>1, <1>4, <1>6
  <2>6. /\ Growing(d.got) /\ \A i \in 1..m : d.got[i] < d.cursor /\ d.got[i] \in Nat
    BY <1>2, <1>4, <2>2, ElementOfSeq DEF Sound, m
  <2>7. \A i \in 1..(m + 1) : i = m + 1 \/ i \in 1..m
    BY <2>2
  <2> HIDE DEF q, n
  <2>8. \A i \in 1..m : d.got[i] < q
    <3> SUFFICES ASSUME NEW i \in 1..m PROVE d.got[i] < q
      OBVIOUS
    <3>1. d.got[i] < d.cursor /\ d.got[i] \in Nat
      BY <2>6
    <3> QED
      BY <1>1, <1>4, <2>5, <3>1
  <2>9. Growing(got)
    <3> SUFFICES ASSUME NEW i \in 1..(m + 1), NEW k \in 1..(m + 1), i < k PROVE got[i] < got[k]
      BY <2>2 DEF Growing
    <3>1. i \in 1..m
      BY <2>2
    <3>2. CASE k = m + 1
      BY <2>2, <2>8, <3>1, <3>2
    <3>3. CASE k \in 1..m
      BY <2>2, <2>6, <3>1, <3>3 DEF Growing
    <3> QED
      BY <2>7, <3>2, <3>3
  <2>10. \A i \in DOMAIN got : got[i] < q + 1
    <3> SUFFICES ASSUME NEW i \in 1..(m + 1) PROVE got[i] < q + 1
      BY <2>2
    <3>1. CASE i = m + 1
      BY <1>1, <2>2, <3>1
    <3>2. CASE i \in 1..m
      <4>1. got[i] < q /\ got[i] \in Nat
        BY <2>2, <2>6, <2>8, <3>2
      <4> QED
        BY <1>1, <4>1
    <3> QED
      BY <2>7, <3>1, <3>2
  <2>11. ASSUME NEW r \in d.since, r < q + 1 PROVE r \in ToSet(got) \/ radio[r].behind
    <3>1. /\ r \in ToSet(hwsim_radios) /\ radio[r].netgroup = NetOf(c)
          /\ r < d.cursor => r \in ToSet(d.got) \/ radio[r].behind
      BY <1>2 DEF Sound
    <3>2. PICK i \in 1..n : r = hwsim_radios[i]
      BY <1>1, <3>1 DEF ToSet
    <3>3. r \in Nat
      BY <1>1, <3>2
    <3>4. CASE r < d.cursor
      BY <2>3, <3>1, <3>4
    <3>5. CASE r = q
      BY <2>3, <3>5
    <3>6. CASE ~(r < d.cursor) /\ r # q
      <4>1. i \notin 1..j
        BY <1>2, <3>1, <3>2, <3>6
      <4>2. i # j + 1
        BY <3>2, <3>6 DEF q
      <4>3. j + 1 \in 1..(i - 1)
        BY <1>1, <4>1, <4>2
      <4>4. Before(q, r)
        BY <1>1, <3>2, <4>3 DEF Before, q
      <4>5. q > r
        BY <1>1, <2>11, <3>3, <3>6
      <4> QED
        BY <4>4, <4>5 DEF Behinds
    <3> QED
      BY <3>4, <3>5, <3>6
  <2>12. Sound(e, c)
    <3>1. \A r \in d.since : r \in ToSet(hwsim_radios) /\ radio[r].netgroup = NetOf(c)
      BY <1>2 DEF Sound
    <3>2. d.missed = {}
      BY <1>2 DEF Sound
    <3> QED
      BY <2>4, <2>9, <2>10, <2>11, <3>1, <3>2 DEF Sound
  <2>13. ASSUME NEW i \in 1..(j + 1), radio[hwsim_radios[i]].netgroup = NetOf(c)
         PROVE  hwsim_radios[i] < q + 1
    <3>1. CASE i = j + 1
      BY <1>1, <3>1 DEF q
    <3>2. CASE i \in 1..j
      <4>1. hwsim_radios[i] < d.cursor /\ hwsim_radios[i] \in Nat
        BY <1>1, <1>2, <2>13, <3>2
      <4> QED
        BY <1>1, <1>4, <2>5, <4>1
    <3> QED
      BY <1>3, <3>1, <3>2
  <2>14. Along(e, c, j + 1)
    BY <1>2, <2>4, <2>12, <2>13 DEF Along
  <2> QED
    BY <2>1, <2>14 DEF q
<1> QED
  BY <1>5, <1>6

IsRun(f, c, k) == f = [j \in 0..k |-> IF j = 0 THEN dump[c] ELSE Reported(f[j - 1], c, hwsim_radios[j])]

LEMMA RunExists == ASSUME NEW c, NEW k \in Nat PROVE \E f : IsRun(f, c, k)
<1> SUFFICES ASSUME ~ \E f : IsRun(f, c, k) PROVE FALSE
  OBVIOUS
<1> DEFINE T == {n \in Nat : ~ \E f : IsRun(f, c, n)}
<1>1. T \in SUBSET Nat /\ T # {}
  OBVIOUS
<1>2. PICK n \in T : \A m \in T : ~(m < n)
  BY <1>1, LeastOf
<1>3. n # 0
  <2>1. IsRun([j \in 0..0 |-> dump[c]], c, 0)
    BY DEF IsRun
  <2> QED
    BY <2>1
<1>4. n \in Nat /\ n - 1 \in Nat /\ n - 1 < n
  BY <1>3
<1>5. PICK f : IsRun(f, c, n - 1)
  BY <1>2, <1>4
<1> DEFINE g == [j \in 0..n |-> IF j = n THEN Reported(f[n - 1], c, hwsim_radios[n]) ELSE f[j]]
<1>6. \A j \in 0..(n - 1) : f[j] = IF j = 0 THEN dump[c] ELSE Reported(f[j - 1], c, hwsim_radios[j])
  BY <1>5 DEF IsRun
<1>7. \A j \in 0..n : /\ j = n \/ j \in 0..(n - 1)
                      /\ j # 0 => j - 1 \in 0..n /\ j - 1 # n
  BY <1>4
<1>8. ASSUME NEW j \in 0..n
      PROVE  g[j] = IF j = 0 THEN dump[c] ELSE Reported(g[j - 1], c, hwsim_radios[j])
  <2>1. CASE j = n
    <3>1. g[j - 1] = f[n - 1] /\ g[j] = Reported(f[n - 1], c, hwsim_radios[n])
      BY <1>3, <1>7, <2>1
    <3> QED
      BY <1>3, <2>1, <3>1
  <2>2. CASE j # n
    <3>1. g[j] = f[j] /\ j \in 0..(n - 1) /\ (j # 0 => g[j - 1] = f[j - 1])
      BY <1>7, <2>2
    <3> HIDE DEF g
    <3> QED
      BY <1>6, <3>1
  <2> QED
    BY <2>1, <2>2
<1>9. g = [j \in 0..n |-> g[j]]
  OBVIOUS
<1> HIDE DEF g
<1>10. IsRun(g, c, n)
  BY <1>8, <1>9 DEF IsRun
<1> QED
  BY <1>10

LEMMA ProgressIs ==
  ASSUME RadioTypes, Listings, NEW c \in Listers, NEW k \in 0..Len(hwsim_radios)
  PROVE  Along(Progress(c, k), c, k)
<1>1. k \in Nat
  OBVIOUS
<1>2. Progress(c, k) = (CHOOSE f : IsRun(f, c, k))[k]
  BY DEF Progress, IsRun
<1>3. PICK f : IsRun(f, c, k) /\ Progress(c, k) = f[k]
  BY <1>1, <1>2, RunExists
<1>4. \A j \in 0..k : f[j] = IF j = 0 THEN dump[c] ELSE Reported(f[j - 1], c, hwsim_radios[j])
  BY <1>3 DEF IsRun
<1>5. Len(hwsim_radios) \in Nat /\ Behinds
  BY RadiosAre DEF Listings
<1> DEFINE T == {n \in Nat : n <= k /\ ~Along(f[n], c, n)}
<1> SUFFICES ASSUME ~Along(f[k], c, k) PROVE FALSE
  BY <1>3
<1>6. T \in SUBSET Nat /\ T # {}
  BY <1>1
<1>7. PICK n \in T : \A m \in T : ~(m < n)
  BY <1>6, LeastOf
<1>8. n # 0
  <2>1. f[0] = dump[c]
    BY <1>1, <1>4
  <2>2. Along(dump[c], c, 0)
    BY DEF Along, Listings
  <2> QED
    BY <2>1, <2>2
<1>9. n - 1 \in Nat /\ n - 1 <= k /\ n - 1 < n /\ n \in 0..k /\ n <= Len(hwsim_radios) /\ (n - 1) + 1 = n
  BY <1>1, <1>5, <1>8
<1>10. Along(f[n - 1], c, n - 1)
  BY <1>7, <1>9
<1>11. PICK i : i = n - 1
  OBVIOUS
<1>12. i \in Nat /\ i + 1 <= Len(hwsim_radios) /\ i + 1 = n
  BY <1>9, <1>11
<1>13. Along(Reported(f[i], c, hwsim_radios[i + 1]), c, i + 1)
  BY <1>5, <1>10, <1>11, <1>12, ReportedGoesOn
<1>14. f[n] = Reported(f[i], c, hwsim_radios[i + 1])
  BY <1>4, <1>8, <1>9, <1>11, <1>12
<1> QED
  BY <1>12, <1>13, <1>14

(* A step of anything but the listing itself.                              *)
RadioSteady(r) == radio'[r].netgroup = radio[r].netgroup /\ radio'[r].behind = radio[r].behind

LEMMA SoundStays ==
  ASSUME NEW d, NEW c, NEW ids, Sound(d, c),
         \A r \in d.since \ ids : r \in ToSet(hwsim_radios') /\ RadioSteady(r)
  PROVE  Sound([d EXCEPT !.since = d.since \ ids], c)'
<1> DEFINE e == [d EXCEPT !.since = d.since \ ids]
<1>1. /\ d \in DumpRecord
      /\ Growing(d.got) /\ \A i \in DOMAIN d.got : d.got[i] < d.cursor
      /\ \A r \in d.since : /\ r \in ToSet(hwsim_radios) /\ radio[r].netgroup = NetOf(c)
                            /\ r < d.cursor => r \in ToSet(d.got) \/ radio[r].behind
      /\ d.missed = {}
  BY DEF Sound
<1>2. /\ e \in DumpRecord /\ e.got = d.got /\ e.cursor = d.cursor /\ e.missed = d.missed
      /\ e.since = d.since \ ids
  BY <1>1 DEF DumpRecord
<1> HIDE DEF e
<1>3. ASSUME NEW r \in e.since
      PROVE  /\ r \in ToSet(hwsim_radios') /\ radio'[r].netgroup = NetOf(c)
             /\ r < e.cursor => r \in ToSet(e.got) \/ radio'[r].behind
  BY <1>1, <1>2 DEF RadioSteady
<1>4. Sound(e, c)'
  BY <1>1, <1>2, <1>3 DEF Sound
<1> QED
  BY <1>4 DEF e

LEMMA SoundAsBefore ==
  ASSUME NEW d, NEW c, Sound(d, c),
         \A r \in d.since : r \in ToSet(hwsim_radios') /\ RadioSteady(r)
  PROVE  Sound(d, c)'
<1>1. d = [d EXCEPT !.since = d.since \ {}]
  BY DEF Sound, DumpRecord
<1>2. Sound([d EXCEPT !.since = d.since \ {}], c)'
  BY SoundStays
<1>3. PICK e : e = [d EXCEPT !.since = d.since \ {}]
  OBVIOUS
<1>4. Sound(e, c)'
  BY <1>2, <1>3
<1> QED
  BY <1>1, <1>3, <1>4

LEMMA DumpsStay ==
  ASSUME Listings, UNCHANGED dump, Behinds',
         \A r \in ToSet(hwsim_radios) : r \in ToSet(hwsim_radios') /\ RadioSteady(r)
  PROVE  Listings'
<1>1. dump' = [c \in Listers |-> dump'[c]]
  BY DEF Listings
<1>2. ASSUME NEW c \in Listers PROVE Sound(dump[c], c)'
  <2>1. PICK d : d = dump[c]
    OBVIOUS
  <2>2. Sound(d, c) /\ d = dump'[c]
    BY <2>1 DEF Listings
  <2>3. \A r \in d.since : r \in ToSet(hwsim_radios)
    BY <2>2 DEF Sound
  <2>4. Sound(d, c)'
    BY <2>2, <2>3, SoundAsBefore
  <2> QED
    BY <2>2, <2>4
<1> QED
  BY <1>1, <1>2 DEF Listings

LEMMA SteadyKeeps ==
  ASSUME Core, Listings, UNCHANGED <<hwsim_radios, dump>>, \A r \in ToSet(hwsim_radios) : RadioSteady(r)
  PROVE  Listings'
<1>1. ToSet(hwsim_radios') = ToSet(hwsim_radios) /\ UNCHANGED dump
  OBVIOUS
<1>2. ASSUME NEW q, NEW r, Before(q, r)', q > r PROVE radio'[r].behind
  <2>1. Before(q, r)
    BY <1>2 DEF Before
  <2>2. r \in ToSet(hwsim_radios)
    BY <2>1, BeforeIs DEF Core
  <2>3. radio[r].behind
    BY <1>2, <2>1 DEF Listings, Behinds
  <2> QED
    BY <2>2, <2>3 DEF RadioSteady
<1>3. Behinds'
  BY <1>2 DEF Behinds
<1> QED
  BY <1>1, <1>3, DumpsStay

LEMMA ListedKeeps ==
  ASSUME Core, Listings, NEW x \in Ids, Listed(x), radio[x].at = "made", UNCHANGED dump
  PROVE  Listings'
<1>1. RadioTypes /\ IsInjective(hwsim_radios) /\ InPlace(x)
  BY DEF Core, Places
<1>2. x \notin ToSet(hwsim_radios) /\ ToSet(hwsim_radios) \subseteq Ids
  BY <1>1, RadiosAre DEF InPlace, OnList
<1>3. /\ \A r \in Ids : r # x => radio'[r] = radio[r]
      /\ radio'[x] = [radio[x] EXCEPT !.at = "listed",
                                      !.behind = \E q \in ToSet(hwsim_radios) : q > x]
      /\ ToSet(hwsim_radios') = ToSet(hwsim_radios) \cup {x}
      /\ \A q, r : Before(q, r)' => Before(q, r) \/ (r = x /\ q \in ToSet(hwsim_radios))
  BY <1>1, <1>2, ListedIs
<1>4. radio'[x].behind = \E q \in ToSet(hwsim_radios) : q > x
  <2>1. radio[x] \in Record
    BY <1>1, RadiosAre
  <2> DEFINE b == \E q \in ToSet(hwsim_radios) : q > x
  <2>2. radio'[x] = [radio[x] EXCEPT !.at = "listed", !.behind = b]
    BY <1>3
  <2> HIDE DEF b
  <2>3. radio'[x].behind = b
    BY <2>1, <2>2 DEF Record
  <2> QED
    BY <2>3 DEF b
<1>5. \A r \in ToSet(hwsim_radios) : r \in ToSet(hwsim_radios') /\ radio'[r] = radio[r]
  BY <1>2, <1>3
<1>6. ASSUME NEW q, NEW r, Before(q, r)', q > r PROVE radio'[r].behind
  <2>1. CASE Before(q, r)
    <3>1. r \in ToSet(hwsim_radios) /\ radio[r].behind
      BY <1>1, <1>6, <2>1, BeforeIs DEF Listings, Behinds
    <3> QED
      BY <1>5, <3>1
  <2>2. CASE r = x /\ q \in ToSet(hwsim_radios)
    BY <1>4, <1>6, <2>2
  <2> QED
    BY <1>3, <1>6, <2>1, <2>2
<1>7. Behinds'
  BY <1>6 DEF Behinds
<1>8. \A r \in ToSet(hwsim_radios) : r \in ToSet(hwsim_radios') /\ RadioSteady(r)
  BY <1>5 DEF RadioSteady
<1> QED
  BY <1>7, <1>8, DumpsStay

LEMMA UnlistedKeeps ==
  ASSUME Core, Listings, NEW ids, Unlisted(ids)
  PROVE  Listings'
<1>1. RadioTypes /\ IsInjective(hwsim_radios)
  BY DEF Core, Places
<1>2. /\ \A r \in Ids : IF r \in ids THEN radio'[r] = [radio[r] EXCEPT !.at = "removing"]
                        ELSE radio'[r] = radio[r]
      /\ ToSet(hwsim_radios') = ToSet(hwsim_radios) \ ids
      /\ \A q, r : Before(q, r)' => Before(q, r)
  BY <1>1, UnlistedIs
<1>3. dump' = [c \in Listers |-> [dump[c] EXCEPT !.since = dump[c].since \ ids]]
  BY DEF Unlisted
<1>4. ToSet(hwsim_radios) \subseteq Ids
  BY <1>1, RadiosAre
<1>5. ASSUME NEW r \in Ids PROVE RadioSteady(r)
  <2>1. radio[r] \in Record
    BY <1>1, RadiosAre
  <2> QED
    BY <1>2, <2>1 DEF Record, RadioSteady
<1>6. ASSUME NEW c \in Listers PROVE Sound(dump[c], c)'
  <2>1. PICK d : d = dump[c]
    OBVIOUS
  <2>2. Sound(d, c)
    BY <2>1 DEF Listings
  <2>3. dump'[c] = [d EXCEPT !.since = d.since \ ids]
    BY <1>3, <2>1
  <2>4. \A r \in d.since \ ids : r \in ToSet(hwsim_radios') /\ RadioSteady(r)
    BY <1>2, <1>4, <1>5, <2>2 DEF Sound
  <2>5. Sound([d EXCEPT !.since = d.since \ ids], c)'
    BY <2>2, <2>4, SoundStays
  <2>6. PICK e : e = [d EXCEPT !.since = d.since \ ids]
    OBVIOUS
  <2>7. Sound(e, c)' /\ dump'[c] = e
    BY <2>3, <2>5, <2>6
  <2> QED
    BY <2>7
<1>7. ASSUME NEW q, NEW r, Before(q, r)', q > r PROVE radio'[r].behind
  <2>1. Before(q, r) /\ r \in ToSet(hwsim_radios)
    BY <1>1, <1>2, <1>7, BeforeIs
  <2>2. radio[r].behind
    BY <1>7, <2>1 DEF Listings, Behinds
  <2> QED
    BY <1>4, <1>5, <2>1, <2>2 DEF RadioSteady
<1>8. Behinds'
  BY <1>7 DEF Behinds
<1>9. dump' = [c \in Listers |-> dump'[c]]
  BY <1>3
<1> QED
  BY <1>6, <1>8, <1>9 DEF Listings

(* A step of a listing.                                                    *)
LEMMA DumpKeeps ==
  ASSUME Core, Listings, NEW c \in Listers, DumpBegins(c) \/ DumpMessage(c)
  PROVE  Listings'
<1>1. RadioTypes
  BY DEF Core
<1>2. UNCHANGED <<radio, hwsim_radios>>
  BY DEF DumpBegins, DumpMessage
<1>3. ASSUME NEW d, NEW b, Sound(d, b) PROVE Sound(d, b)'
  BY <1>2, <1>3 DEF Sound
<1>4. \E d : Sound(d, c) /\ dump' = [dump EXCEPT ![c] = d]
  <2>1. Len(hwsim_radios) \in Nat /\ DOMAIN hwsim_radios = 1..Len(hwsim_radios)
        /\ (\A r \in ToSet(hwsim_radios) : r \in Nat \ {0})
    BY <1>1, RadiosAre
  <2>2. CASE DumpBegins(c)
    <3>1. PICK S : S = {r \in ToSet(hwsim_radios) : radio[r].netgroup = NetOf(c)}
      OBVIOUS
    <3> DEFINE d == [runs |-> TRUE, cursor |-> 1, got |-> <<>>, since |-> S, missed |-> {}]
    <3>2. dump' = [dump EXCEPT ![c] = d]
      <4>1. [NoDump EXCEPT !.runs = TRUE, !.since = S] = d
        <5>1. /\ NoDump \in DumpRecord /\ NoDump.cursor = d.cursor /\ NoDump.got = d.got
              /\ NoDump.missed = d.missed
          BY DEF NoDump, DumpRecord
        <5>2. d \in DumpRecord /\ d.runs = TRUE /\ d.since = S /\ S \in SUBSET Nat
          BY <2>1, <3>1 DEF DumpRecord
        <5> HIDE DEF d
        <5>3. [NoDump EXCEPT !.runs = TRUE, !.since = S] \in DumpRecord
          BY <5>1, <5>2 DEF DumpRecord
        <5> QED
          BY <5>1, <5>2, <5>3 DEF DumpRecord
      <4> QED
        BY <2>2, <3>1, <4>1 DEF DumpBegins
    <3>3. d \in DumpRecord
      BY <2>1, <3>1 DEF DumpRecord
    <3>4. Growing(d.got) /\ \A i \in DOMAIN d.got : d.got[i] < d.cursor
      BY DEF Growing
    <3>5. \A r \in d.since : /\ r \in ToSet(hwsim_radios) /\ radio[r].netgroup = NetOf(c)
                             /\ ~(r < d.cursor)
      BY <2>1, <3>1
    <3>6. d.missed = {}
      OBVIOUS
    <3> HIDE DEF d
    <3>7. Sound(d, c)
      BY <3>3, <3>4, <3>5, <3>6 DEF Sound
    <3> QED
      BY <3>2, <3>7
  <2>3. CASE DumpMessage(c)
    <3>1. PICK k \in 0..Len(hwsim_radios) :
            LET d == Progress(c, k)
            IN  /\ d.got = dump[c].got => k = Len(hwsim_radios)
                /\ dump' = [dump EXCEPT ![c] = IF d.got = dump[c].got
                     THEN [NoDump EXCEPT !.missed = {r \in d.since \ ToSet(d.got) : ~radio[r].behind}]
                     ELSE d]
      BY <2>3 DEF DumpMessage
    <3>2. PICK d : d = Progress(c, k)
      OBVIOUS
    <3>3. PICK S : S = {r \in d.since \ ToSet(d.got) : ~radio[r].behind}
      OBVIOUS
    <3>4. /\ d.got = dump[c].got => k = Len(hwsim_radios)
          /\ dump' = [dump EXCEPT ![c] = IF d.got = dump[c].got
                        THEN [NoDump EXCEPT !.missed = S] ELSE d]
      BY <3>1, <3>2, <3>3
    <3>5. Along(d, c, k)
      BY <1>1, <3>2, ProgressIs
    <3>6. CASE d.got = dump[c].got
      <4>1. k = Len(hwsim_radios)
        BY <3>4, <3>6
      <4>2. ASSUME NEW r \in d.since PROVE r \in ToSet(d.got) \/ radio[r].behind
        <5>1. /\ r \in ToSet(hwsim_radios) /\ radio[r].netgroup = NetOf(c)
              /\ r < d.cursor => r \in ToSet(d.got) \/ radio[r].behind
          BY <3>5 DEF Along, Sound
        <5>2. PICK i \in 1..k : r = hwsim_radios[i]
          BY <2>1, <4>1, <5>1 DEF ToSet
        <5>3. r < d.cursor
          BY <3>5, <5>1, <5>2 DEF Along
        <5> QED
          BY <5>1, <5>3
      <4>3. S = {}
        BY <3>3, <4>2
      <4>4. [NoDump EXCEPT !.missed = S] = NoDump
        <5>1. NoDump \in DumpRecord /\ NoDump.missed = {}
          BY DEF NoDump, DumpRecord
        <5> QED
          BY <4>3, <5>1 DEF DumpRecord
      <4>5. Sound(NoDump, c)
        BY DEF Sound, NoDump, DumpRecord, Growing
      <4> QED
        BY <3>4, <3>6, <4>4, <4>5
    <3>7. CASE d.got # dump[c].got
      BY <3>4, <3>5, <3>7 DEF Along
    <3> QED
      BY <3>6, <3>7
  <2> QED
    BY <2>2, <2>3
<1>5. PICK d : Sound(d, c) /\ dump' = [dump EXCEPT ![c] = d]
  BY <1>4
<1>6. dump' = [b \in Listers |-> dump'[b]] /\ \A b \in Listers : dump'[b] = IF b = c THEN d ELSE dump[b]
  <2>1. dump = [b \in Listers |-> dump[b]]
    BY DEF Listings
  <2> QED
    BY <1>5, <2>1
<1>7. ASSUME NEW b \in Listers PROVE Sound(dump[b], b)'
  <2>1. PICK e : e = IF b = c THEN d ELSE dump[b]
    OBVIOUS
  <2>2. Sound(e, b) /\ e = dump'[b]
    BY <1>5, <1>6, <2>1 DEF Listings
  <2>3. Sound(e, b)'
    BY <1>3, <2>2
  <2> QED
    BY <2>2, <2>3
<1>8. Behinds'
  BY <1>2 DEF Listings, Behinds, Before
<1> QED
  BY <1>6, <1>7, <1>8 DEF Listings

LEMMA SteadyNothing ==
  ASSUME Core, Listings, UNCHANGED <<radio, hwsim_radios, dump>>
  PROVE  Listings'
  BY SteadyKeeps DEF RadioSteady

LEMMA SteadyMake ==
  ASSUME Core, Listings, NEW c \in Clients \cup {None}, NEW n \in Nets,
         NEW chans \in Channels \cup {channels}, NEW close \in BOOLEAN,
         NewRadio(n, c, chans, close), UNCHANGED <<hwsim_radios, dump>>
  PROVE  Listings'
<1>1. RadioTypes /\ UNCHANGED hwsim_radios
  BY DEF Core
<1>2. \A r \in Ids : radio'[r] = radio[r]
  BY <1>1, NewRadioIs
<1>3. ToSet(hwsim_radios) \subseteq Ids
  BY <1>1, RadiosAre
<1>4. \A r \in ToSet(hwsim_radios) : RadioSteady(r)
  BY <1>2, <1>3 DEF RadioSteady
<1> QED
  BY <1>4, SteadyKeeps

(* A radio that is deleted is not on the list.                             *)
LEMMA SteadyDelete ==
  ASSUME Core, Listings, NEW x \in Ids, del_radio(x), radio[x].at # "listed",
         UNCHANGED <<hwsim_radios, dump>>
  PROVE  Listings'
<1>1. RadioTypes /\ InPlace(x)
  BY DEF Core, Places
<1>2. \A r \in Ids : r # x => radio'[r] = radio[r]
  BY <1>1, DelRadioIs
<1>3. x \notin ToSet(hwsim_radios) /\ ToSet(hwsim_radios) \subseteq Ids
  BY <1>1, RadiosAre DEF InPlace, OnList
<1>4. \A r \in ToSet(hwsim_radios) : RadioSteady(r)
  BY <1>2, <1>3 DEF RadioSteady
<1> QED
  BY <1>4, SteadyKeeps

LEMMA SteadyTell ==
  ASSUME Core, Listings, NEW n, NEW c \in Clients \cup {None}, register_wmediumd(n, c),
         UNCHANGED <<hwsim_radios, dump>>
  PROVE  Listings'
<1>1. RadioTypes
  BY DEF Core
<1>2. \A r \in Ids :
        IF r \in ToSet(hwsim_radios) /\ radio[r].netgroup = n
        THEN radio'[r] = [radio[r] EXCEPT !.wmediumd = c]
        ELSE radio'[r] = radio[r]
  BY <1>1, RegisterIs
<1>3. ASSUME NEW r \in ToSet(hwsim_radios) PROVE RadioSteady(r)
  <2>1. r \in Ids /\ radio[r] \in Record
    BY <1>1, RadiosAre
  <2> QED
    BY <1>2, <2>1 DEF Record, RadioSteady
<1> QED
  BY <1>3, SteadyKeeps

LEMMA ModuleLists == ASSUME Core, Listings, Module PROVE Listings'
<1>1. RadioTypes /\ Places /\ Numbers
  BY DEF Core
<1>2. CASE ClassCreated \/ Loaded \/ exit_netlink \/ FreeEnds \/ Unloaded
  <2>1. UNCHANGED <<radio, hwsim_radios, dump>>
    BY <1>2 DEF ClassCreated, Loaded, exit_netlink, FreeEnds, Unloaded
  <2> QED
    BY <2>1, SteadyNothing
<1>3. CASE InitMakes
  <2>1. NewRadio(init_net, None, channels, FALSE) /\ UNCHANGED <<hwsim_radios, dump>>
    BY <1>3 DEF InitMakes
  <2>2. init_net \in Nets /\ None \in Clients \cup {None} /\ channels \in Channels \cup {channels}
        /\ FALSE \in BOOLEAN
    BY Assumed
  <2> QED
    BY <2>1, <2>2, SteadyMake
<1>4. CASE InitLists
  <2>1. PICK x : x = module.id
    OBVIOUS
  <2>2. x \in Ids /\ Listed(x) /\ ModuleMakes(x) /\ UNCHANGED dump
    BY <1>1, <1>4, <2>1 DEF InitLists, Numbers, ModuleMakes
  <2>3. radio[x].at = "made"
    BY <1>1, <2>2 DEF Places, InPlace
  <2> QED
    BY <2>2, <2>3, ListedKeeps
<1>5. CASE InitFails
  <2>1. UNCHANGED <<hwsim_radios, dump>>
    BY <1>5 DEF InitFails
  <2>2. CASE module.pc = "netlink"
    <3>1. UNCHANGED radio
      BY <1>5, <2>2 DEF InitFails
    <3> QED
      BY <2>1, <3>1, SteadyNothing
  <2>3. CASE module.pc # "netlink"
    <3>1. PICK x : x = module.id
      OBVIOUS
    <3>2. /\ module.pc = "init"
          /\ radio' = [r \in Ids |-> IF r = x THEN Freed(radio[r]) ELSE radio[r]]
      BY <1>5, <2>3, <3>1 DEF InitFails
    <3>3. x \notin ToSet(hwsim_radios)
      <4>1. ASSUME x \in Ids PROVE ModuleMakes(x) /\ InPlace(x)
        BY <1>1, <3>1, <3>2, <4>1 DEF ModuleMakes, Places
      <4>2. ToSet(hwsim_radios) \subseteq Ids
        BY <1>1, RadiosAre
      <4> QED
        BY <4>1, <4>2 DEF InPlace, OnList
    <3>4. \A r \in ToSet(hwsim_radios) : RadioSteady(r)
      BY <1>1, <3>2, <3>3, RadiosAre DEF RadioSteady
    <3> QED
      BY <2>1, <3>4, SteadyKeeps
  <2> QED
    BY <2>2, <2>3
<1>6. CASE FreeUnlists
  <2>1. PICK x : x = Head(hwsim_radios)
    OBVIOUS
  <2>2. Unlisted({x})
    BY <1>6, <2>1 DEF FreeUnlists
  <2> QED
    BY <2>2, UnlistedKeeps
<1>7. CASE FreeDeletes
  <2>1. PICK x : x = module.id
    OBVIOUS
  <2>2. x \in Ids /\ del_radio(x) /\ ByModule(x) /\ UNCHANGED <<hwsim_radios, dump>>
    BY <1>1, <1>7, <2>1 DEF FreeDeletes, Numbers, ByModule
  <2>3. radio[x].at # "listed"
    BY <1>1, <2>2 DEF Places, InPlace
  <2> QED
    BY <2>2, <2>3, SteadyDelete
<1> QED
  BY <1>2, <1>3, <1>4, <1>5, <1>6, <1>7 DEF Module

LEMMA WalkLists == ASSUME Core, Listings, Walk PROVE Listings'
<1>1. Places /\ Numbers
  BY DEF Core
<1>2. ASSUME WalkDeletes PROVE Listings'
  <2>1. PICK x : x = walk.data
    OBVIOUS
  <2>2. x \in Ids /\ del_radio(x) /\ ByWalk(x) /\ UNCHANGED <<hwsim_radios, dump>>
    BY <1>1, <1>2, <2>1 DEF WalkDeletes, Numbers, ByWalk
  <2>3. radio[x].at # "listed"
    BY <1>1, <2>2 DEF Places, InPlace
  <2> QED
    BY <2>2, <2>3, SteadyDelete
<1>3. ASSUME NEW b, NEW n, WalkOn(b, n) PROVE Listings'
  <2>1. UNCHANGED <<radio, hwsim_radios, dump>> \/ \E x : Unlisted({x})
    BY <1>3, WalkOnIs
  <2> QED
    BY <2>1, SteadyNothing, UnlistedKeeps
<1>4. ASSUME NEW n \in Nets, WalkBegins(n) PROVE Listings'
  <2>1. PICK b : b = Entry(1)
    OBVIOUS
  <2>2. WalkOn(b, n)
    BY <1>4, <2>1 DEF WalkBegins
  <2> QED
    BY <1>3, <2>2
<1>5. ASSUME WalkResumes PROVE Listings'
  <2>1. CASE WalkOn(walk.tmp, walk.net)
    <3>1. PICK b, n : b = walk.tmp /\ n = walk.net
      OBVIOUS
    <3>2. WalkOn(b, n)
      BY <2>1, <3>1
    <3> QED
      BY <1>3, <3>2
  <2>2. CASE UNCHANGED <<radio, hwsim_radios, dump>>
    BY <2>2, SteadyNothing
  <2> QED
    BY <1>5, <2>1, <2>2 DEF WalkResumes
<1> QED
  BY <1>2, <1>4, <1>5 DEF Walk

LEMMA ServedLists == ASSUME Core, Listings, Served PROVE Listings'
<1>1. Places /\ Numbers
  BY DEF Core
<1>2. PICK x : x = request.id
  OBVIOUS
<1>3. CASE NewListed
  <2>1. x \in Ids /\ Listed(x) /\ RequestMakes(x) /\ UNCHANGED dump
    BY <1>1, <1>2, <1>3 DEF NewListed, Numbers, RequestMakes
  <2>2. radio[x].at = "made"
    BY <1>1, <2>1 DEF Places, InPlace
  <2> QED
    BY <2>1, <2>2, ListedKeeps
<1>4. CASE NewFails \/ DelDeletes
  <2>1. /\ x \in Ids /\ del_radio(x) /\ (RequestMakes(x) \/ ByRequest(x))
        /\ UNCHANGED <<hwsim_radios, dump>>
    BY <1>1, <1>2, <1>4 DEF NewFails, DelDeletes, Numbers, RequestMakes, ByRequest
  <2>2. radio[x].at # "listed"
    BY <1>1, <2>1 DEF Places, InPlace
  <2> QED
    BY <2>1, <2>2, SteadyDelete
<1>5. CASE RegisterSets
  <2>1. UNCHANGED <<radio, hwsim_radios, dump>>
    BY <1>5 DEF RegisterSets
  <2> QED
    BY <2>1, SteadyNothing
<1>6. CASE RegisterTells
  <2>1. PICK c, n : c = request.by /\ n = NetOf(request.by)
    OBVIOUS
  <2>2. register_wmediumd(n, c) /\ c \in Clients \cup {None} /\ UNCHANGED <<hwsim_radios, dump>>
    BY <1>1, <1>6, <2>1 DEF RegisterTells, Numbers
  <2> QED
    BY <2>2, SteadyTell
<1> QED
  BY <1>3, <1>4, <1>5, <1>6 DEF Served

LEMMA ClientLists ==
  ASSUME Core, Listings, NEW c \in Clients,
         \/ new_radio_nl(c) \/ register_received_nl(c)
         \/ NotifierTells(c) \/ \E namesake \in BOOLEAN : netlink_notify(c, namesake)
         \/ \E r \in Ids : del_radio_nl(c, r)
  PROVE  Listings'
<1>1. CASE new_radio_nl(c)
  <2>1. PICK chans \in Channels, close \in BOOLEAN : NewRadio(NetOf(c), c, chans, close)
    BY <1>1 DEF new_radio_nl
  <2>2. NetOf(c) \in Nets /\ c \in Clients \cup {None} /\ chans \in Channels \cup {channels}
        /\ UNCHANGED <<hwsim_radios, dump>>
    BY <1>1, Assumed DEF new_radio_nl
  <2> QED
    BY <2>1, <2>2, SteadyMake
<1>2. CASE register_received_nl(c)
  <2>1. UNCHANGED <<radio, hwsim_radios, dump>>
    BY <1>2 DEF register_received_nl
  <2> QED
    BY <2>1, SteadyNothing
<1>3. CASE NotifierTells(c)
  <2>1. PICK n : n = NetOf(c)
    OBVIOUS
  <2>2. register_wmediumd(n, None) /\ None \in Clients \cup {None} /\ UNCHANGED <<hwsim_radios, dump>>
    BY <1>3, <2>1 DEF NotifierTells
  <2> QED
    BY <2>2, SteadyTell
<1>4. ASSUME NEW namesake \in BOOLEAN, netlink_notify(c, namesake) PROVE Listings'
  <2>1. PICK ids : ids = Owned(c)
    OBVIOUS
  <2>2. Unlisted(ids)
    BY <1>4, <2>1 DEF netlink_notify, remove_user_radios
  <2> QED
    BY <2>2, UnlistedKeeps
<1>5. ASSUME NEW r \in Ids, del_radio_nl(c, r) PROVE Listings'
  <2>1. PICK x : x = r
    OBVIOUS
  <2>2. Unlisted({x})
    BY <1>5, <2>1 DEF del_radio_nl
  <2> QED
    BY <2>2, UnlistedKeeps
<1> QED
  BY <1>1, <1>2, <1>3, <1>4, <1>5

LEMMA ListingsHold == Spec => []Listings
<1>1. Init => Listings
  <2> SUFFICES ASSUME Init PROVE Listings
    OBVIOUS
  <2>1. /\ dump = [c \in Listers |-> NoDump] /\ DOMAIN hwsim_radios = {}
    <3>1. hwsim_radios = <<>> /\ dump = [c \in Listers |-> NoDump]
      BY DEF Init
    <3> QED
      BY <3>1
  <2>2. \A c \in Listers : Sound(NoDump, c)
    BY DEF Sound, NoDump, DumpRecord, Growing
  <2> HIDE DEF NoDump
  <2>3. \A c \in Listers : dump[c] = NoDump
    BY <2>1
  <2> QED
    BY <2>1, <2>2, <2>3 DEF Listings, Behinds, Before
<1>2. Core /\ Listings /\ [Next]_vars => Listings'
  <2> SUFFICES ASSUME Core, Listings, [Next]_vars PROVE Listings'
    OBVIOUS
  <2>1. CASE Module
    BY <2>1, ModuleLists
  <2>2. CASE Walk
    BY <2>2, WalkLists
  <2>3. CASE Served
    BY <2>3, ServedLists
  <2>4. ASSUME NEW c \in Clients,
               \/ new_radio_nl(c) \/ register_received_nl(c)
               \/ NotifierTells(c) \/ \E namesake \in BOOLEAN : netlink_notify(c, namesake)
               \/ \E r \in Ids : del_radio_nl(c, r)
        PROVE  Listings'
    BY <2>4, ClientLists
  <2>5. ASSUME NEW c \in Listers, DumpBegins(c) \/ DumpMessage(c) PROVE Listings'
    BY <2>5, DumpKeeps
  <2>6. ASSUME NEW r \in Ids, destroy_radio(r) PROVE Listings'
    <3>1. PICK x : x = r
      OBVIOUS
    <3>2. x \in Ids /\ del_radio(x) /\ UNCHANGED <<hwsim_radios, dump>> /\ ByWork(x)
      BY <2>6, <3>1 DEF destroy_radio, ByWork
    <3>3. radio[x].at # "listed"
      BY <3>2 DEF Core, Places, InPlace
    <3> QED
      BY <3>2, <3>3, SteadyDelete
  <2>7. CASE UNCHANGED vars
    <3>1. UNCHANGED <<radio, hwsim_radios, dump>>
      BY <2>7 DEF vars
    <3> QED
      BY <3>1, SteadyNothing
  <2> QED
    BY <2>1, <2>2, <2>3, <2>4, <2>5, <2>6, <2>7 DEF Next
<1> QED
  BY <1>1, <1>2, CoreHolds, PTL DEF Spec

(* However many messages a listing takes, and whatever comes and goes      *)
(* between them, it has no radio twice and none that was there all the     *)
(* time is missing, but one that got on the list behind a higher number    *)
(* (hwsim_dump_radio_nl).                                                  *)
THEOREM ListingsComplete == Spec => []DumpComplete
<1>1. Listings => DumpComplete
  <2> SUFFICES ASSUME Listings, NEW c \in Listers
               PROVE  IsInjective(dump[c].got) /\ dump[c].missed = {}
    BY DEF DumpComplete
  <2>1. PICK d : d = dump[c]
    OBVIOUS
  <2>2. Sound(d, c)
    BY <2>1 DEF Listings
  <2>3. d.got \in Seq(Nat) /\ Growing(d.got) /\ d.missed = {}
    BY <2>2 DEF Sound, DumpRecord
  <2>4. IsInjective(d.got)
    <3>1. PICK s : s = d.got
      OBVIOUS
    <3>2. DOMAIN s = 1..Len(s) /\ Len(s) \in Nat /\ \A i \in DOMAIN s : s[i] \in Nat
      BY <2>3, <3>1, LenProperties, ElementOfSeq
    <3> SUFFICES ASSUME NEW i \in DOMAIN s, NEW j \in DOMAIN s, s[i] = s[j], i # j PROVE FALSE
      BY <3>1 DEF IsInjective
    <3>3. i < j \/ j < i
      BY <3>2
    <3>4. s[i] \in Nat /\ s[j] \in Nat
      BY <3>2
    <3>5. s[i] < s[j] \/ s[j] < s[i]
      BY <2>3, <3>1, <3>3 DEF Growing
    <3> QED
      BY <3>4, <3>5
  <2> QED
    BY <2>1, <2>3, <2>4
<1> QED
  BY <1>1, ListingsHold, PTL

(* The state of the radios has its types, in particular the list and the   *)
(* works name radios that there are.                                       *)
THEOREM RadiosTyped == Spec => []TypeOK
<1>1. Core /\ Listings => TypeOK
  <2> SUFFICES ASSUME Core, Listings PROVE TypeOK
    OBVIOUS
  <2>1. RadioTypes /\ ControlTypes
    BY DEF Core
  <2> DEFINE D == [runs: BOOLEAN, cursor: Nat, got: Seq(Nat), since: SUBSET Ids, missed: SUBSET Ids]
  <2>2. ASSUME NEW c \in Listers PROVE dump[c] \in D
    <3>1. PICK d : d = dump[c]
      OBVIOUS
    <3>2. Sound(d, c)
      BY <3>1 DEF Listings
    <3>3. d \in DumpRecord /\ d.missed = {} /\ d.since \subseteq ToSet(hwsim_radios)
      BY <3>2 DEF Sound
    <3>4. d.since \in SUBSET Ids /\ d.missed \in SUBSET Ids
      BY <2>1, <3>3, RadiosAre
    <3>5. d \in D
      BY <3>3, <3>4 DEF DumpRecord
    <3> QED
      BY <3>1, <3>5
  <2> HIDE DEF D
  <2>3. dump \in [Listers -> D]
    <3>1. dump = [c \in Listers |-> dump[c]]
      BY DEF Listings
    <3> QED
      BY <2>2, <3>1
  <2> QED
    BY <2>1, <2>3 DEF TypeOK, RadioTypes, ControlTypes, Record, D
<1> QED
  BY <1>1, CoreHolds, ListingsHold, PTL
=============================================================================
