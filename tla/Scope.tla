-------------------------------- MODULE Scope --------------------------------
(* The choice of sites and clients over the panel's pages (farm.js, scope):   *)
(* all devices are loaded once and filtered in the browser; the menus offer   *)
(* the sites and clients that have devices, with their number, and a chosen   *)
(* one that has none left is dropped.  The choice is kept between visits, the *)
(* devices and the summary come and go on the server meanwhile, and both are  *)
(* cached for a while (20 and 55 seconds).                                    *)
EXTENDS Naturals, FiniteSets, FiniteSetsExt

CONSTANTS
    Dev, Site, Client,
    SiteOf, ClientOf,  \* a device's site and client, None without
    MaxActs,           \* what the user and the fleet do in all
    None

VARIABLES
    fleet,     \* the devices on the server
    sum,       \* S.sum: the sites and clients of the summary, None before
    all,       \* S.all: the devices that were loaded, None before
    site, client,  \* MS.site, MS.client: the choice; empty is "all"
    devs,      \* S.devs: the devices the pages list, None until the next load
    menu,      \* what the menus offer, with the numbers
    fresh,     \* what the cache would not ask for again
    promised,  \* the number on the option just chosen, None if it is past
    acts

vars == <<fleet, sum, all, site, client, devs, menu, fresh, promised, acts>>

InSite(D, S)   == {d \in D : S = {} \/ SiteOf[d] \in S}
InClient(D, C) == {d \in D : C = {} \/ ClientOf[d] \in C}
Sites(D)       == {SiteOf[d] : d \in D} \ {None}
Clients(D)     == {ClientOf[d] : d \in D} \ {None}

(* scope(): a site without devices is dropped first, then a client without    *)
(* devices on the sites that are left.                                        *)
KeptSites(D)   == site \cap Sites(D)
AnyClients(D)  == client \cap Clients(D)  \* mutant: whatever sites are left
KeptClients(D) == client \cap Clients(InSite(D, KeptSites(D)))
Listed(D)      == InClient(InSite(D, KeptSites(D)), KeptClients(D))

(* The options have the number of devices under the other menu's choice; one  *)
(* with no devices is offered only while it is chosen.                        *)
Options(known, chosen, D, of) ==
    [x \in {y \in known : y \in chosen \/ \E d \in D : of[d] = y} |->
        Cardinality({d \in D : of[d] = x})]

Menu(D, known) ==
    LET S == InSite(D, KeptSites(D))
        C == InClient(D, KeptClients(D)) IN
    [site   |-> Options(known.sites, KeptSites(D), C, SiteOf),
     client |-> Options(known.clients, KeptClients(D), S, ClientOf),
     nAll   |-> Cardinality(C), nCl |-> Cardinality(S)]

NoMenu == [site |-> <<>>, client |-> <<>>, nAll |-> 0, nCl |-> 0]

Scoped(D, known) ==
    /\ site' = KeptSites(D) /\ client' = KeptClients(D)
    /\ devs' = Listed(D) /\ menu' = Menu(D, known)

(* What a menu's button says: the number of all, or the sum of the chosen.    *)
Label(options, chosen, everything) ==
    LET picked == chosen \cap DOMAIN options IN
    IF picked = {} THEN everything
    ELSE MapThenSumSet(LAMBDA x : options[x], picked)

Known(D) == [sites |-> Site, clients |-> Clients(D)]

Init ==
    /\ fleet \in (SUBSET Dev) \ {{}}
    /\ site \in SUBSET Site /\ client \in SUBSET Client
    /\ sum = None /\ all = None /\ devs = None /\ menu = NoMenu
    /\ fresh = {} /\ promised = None /\ acts = 0

(* loadSummary(): asked for unless it is fresh; the scope is applied to the   *)
(* devices there are, and with none the menus are empty.                      *)
LoadSummary ==
    /\ sum' = IF "sum" \in fresh THEN sum ELSE Known(fleet)
    /\ IF all = None
       THEN menu' = NoMenu /\ UNCHANGED <<site, client, devs>>
       ELSE Scoped(all, sum')
    /\ fresh' = fresh \cup {"sum"}
    /\ UNCHANGED <<fleet, all, promised, acts>>

(* loadDevices(), which a page calls after the summary.                       *)
LoadDevices ==
    /\ sum # None
    /\ all' = IF "devs" \in fresh THEN all ELSE fleet
    /\ promised' = IF "devs" \in fresh THEN promised ELSE None
    /\ Scoped(all', sum)
    /\ fresh' = fresh \cup {"devs"}
    /\ UNCHANGED <<fleet, sum, acts>>

(* A tick of the menus (msBox): the choice changes at once, and go() loads    *)
(* the page again, which applies the scope.                                   *)
Apply == devs' = None /\ acts < MaxActs /\ acts' = acts + 1
Flip(S, x) == IF x \in S THEN S \ {x} ELSE S \cup {x}

PickSite(x) ==
    /\ x \in DOMAIN menu.site /\ Apply
    /\ site' = Flip(site, x)
    /\ promised' = IF site = {} /\ devs # None THEN menu.site[x] ELSE None
    /\ UNCHANGED <<fleet, sum, all, client, menu, fresh>>

PickClient(x) ==
    /\ x \in DOMAIN menu.client /\ Apply
    /\ client' = Flip(client, x)
    /\ promised' = IF client = {} /\ devs # None THEN menu.client[x] ELSE None
    /\ UNCHANGED <<fleet, sum, all, site, menu, fresh>>

ClearSites ==
    /\ site # {} /\ site' = {} /\ Apply
    /\ promised' = IF devs # None THEN menu.nAll ELSE None
    /\ UNCHANGED <<fleet, sum, all, client, menu, fresh>>

ClearClients ==
    /\ client # {} /\ client' = {} /\ Apply
    /\ promised' = IF devs # None THEN menu.nCl ELSE None
    /\ UNCHANGED <<fleet, sum, all, site, menu, fresh>>

(* A row of the overview's table of clients (setClient).                      *)
SetClient(x) ==
    /\ devs # None /\ x \in Clients(devs) /\ client' = {x} /\ Apply
    /\ promised' = None
    /\ UNCHANGED <<fleet, sum, all, site, menu, fresh>>

(* The caches run out: by their age, or because a change was sent (api).      *)
Outdated ==
    /\ fresh # {} /\ fresh' \in (SUBSET fresh) \ {fresh}
    /\ UNCHANGED <<fleet, sum, all, site, client, devs, menu, promised, acts>>

Arrives(d) ==
    /\ acts < MaxActs /\ acts' = acts + 1
    /\ fleet' = Flip(fleet, d) /\ fleet' # {}
    /\ UNCHANGED <<sum, all, site, client, devs, menu, fresh, promised>>

Next ==
    \/ LoadSummary \/ LoadDevices \/ Outdated
    \/ \E x \in Site : PickSite(x)
    \/ \E x \in Client : PickClient(x) \/ SetClient(x)
    \/ ClearSites \/ ClearClients
    \/ \E d \in Dev : Arrives(d)

Spec == Init /\ [][Next]_vars

(* What the constants may be: None is no site, no client, no set of devices,  *)
(* no number, and no summary.                                                 *)
Constants ==
    /\ IsFiniteSet(Dev) /\ IsFiniteSet(Site) /\ IsFiniteSet(Client)
    /\ SiteOf \in [Dev -> Site \cup {None}] /\ ClientOf \in [Dev -> Client \cup {None}]
    /\ MaxActs \in Nat
    /\ None \notin Site /\ None \notin Client /\ None \notin Nat
    /\ \A D \in SUBSET Dev : None # D /\ None # Known(D)

(*-------------------------------- properties -------------------------------*)
TypeOK ==
    /\ fleet \in SUBSET Dev /\ all \in (SUBSET Dev) \cup {None}
    /\ devs \in (SUBSET Dev) \cup {None}
    /\ site \in SUBSET Site /\ client \in SUBSET Client
    /\ fresh \subseteq {"sum", "devs"} /\ acts \in 0..MaxActs

(* Whatever was chosen, now or at an earlier visit, and whatever has left the *)
(* farm since, the pages never come up empty while there are devices.         *)
NeverEmpty == devs # None /\ all # {} => devs # {}

(* An option keeps its word: chosen with nothing else in its menu, it lists   *)
(* as many devices as the number on it, the other menu's choice being kept.   *)
OptionTells == promised # None /\ devs # None => Cardinality(devs) = promised

(* Both buttons say how many devices are listed, unless a site or client that *)
(* is chosen is not in the summary, which is older than the devices.          *)
LabelsAgree ==
    devs # None /\ site \subseteq sum.sites /\ client \subseteq sum.clients =>
        /\ Label(menu.site, site, menu.nAll) = Cardinality(devs)
        /\ Label(menu.client, client, menu.nCl) = Cardinality(devs)
=============================================================================
