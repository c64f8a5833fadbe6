-------------------------- MODULE HypervisorProofs --------------------------
(***************************************************************************)
(* Theorems about hypster and the machine below it, for any number of      *)
(* guests, pages and frames, on minster as well as on mipster.             *)
(***************************************************************************)
EXTENDS Hypervisor, DataLemmas

-----------------------------------------------------------------------------
(* The invariant, part by part.                                            *)
Kind == {"none", "call", "division", "invalid", "fault", "timer"}

Where == {"switch", "handle", "call", "touch", "copy", "copytouch"}

Typed ==
  /\ loop \in Loops /\ cur \in {Host} \cup Guest
  /\ cached \in Seq({Host} \cup Guest) /\ Host \in ToSet(cached) /\ cur \in ToSet(cached)
  /\ frames \in 0..MaxFrame /\ hpt \in Seq(0..frames) /\ Len(hpt) \in 1..MaxHost
  /\ cpt \in [Guest -> [Page -> 0..frames]]
  /\ vpt \in [Guest -> [Page -> 0..Len(hpt)]]
  /\ lo \in [Guest -> Nat \X Nat] /\ hi \in [Guest -> Nat \X Nat]
  /\ brk \in [Guest -> Nat]
  /\ exc \in [Guest -> [kind : Kind, page : Page]]
  /\ from \in Guest /\ to \in Guest /\ fault \in Page /\ rest \in SUBSET Page
  /\ hpc \in Where

(* Contexts that were ever allocated are on one of the two lists, once.    *)
Known == Len(used) + Len(free)

Lists ==
  /\ used \in Seq(Guest) /\ free \in Seq(Guest)
  /\ IsInjective(used) /\ IsInjective(free) /\ ToSet(used) \cap ToSet(free) = {}
  /\ ToSet(used) \cup ToSet(free) = 1..Known
  /\ status = "running" => to \in ToSet(used) /\ (hpc # "switch" => from \in ToSet(used))

(* The others have no cached context.                                      *)
Unborn == \A g \in Guest : g > Known => g \notin ToSet(cached) /\ cpt[g] = Empty

(* Pages of the hypervisor have frames of their own, and are in one entry  *)
(* of one page table of a guest.  The page that is being palloc'ed is not  *)
(* in any yet.                                                             *)
HostPrivate == \A m, n \in DOMAIN hpt : hpt[m] # 0 /\ hpt[m] = hpt[n] => m = n
PagesPrivate ==
  \A g, h \in Guest : \A p, q \in Page :
    vpt[g][p] # 0 /\ vpt[g][p] = vpt[h][q] => <<g, p>> = <<h, q>>
TouchedBefore == \A g \in Guest : \A p \in Page : vpt[g][p] # 0 => hpt[vpt[g][p]] # 0
Pallocating == hpc \in {"touch", "copytouch"}
Pallocated ==
  Pallocating =>
    \A g \in Guest : \A p \in Page :
      vpt[g][p] # Len(hpt) /\ (Last(hpt) # 0 => cpt[g][p] # Last(hpt))

(* What the machine has cached for one guest is not what the hypervisor    *)
(* has mapped for another.                                                 *)
CachedPrivate ==
  \A g, h \in Guest : \A p, q \in Page :
    cpt[g][p] # 0 /\ vpt[h][q] # 0 /\ cpt[g][p] = hpt[vpt[h][q]] => <<g, p>> = <<h, q>>

Pages ==
  /\ HostPrivate /\ PagesPrivate /\ TouchedBefore /\ Pallocated
  /\ CachedPrivate /\ FramesPrivate

(* minmob has one pending exception at a time, that of the guest which was *)
(* switched to last, and the hypervisor runs until it has handled it.  An  *)
(* exception that no handler catches stays behind in a deleted context.    *)
OneTrap ==
  loop = "minmob" =>
    /\ cur # Host => cur = from /\ hpc = "handle" /\ cur \in ToSet(used)
    /\ \A g \in ToSet(used) : exc[g].kind # "none" => g = from /\ hpc = "handle" /\ cur = Host
    /\ status # "multiple"

HyperBase == Typed /\ Lists /\ Unborn

-----------------------------------------------------------------------------
(* The round robin of hypster                                              *)
LEMMA Linked ==
  ASSUME used \in Seq(Guest), NEW g \in ToSet(used)
  PROVE  /\ Slot(g) \in DOMAIN used /\ used[Slot(g)] = g
         /\ Following(g) \in ToSet(used) /\ Following(g) \in Guest
         /\ used # <<>> /\ Head(used) \in ToSet(used)
<1>1. \E j \in DOMAIN used : used[j] = g
  BY DEF ToSet
<1>2. Slot(g) \in DOMAIN used /\ used[Slot(g)] = g
  BY <1>1, Zenon DEF Slot
<1>3. /\ DOMAIN used = 1..Len(used) /\ Len(used) \in Nat /\ used # <<>>
      /\ \A j \in DOMAIN used : used[j] \in Guest /\ used[j] \in ToSet(used)
  BY <1>1 DEF ToSet
<1>4. Head(used) = used[1] /\ 1 \in DOMAIN used
  BY <1>2, <1>3
<1>5. Slot(g) # Len(used) => Slot(g) + 1 \in DOMAIN used
  BY <1>2, <1>3
<1> QED
  BY <1>2, <1>3, <1>4, <1>5 DEF Following

-----------------------------------------------------------------------------
(* Switching: the context switched to is brought up to date, the others    *)
(* are left alone.                                                         *)
LEMMA Switched ==
  ASSUME Typed, NEW c \in {Host} \cup Guest, SwitchTo(c)
  PROVE  /\ cur' = c /\ cached' \in Seq({Host} \cup Guest)
         /\ ToSet(cached') = {c} \cup ToSet(cached)
         /\ cpt' \in [Guest -> [Page -> 0..frames]]
         /\ lo' \in [Guest -> Nat \X Nat] /\ hi' \in [Guest -> Nat \X Nat]
         /\ \A g \in Guest : g # c => cpt'[g] = cpt[g] /\ lo'[g] = lo[g] /\ hi'[g] = hi[g]
         /\ \A g \in Guest : \A p \in Page :
              \/ cpt'[g][p] = cpt[g][p]
              \/ g = c /\ cpt[g][p] = 0 /\ vpt[g][p] # 0 /\ cpt'[g][p] = hpt[vpt[g][p]]
         /\ c \in Guest => \A p \in Page :
              ToCopy(c, p) /\ vpt[c][p] # 0 /\ hpt[vpt[c][p]] # 0 => cpt'[c][p] # 0
<1> DEFINE S == {Host} \cup Guest
<1>1. CASE c = Host /\ UNCHANGED <<cached, cpt, lo, hi>>
  <2>1. Host \notin Guest
    BY HypervisorAssumption DEF Host, Guest
  <2>2. ToSet(cached') = {c} \cup ToSet(cached)
    BY <1>1 DEF Typed
  <2>3. /\ cur' = c /\ cached' \in Seq({Host} \cup Guest)
        /\ cpt' \in [Guest -> [Page -> 0..frames]]
        /\ lo' \in [Guest -> Nat \X Nat] /\ hi' \in [Guest -> Nat \X Nat]
    BY <1>1 DEF Typed, SwitchTo
  <2>4. cpt' = cpt /\ lo' = lo /\ hi' = hi /\ c \notin Guest
    BY <1>1, <2>1
  <2> QED
    BY <2>2, <2>3, <2>4
<1>2. CASE /\ c # Host
           /\ cached' = IF c \in ToSet(cached) THEN cached ELSE <<c>> \o cached
           /\ cpt' = [cpt EXCEPT ![c] = Restored(c)]
           /\ lo' = [lo EXCEPT ![c] = <<@[2], @[2]>>]
           /\ hi' = [hi EXCEPT ![c] = <<@[1], @[1]>>]
  <2>1. c \in Guest
    BY <1>2
  <2>2. cached' \in Seq(S) /\ ToSet(cached') = {c} \cup ToSet(cached)
    <3>1. cached \in Seq(S) /\ c \in S
      BY DEF Typed
    <3>2. CASE c \in ToSet(cached)
      BY <1>2, <3>1, <3>2
    <3>3. CASE c \notin ToSet(cached)
      <4> HIDE DEF S
      <4>1. <<c>> \o cached \in Seq(S) /\ ToSet(<<c>> \o cached) = {c} \cup ToSet(cached)
        BY <3>1, Pushed
      <4> QED
        BY <1>2, <3>3, <4>1
    <3> QED
      BY <3>2, <3>3
  <2>3. ASSUME NEW p \in Page
        PROVE  /\ Restored(c)[p] \in 0..frames
               /\ Restored(c)[p] = cpt[c][p] \/ (cpt[c][p] = 0 /\ vpt[c][p] # 0 /\ Restored(c)[p] = hpt[vpt[c][p]])
               /\ ToCopy(c, p) /\ vpt[c][p] # 0 /\ hpt[vpt[c][p]] # 0 => Restored(c)[p] # 0
    <3>1. cpt[c][p] \in 0..frames /\ vpt[c][p] \in 0..Len(hpt) /\ Len(hpt) \in Nat /\ frames \in Nat
      BY <2>1 DEF Typed
    <3>2. vpt[c][p] # 0 => vpt[c][p] \in DOMAIN hpt /\ hpt[vpt[c][p]] \in 0..frames
      <4>1. hpt \in Seq(0..frames)
        BY DEF Typed
      <4> QED
        BY <3>1, <4>1
    <3>3. Restored(c)[p] = IF cpt[c][p] = 0 /\ ToCopy(c, p) THEN FrameOf(vpt[c][p]) ELSE cpt[c][p]
      BY DEF Restored
    <3> QED
      BY <3>1, <3>2, <3>3 DEF FrameOf
  <2>4. Restored(c) \in [Page -> 0..frames]
    BY <2>3 DEF Restored
  <2>5. cpt' \in [Guest -> [Page -> 0..frames]] /\ cpt'[c] = Restored(c)
    BY <1>2, <2>1, <2>4 DEF Typed
  <2>6. lo' \in [Guest -> Nat \X Nat] /\ hi' \in [Guest -> Nat \X Nat]
    BY <1>2, <2>1 DEF Typed
  <2>7. \A g \in Guest : g # c => cpt'[g] = cpt[g] /\ lo'[g] = lo[g] /\ hi'[g] = hi[g]
    BY <1>2 DEF Typed
  <2>8. \A g \in Guest : \A p \in Page :
          \/ cpt'[g][p] = cpt[g][p]
          \/ g = c /\ cpt[g][p] = 0 /\ vpt[g][p] # 0 /\ cpt'[g][p] = hpt[vpt[g][p]]
    BY <2>3, <2>5, <2>7
  <2> QED
    BY <2>2, <2>3, <2>5, <2>6, <2>7, <2>8 DEF SwitchTo
<1> QED
  BY <1>1, <1>2 DEF SwitchTo

(* What the machine resumes is a context it knows.                         *)
LEMMA Resumed ==
  ASSUME Typed, Resume
  PROVE  \E c \in ToSet(cached) : c \in {Host} \cup Guest /\ SwitchTo(c) /\ (loop = "minmob" => c = Host)
<1>1. Host \in ToSet(cached)
  BY DEF Typed
<1>2. cached # <<>> /\ cached \in Seq({Host} \cup Guest)
  BY <1>1 DEF Typed, ToSet
<1>3. Head(cached) \in ToSet(cached) /\ Head(cached) \in {Host} \cup Guest
  <2>1. 1 \in DOMAIN cached /\ Head(cached) = cached[1]
    BY <1>2
  <2> QED
    BY <1>2, <2>1 DEF ToSet
<1> QED
  BY <1>1, <1>3 DEF Resume

-----------------------------------------------------------------------------
(* The child has not been on the list of running contexts.                 *)
LEMMA Newborn ==
  ASSUME Typed, Lists, Child <= MaxGuest
  PROVE  /\ Child \in Guest /\ Child \notin ToSet(used) /\ Known \in Nat
         /\ free = <<>> => Child = Known + 1
         /\ free # <<>> => Child \in ToSet(free) /\ Child = Head(free) /\ Child <= Known
<1>1. Len(used) \in Nat /\ Len(free) \in Nat /\ MaxGuest \in Nat /\ free \in Seq(Guest)
  BY HypervisorAssumption DEF Lists
<1>2. CASE free = <<>>
  <2>1. Child = Known + 1 /\ Known \in Nat
    BY <1>1, <1>2 DEF Child, Known
  <2>2. Child \notin 1..Known
    BY <2>1
  <2> QED
    BY <1>1, <1>2, <2>1, <2>2 DEF Lists, Guest
<1>3. CASE free # <<>>
  <2>1. Child = Head(free) /\ Head(free) \in Guest
    BY <1>1, <1>3 DEF Child
  <2>2. Child \in ToSet(free)
    <3>1. Head(free) = free[1] /\ 1 \in DOMAIN free
      BY <1>1, <1>3
    <3> QED
      BY <2>1, <3>1 DEF ToSet
  <2>3. Child \in 1..Known
    BY <2>2 DEF Lists
  <2>4. Known \in Nat
    BY <1>1 DEF Known
  <2> QED
    BY <1>3, <2>1, <2>2, <2>3, <2>4 DEF Lists
<1> QED
  BY <1>2, <1>3

(* A deleted context changes the list.                                     *)
LEMMA Deleted ==
  ASSUME Typed, Lists, from \in ToSet(used), Delete
  PROVE  /\ Lists' /\ Known' = Known /\ ToSet(used') = ToSet(used) \ {from}
         /\ to' \in Guest /\ hpc' \in {hpc, "switch"} /\ status' \in {status, "returned"}
         /\ UNCHANGED <<from, fault, rest, recycled>>
<1>1. /\ used \in Seq(Guest) /\ free \in Seq(Guest) /\ IsInjective(used) /\ IsInjective(free)
      /\ ToSet(used) \cap ToSet(free) = {} /\ ToSet(used) \cup ToSet(free) = 1..Known
  BY DEF Lists
<1>2. Slot(from) \in DOMAIN used /\ used[Slot(from)] = from
  BY <1>1, Linked
<1>3. from \in Guest /\ from \notin ToSet(free)
  BY <1>1 DEF Typed
<1>4. /\ used' \in Seq(Guest) /\ Len(used') = Len(used) - 1 /\ IsInjective(used')
      /\ ToSet(used') = ToSet(used) \ {from}
  BY <1>1, <1>2, Unlinked DEF Delete, Remaining
<1>5. /\ free' \in Seq(Guest) /\ Len(free') = Len(free) + 1 /\ IsInjective(free')
      /\ ToSet(free') = {from} \cup ToSet(free)
  BY <1>1, <1>3, Pushed DEF Delete
<1>6. Len(used) \in Nat /\ Len(free) \in Nat
  BY <1>1
<1>7. Known' = Known
  BY <1>4, <1>5, <1>6 DEF Known
<1>8. ToSet(used') \cap ToSet(free') = {} /\ ToSet(used') \cup ToSet(free') = 1..Known'
  BY <1>1, <1>4, <1>5, <1>7
<1>9. CASE Len(used) = 1 /\ status' = "returned" /\ UNCHANGED <<hpc, to>>
  BY <1>4, <1>5, <1>7, <1>8, <1>9 DEF Lists, Delete, Typed
<1>10. CASE Len(used) > 1 /\ hpc' = "switch" /\ to' = Head(used') /\ UNCHANGED status
  <2>1. used' # <<>> /\ Head(used') = used'[1] /\ 1 \in DOMAIN used' /\ Head(used') \in Guest
    BY <1>4, <1>6, <1>10
  <2>2. to' \in ToSet(used')
    BY <1>10, <2>1 DEF ToSet
  <2> QED
    BY <1>4, <1>5, <1>7, <1>8, <1>10, <2>1, <2>2 DEF Lists, Delete
<1> QED
  BY <1>9, <1>10 DEF Delete

(* A child is linked in front of the list.                                 *)
ChildLinked ==
  /\ used' = <<Child>> \o used /\ free' = IF free # <<>> THEN Tail(free) ELSE free
  /\ UNCHANGED <<from, to>>

LEMMA Listed ==
  ASSUME Typed, Lists, {from, to} \subseteq ToSet(used), Child <= MaxGuest, ChildLinked
  PROVE  /\ Lists' /\ ToSet(used') = {Child} \cup ToSet(used)
         /\ Known' = IF free # <<>> THEN Known ELSE Known + 1
<1>1. /\ used \in Seq(Guest) /\ free \in Seq(Guest) /\ IsInjective(used) /\ IsInjective(free)
      /\ ToSet(used) \cap ToSet(free) = {} /\ ToSet(used) \cup ToSet(free) = 1..Known
      /\ Len(used) \in Nat /\ Len(free) \in Nat
  BY DEF Lists
<1>2. /\ Child \in Guest /\ Child \notin ToSet(used) /\ Known \in Nat
      /\ free = <<>> => Child = Known + 1
      /\ free # <<>> => Child = Head(free)
  BY Newborn
<1>3. /\ used' \in Seq(Guest) /\ Len(used') = Len(used) + 1 /\ IsInjective(used')
      /\ ToSet(used') = {Child} \cup ToSet(used)
  BY <1>1, <1>2, Pushed DEF ChildLinked
<1>4. to' \in ToSet(used') /\ from' \in ToSet(used')
  BY <1>3 DEF ChildLinked
<1>5. CASE free = <<>>
  <2>1. Known' = Known + 1
    BY <1>1, <1>3, <1>5 DEF Known, ChildLinked
  <2>2. ToSet(used') \cup ToSet(free') = (1..Known) \cup {Known + 1}
    BY <1>1, <1>2, <1>3, <1>5 DEF ChildLinked
  <2>3. (1..Known) \cup {Known + 1} = 1..(Known + 1)
    BY <1>2
  <2>4. free' = free /\ Child \notin ToSet(free)
    <3>1. Known + 1 \notin 1..Known
      BY <1>2
    <3> QED
      BY <1>1, <1>2, <1>5, <3>1 DEF ChildLinked
  <2> QED
    BY <1>1, <1>3, <1>4, <1>5, <2>1, <2>2, <2>3, <2>4 DEF Lists, ChildLinked
<1>6. CASE free # <<>>
  <2>1. /\ free' \in Seq(Guest) /\ Len(free') = Len(free) - 1 /\ IsInjective(free')
        /\ Head(free) \in ToSet(free) /\ ToSet(free') = ToSet(free) \ {Child}
    BY <1>1, <1>2, <1>6, Popped DEF ChildLinked
  <2>2. Known' = Known
    <3>1. Len(used') = Len(used) + 1 /\ Len(free') = Len(free) - 1
      BY <1>3, <2>1, Zenon
    <3>2. Len(used) \in Nat /\ Len(free) \in Nat
      BY <1>1, Zenon
    <3>3. \A a, b \in Nat : \A c, d : c = a + 1 /\ d = b - 1 => c + d = a + b
      OBVIOUS
    <3>4. Len(used') + Len(free') = Len(used) + Len(free)
      BY <3>1, <3>2, <3>3
    <3> QED
      BY <3>4 DEF Known
  <2>3. ToSet(used') \cap ToSet(free') = {} /\ ToSet(used') \cup ToSet(free') = 1..Known'
    BY <1>1, <1>2, <1>3, <1>6, <2>1, <2>2
  <2> QED
    BY <1>3, <1>4, <1>6, <2>1, <2>2, <2>3 DEF Lists, ChildLinked
<1> QED
  BY <1>5, <1>6

(* A switch to a context of a list leaves those never allocated alone.     *)
LEMMA UnbornSwitched ==
  ASSUME Typed, Lists, Unborn, NEW c \in {Host} \cup Guest, SwitchTo(c),
         c \in ToSet(cached) \cup ToSet(used), UNCHANGED <<used, free>>
  PROVE  Unborn'
<1>1. Known' = Known /\ Known \in Nat
  BY DEF Known, Lists
<1> SUFFICES ASSUME NEW g \in Guest, g > Known
             PROVE  g \notin ToSet(cached') /\ cpt'[g] = Empty
  BY <1>1 DEF Unborn, Empty
<1>2. g \notin ToSet(cached) /\ cpt[g] = Empty
  BY DEF Unborn
<1>3. g \notin ToSet(used)
  <2>1. ToSet(used) \subseteq 1..Known
    BY DEF Lists
  <2>2. g \notin 1..Known
    BY <1>1
  <2> QED
    BY <2>1, <2>2
<1>4. ToSet(cached') = {c} \cup ToSet(cached) /\ (g # c => cpt'[g] = cpt[g])
  BY Switched
<1> QED
  BY <1>2, <1>3, <1>4

LEMMA UnbornKept ==
  ASSUME Unborn, UNCHANGED <<cached, cpt>>, Known \in Nat, Known' \in Nat, Known' >= Known
  PROVE  Unborn'
BY DEF Unborn, Empty, Guest

(* The types of what the machine keeps, after a switch that followed the   *)
(* allocation of frames.                                                   *)
LEMMA TypedSwitched ==
  ASSUME Typed, NEW c \in {Host} \cup Guest, SwitchTo(c),
         frames' \in 0..MaxFrame, frames' >= frames, hpt' \in Seq(0..frames'), Len(hpt') = Len(hpt),
         hpc' \in Where, from' \in Guest,
         UNCHANGED <<loop, vpt, brk, fault, rest, to, exc>>
  PROVE  Typed'
<1>1. /\ cur' = c /\ cached' \in Seq({Host} \cup Guest)
      /\ ToSet(cached') = {c} \cup ToSet(cached)
      /\ cpt' \in [Guest -> [Page -> 0..frames]]
      /\ lo' \in [Guest -> Nat \X Nat] /\ hi' \in [Guest -> Nat \X Nat]
  BY Switched
<1>2. 0..frames \subseteq 0..frames'
  BY DEF Typed
<1>3. cpt' \in [Guest -> [Page -> 0..frames']]
  BY <1>1, <1>2
<1>4. vpt' \in [Guest -> [Page -> 0..Len(hpt')]]
  BY DEF Typed
<1>5. Len(hpt') \in 1..MaxHost
  BY DEF Typed
<1> QED
  BY <1>1, <1>3, <1>4, <1>5 DEF Typed, Kind, Where

(* map_page of the hypervisor, for a guest that faulted or for a child.    *)
LEMMA MapTyped ==
  ASSUME Typed, NEW c \in Guest, MapPage(c, fault, Len(hpt))
  PROVE  /\ vpt' \in [Guest -> [Page -> 0..Len(hpt)]]
         /\ lo' \in [Guest -> Nat \X Nat] /\ hi' \in [Guest -> Nat \X Nat]
<1>1. fault \in Page /\ Page \subseteq Nat /\ Len(hpt) \in 0..Len(hpt)
  BY HypervisorAssumption DEF Typed, Page
<1>2. \A r \in Nat \X Nat : Stretch(r, fault) \in Nat \X Nat
  BY <1>1 DEF Stretch
<1>3. vpt' = vpt \/ vpt' = [vpt EXCEPT ![c][fault] = Len(hpt)]
  BY DEF MapPage
<1>4. lo' = lo \/ lo' = [lo EXCEPT ![c] = Stretch(@, fault)]
  BY DEF MapPage
<1>5. hi' = hi \/ hi' = [hi EXCEPT ![c] = Stretch(@, fault)]
  BY DEF MapPage
<1>6. vpt' \in [Guest -> [Page -> 0..Len(hpt)]]
  <2>1. vpt \in [Guest -> [Page -> 0..Len(hpt)]]
    BY DEF Typed
  <2>2. [vpt[c] EXCEPT ![fault] = Len(hpt)] \in [Page -> 0..Len(hpt)]
    BY <1>1, <2>1
  <2> QED
    BY <1>3, <2>1, <2>2
<1>7. lo \in [Guest -> Nat \X Nat] /\ hi \in [Guest -> Nat \X Nat]
  BY DEF Typed
<1>8. Stretch(lo[c], fault) \in Nat \X Nat /\ Stretch(hi[c], fault) \in Nat \X Nat
  BY <1>2, <1>7
<1> HIDE DEF Stretch
<1>9. lo' \in [Guest -> Nat \X Nat]
  BY <1>4, <1>7, <1>8
<1>10. hi' \in [Guest -> Nat \X Nat]
  BY <1>5, <1>7, <1>8
<1> QED
  BY <1>6, <1>9, <1>10

-----------------------------------------------------------------------------
(* Types, lists and the contexts that were never allocated.                *)
LEMMA BaseStarts == ASSUME HyperInit PROVE HyperBase
<1>1. /\ 1 \in Guest /\ 0 \in Page /\ MaxPage \in Page /\ Host \notin Guest
      /\ MaxPage \in Nat /\ Guest \subseteq Nat
  BY HypervisorAssumption DEF Guest, Page, Host
<1>2. Typed
  <2>1. cached \in Seq({Host} \cup Guest) /\ Host \in ToSet(cached) /\ cur \in ToSet(cached)
    BY DEF HyperInit, ToSet
  <2>2. hpt \in Seq(0..frames) /\ Len(hpt) = 2 /\ frames = 2
    BY DEF HyperInit
  <2>3. Empty \in [Page -> 0..frames] /\ Empty \in [Page -> 0..2]
    BY <2>2 DEF Empty
  <2>4. cpt \in [Guest -> [Page -> 0..frames]]
    BY <2>3 DEF HyperInit
  <2>5. [Empty EXCEPT ![0] = 1, ![MaxPage] = 2] \in [Page -> 0..2]
    BY <1>1, <2>3
  <2>6. vpt \in [Guest -> [Page -> 0..Len(hpt)]]
    BY <2>2, <2>3, <2>5 DEF HyperInit
  <2>7. lo \in [Guest -> Nat \X Nat] /\ hi \in [Guest -> Nat \X Nat] /\ brk \in [Guest -> Nat]
    BY <1>1 DEF HyperInit
  <2>8. exc \in [Guest -> [kind : Kind, page : Page]]
    BY <1>1 DEF HyperInit, NoException, Kind
  <2> QED
    BY <1>1, <2>1, <2>2, <2>4, <2>6, <2>7, <2>8, HypervisorAssumption DEF Typed, Where, HyperInit
<1>3. used = <<1>> /\ free = <<>> /\ Len(used) = 1 /\ Len(free) = 0 /\ Known = 1
  BY DEF HyperInit, Known
<1>4. Lists
  <2>1. ToSet(used) = {1} /\ ToSet(free) = {} /\ IsInjective(used) /\ IsInjective(free)
    BY <1>3 DEF ToSet, IsInjective
  <2> QED
    BY <1>1, <1>3, <2>1 DEF Lists, HyperInit
<1>5. Unborn
  BY <1>1, <1>3 DEF Unborn, HyperInit, ToSet
<1> QED
  BY <1>2, <1>4, <1>5 DEF HyperBase

LEMMA BaseKept == ASSUME HyperBase, [HyperNext]_hyperVars PROVE HyperBase'
<1> USE DEF HyperBase
<1>1. /\ Known \in Nat /\ frames \in Nat /\ Len(hpt) \in Nat /\ 0 \in Page /\ Host \notin Guest
      /\ Page \subseteq Nat /\ Guest \subseteq Nat /\ NoException \in [kind : Kind, page : Page]
  <2>1. 0 \in Page /\ Host \notin Guest /\ Page \subseteq Nat /\ Guest \subseteq Nat
    BY HypervisorAssumption DEF Page, Guest, Host
  <2>2. Known \in Nat
    BY DEF Lists, Known
  <2>3. frames \in Nat /\ hpt \in Seq(0..frames)
    BY HypervisorAssumption DEF Typed
  <2>4. NoException \in [kind : Kind, page : Page]
    BY <2>1 DEF NoException, Kind
  <2> QED
    BY <2>1, <2>2, <2>3, <2>4
<1>2. CASE UNCHANGED hyperVars
  BY <1>2 DEF hyperVars, machineVars, tableVars, listVars, hostVars, Typed, Lists, Unborn, Known, Empty, Kind, Where
<1>3. ASSUME status = "running", Switch
      PROVE  HyperBase'
  <2>1. to \in {Host} \cup Guest /\ SwitchTo(to) /\ to \in ToSet(used) /\ to \in Guest
    BY <1>3 DEF Switch, Lists, Typed
  <2>2. Typed'
    <3>1. frames' \in 0..MaxFrame /\ frames' >= frames /\ hpt' \in Seq(0..frames') /\ Len(hpt') = Len(hpt)
      BY <1>1, <1>3 DEF Switch, Typed
    <3>2. hpc' \in Where /\ from' \in Guest /\ UNCHANGED <<loop, vpt, brk, fault, rest, to, exc>>
      BY <1>3, <2>1 DEF Switch, Where
    <3> QED
      BY <2>1, <3>1, <3>2, TypedSwitched
  <2>3. Lists'
    BY <1>3, <2>1 DEF Switch, listVars, Lists, Known
  <2>4. Unborn'
    BY <1>3, <2>1, UnbornSwitched DEF Switch, listVars
  <2> QED
    BY <2>2, <2>3, <2>4
<1>4. ASSUME status = "running", Interrupt
      PROVE  HyperBase'
  <2>1. PICK c \in ToSet(cached) : c \in {Host} \cup Guest /\ SwitchTo(c)
    BY <1>4, Resumed DEF Interrupt
  <2>2. frames' \in 0..MaxFrame /\ frames' >= frames
    BY <1>1, <1>4, HypervisorAssumption DEF Interrupt
  <2>3. hpt' \in Seq(0..frames')
    BY <1>1, <1>4, <2>2, Wider DEF Interrupt, Typed
  <2>4. Typed'
    BY <1>4, <2>1, <2>2, <2>3, TypedSwitched DEF Interrupt, hostVars, Typed
  <2>5. Lists'
    BY <1>4 DEF Interrupt, hostVars, listVars, Lists, Known
  <2>6. Unborn'
    BY <1>4, <2>1, UnbornSwitched DEF Interrupt, listVars
  <2> QED
    BY <2>4, <2>5, <2>6
<1>5. ASSUME status = "running", Trap
      PROVE  HyperBase'
  <2>1. cur \in Guest
    BY <1>5 DEF Trap, Typed
  <2>2. PICK e \in Raised(cur) : Throw(cur, e)
    BY <1>5 DEF Trap
  <2>3. e \in [kind : Kind, page : Page]
    BY <1>1 DEF Raised, Kind
  <2>4. exc' \in [Guest -> [kind : Kind, page : Page]] /\ cur' \in {cur, Host}
    BY <2>1, <2>2, <2>3 DEF Throw, Typed
  <2>5. status' = "running" => status = "running"
    BY <1>5
  <2>6. Typed' /\ Lists' /\ Unborn'
    BY <1>5, <2>4, <2>5 DEF Trap, tableVars, listVars, hostVars, Typed, Lists, Unborn, Known, Empty, Kind, Where
  <2> QED
    BY <2>6
<1>6. ASSUME status = "running", Handle
      PROVE  HyperBase'
  <2>1. from \in Guest /\ from \in ToSet(used) /\ used \in Seq(Guest)
    BY <1>6 DEF Handle, At, Typed, Lists
  <2>2. /\ Following(from) \in ToSet(used) /\ Following(from) \in Guest
    BY <2>1, Linked
  <2>3. exc' \in [Guest -> [kind : Kind, page : Page]]
    BY <1>1, <1>6 DEF Handle, TimerDone, Cleared, Typed
  <2>4. UNCHANGED <<loop, cur, cached, cpt, frames, vpt, lo, hi, brk, from>>
    BY <1>6 DEF Handle, tableVars, TimerDone, Proceed, Delete
  <2>5. exc[from].page \in Page
    BY <2>1 DEF Typed
  <2>6. ASSUME Delete, UNCHANGED hpt
        PROVE  HyperBase'
    <3>1. /\ Lists' /\ Known' = Known /\ to' \in Guest /\ hpc' \in {hpc, "switch"}
          /\ UNCHANGED <<from, fault, rest>>
      BY <2>1, <2>6, Deleted
    <3>2. Typed'
      BY <2>3, <2>4, <2>6, <3>1 DEF Typed, Kind, Where
    <3>3. Unborn'
      BY <1>1, <2>4, <3>1, UnbornKept
    <3> QED
      BY <3>1, <3>2, <3>3
  <2>7. ASSUME UNCHANGED <<used, free, status>>, hpt' = hpt \/ (hpt' = Append(hpt, 0) /\ Len(hpt) < MaxHost),
               to' \in ToSet(used), to' \in Guest, fault' \in Page, rest' = rest, hpc' \in {"switch", "call", "touch"}
        PROVE  HyperBase'
    <3>1. hpt' \in Seq(0..frames) /\ Len(hpt') \in 1..MaxHost /\ Len(hpt) <= Len(hpt')
      <4>1. hpt \in Seq(0..frames) /\ 0 \in 0..frames /\ Len(hpt) \in 1..MaxHost /\ MaxHost \in Nat
        BY <1>1, HypervisorAssumption DEF Typed
      <4>2. Append(hpt, 0) \in Seq(0..frames) /\ Len(Append(hpt, 0)) = Len(hpt) + 1
        BY <4>1, Appended
      <4> QED
        BY <1>1, <2>7, <4>1, <4>2
    <3>2. 0..Len(hpt) \subseteq 0..Len(hpt')
      BY <1>1, <3>1
    <3>3. vpt' \in [Guest -> [Page -> 0..Len(hpt')]]
      BY <2>4, <3>2 DEF Typed
    <3>4. Typed'
      BY <2>3, <2>4, <2>7, <3>1, <3>3 DEF Typed, Kind, Where
    <3>5. Lists'
      BY <2>1, <2>4, <2>7 DEF Lists, Known
    <3>6. Unborn'
      BY <1>1, <2>4, <2>7, UnbornKept DEF Known
    <3> QED
      BY <3>4, <3>5, <3>6
  <2>8. CASE TimerDone /\ UNCHANGED <<listVars, hpt, status>>
    BY <2>2, <2>7, <2>8 DEF TimerDone, Proceed, listVars, Typed
  <2>9. CASE exc[from].kind = "call" /\ Cleared /\ hpc' = "call" /\ UNCHANGED <<listVars, hpt, from, fault, rest, to, status>>
    BY <1>6, <2>7, <2>9 DEF listVars, Typed, Lists
  <2>10. CASE exc[from].kind \in {"division", "invalid"} /\ Delete /\ UNCHANGED hpt
    BY <2>6, <2>10
  <2>11. CASE /\ Len(hpt) < MaxHost
              /\ hpt' = Append(hpt, 0) /\ fault' = exc[from].page /\ hpc' = "touch"
              /\ UNCHANGED <<listVars, from, rest, to, status>>
    BY <1>6, <2>5, <2>7, <2>11 DEF listVars, Typed, Lists
  <2>12. CASE Len(hpt) = MaxHost /\ Delete /\ UNCHANGED hpt
    BY <2>6, <2>12
  <2> QED
    BY <1>6, <2>8, <2>9, <2>10, <2>11, <2>12 DEF Handle
<1>7. ASSUME status = "running", Touch
      PROVE  HyperBase'
  <2>1. CASE /\ frames < MaxFrame
             /\ frames' = frames + 1
             /\ hpt' = [hpt EXCEPT ![Len(hpt)] = frames']
             /\ Resume /\ UNCHANGED status
    <3>1. PICK c \in ToSet(cached) : c \in {Host} \cup Guest /\ SwitchTo(c)
      BY <2>1, Resumed
    <3>2. frames' \in 0..MaxFrame /\ frames' >= frames /\ frames' \in 0..frames'
      BY <1>1, <2>1, HypervisorAssumption
    <3>3. hpt \in Seq(0..frames')
      BY <1>1, <3>2, Wider DEF Typed
    <3>4. hpt' \in Seq(0..frames') /\ Len(hpt') = Len(hpt)
      <4>1. Len(hpt) \in 1..Len(hpt)
        BY <1>1, HypervisorAssumption DEF Typed
      <4> QED
        BY <2>1, <3>2, <3>3, <4>1, Replaced
    <3>5. Typed'
      BY <1>7, <3>1, <3>2, <3>4, TypedSwitched DEF Touch, hostVars, Typed
    <3>6. Lists'
      BY <1>7, <2>1 DEF Touch, hostVars, listVars, Lists, Known
    <3>7. Unborn'
      BY <1>7, <3>1, UnbornSwitched DEF Touch, listVars
    <3> QED
      BY <3>5, <3>6, <3>7
  <2>2. CASE /\ frames = MaxFrame /\ status' = "exited"
             /\ UNCHANGED <<cur, cached, cpt, lo, hi, frames, hpt>>
    BY <1>7, <2>2 DEF Touch, listVars, hostVars, Typed, Lists, Unborn, Known, Empty, Kind, Where
  <2> QED
    BY <1>7, <2>1, <2>2 DEF Touch
<1>8. ASSUME status = "running", Map
      PROVE  HyperBase'
  <2>1. from \in Guest /\ from \in ToSet(used) /\ used \in Seq(Guest) /\ fault \in Page
    BY <1>8 DEF Map, Touched, At, Typed, Lists
  <2>2. /\ Following(from) \in ToSet(used) /\ Following(from) \in Guest
    BY <2>1, Linked
  <2>3. /\ vpt' \in [Guest -> [Page -> 0..Len(hpt)]]
        /\ lo' \in [Guest -> Nat \X Nat] /\ hi' \in [Guest -> Nat \X Nat]
    BY <1>8, <2>1, MapTyped DEF Map
  <2>4. Typed'
    BY <1>8, <2>2, <2>3 DEF Map, Proceed, machineVars, Typed, Kind, Where
  <2>5. Lists'
    BY <1>8, <2>2 DEF Map, Proceed, listVars, Lists, Known
  <2>6. Unborn'
    BY <1>1, <1>8, UnbornKept DEF Map, machineVars, listVars, Known
  <2> QED
    BY <2>4, <2>5, <2>6
<1>9. ASSUME status = "running", ExitCall \/ WaitCall \/ PostCall \/ PlainCall
      PROVE  HyperBase'
  <2>1. from \in Guest /\ from \in ToSet(used) /\ used \in Seq(Guest)
    BY <1>9 DEF ExitCall, WaitCall, PostCall, PlainCall, Calling, At, Typed, Lists
  <2>2. /\ Following(from) \in ToSet(used) /\ Following(from) \in Guest
    BY <2>1, Linked
  <2>3. UNCHANGED <<loop, cur, cached, cpt, frames, hpt, exc, vpt, lo, hi, used, free, status>>
    BY <1>9 DEF ExitCall, WaitCall, PostCall, PlainCall, Others, machineVars, tableVars, listVars
  <2>4. hpc' = "switch" /\ to' = Following(from) /\ from' = from /\ fault' = fault /\ rest' = rest
    BY <1>9 DEF ExitCall, WaitCall, PostCall, PlainCall, Proceed
  <2>5. brk' \in [Guest -> Nat]
    <3>1. brk \in [Guest -> Nat]
      BY DEF Typed
    <3>2. brk' \in {brk, [brk EXCEPT ![from] = @ + 1]}
      BY <1>9 DEF ExitCall, WaitCall, PostCall, PlainCall, tableVars
    <3>3. brk[from] + 1 \in Nat
      BY <2>1, <3>1
    <3> QED
      BY <3>1, <3>2, <3>3
  <2>6. Typed'
    BY <2>2, <2>3, <2>4, <2>5 DEF Typed, Kind, Where
  <2>7. Lists'
    BY <2>2, <2>3, <2>4 DEF Lists, Known
  <2>8. Unborn'
    BY <1>1, <2>3, UnbornKept DEF Known
  <2> QED
    BY <2>6, <2>7, <2>8
<1>10. ASSUME status = "running", UnknownCall
       PROVE  HyperBase'
  <2>1. from \in Guest /\ from \in ToSet(used) /\ Delete
    BY <1>10 DEF UnknownCall, Calling, At, Typed, Lists
  <2>2. /\ Lists' /\ Known' = Known /\ to' \in Guest /\ hpc' \in {hpc, "switch"}
        /\ UNCHANGED <<from, fault, rest>>
    BY <2>1, Deleted
  <2>3. Typed'
    BY <1>10, <2>2 DEF UnknownCall, Others, machineVars, tableVars, Typed, Kind, Where
  <2>4. Unborn'
    BY <1>1, <1>10, <2>2, UnbornKept DEF UnknownCall, Others, machineVars
  <2> QED
    BY <2>2, <2>3, <2>4
<1>11. ASSUME status = "running", ForkCall
       PROVE  HyperBase'
  <2>1. /\ from \in Guest /\ {from, to} \subseteq ToSet(used) /\ Child <= MaxGuest
        /\ UNCHANGED <<machineVars, from, fault, to, status>> /\ hpc' = "copy"
    BY <1>11 DEF ForkCall, Calling, At, Typed, Lists
  <2>2. /\ Lists' /\ Known' = IF free # <<>> THEN Known ELSE Known + 1
    BY <1>11, <2>1, Listed DEF ForkCall, ChildLinked
  <2>3. Child \in Guest
    BY <2>1, Newborn
  <2>4. vpt' \in [Guest -> [Page -> 0..Len(hpt)]]
    <3>1. Empty \in [Page -> 0..Len(hpt)]
      BY <1>1 DEF Empty
    <3> QED
      BY <1>11, <3>1 DEF ForkCall, Typed
  <2>5. /\ lo' \in [Guest -> Nat \X Nat] /\ hi' \in [Guest -> Nat \X Nat] /\ brk' \in [Guest -> Nat]
        /\ exc' \in [Guest -> [kind : Kind, page : Page]]
    BY <1>11, <2>1 DEF ForkCall, Typed
  <2>6. rest' \in SUBSET Page
    BY <1>11 DEF ForkCall, Mapped
  <2>7. Typed'
    BY <2>1, <2>4, <2>5, <2>6 DEF machineVars, Typed, Kind, Where
  <2>8. Unborn'
    BY <1>1, <2>1, <2>2, UnbornKept DEF machineVars
  <2> QED
    BY <2>2, <2>7, <2>8
<1>12. ASSUME status = "running", NEW p \in Page, CopyPalloc(p)
       PROVE  HyperBase'
  <2>1. /\ UNCHANGED <<loop, cur, cached, cpt, frames, vpt, lo, hi, brk, used, free, exc, from, rest, to>>
        /\ hpc = "copy" /\ hpc' \in {"copy", "copytouch"} /\ fault' \in Page
    BY <1>12 DEF CopyPalloc, Copying, At, tableVars, listVars, hostVars, Typed
  <2>2. hpt' \in Seq(0..frames) /\ Len(hpt') \in 1..MaxHost /\ Len(hpt) <= Len(hpt')
    <3>1. hpt \in Seq(0..frames) /\ 0 \in 0..frames /\ Len(hpt) \in 1..MaxHost /\ MaxHost \in Nat
      BY <1>1, HypervisorAssumption DEF Typed
    <3>2. Append(hpt, 0) \in Seq(0..frames) /\ Len(Append(hpt, 0)) = Len(hpt) + 1
      BY <3>1, Appended
    <3>3. hpt' = hpt \/ (Len(hpt) < MaxHost /\ hpt' = Append(hpt, 0))
      BY <1>12 DEF CopyPalloc
    <3>4. CASE hpt' = hpt
      BY <3>1, <3>4
    <3>5. CASE Len(hpt) < MaxHost /\ hpt' = Append(hpt, 0)
      <4>1. Len(hpt') = Len(hpt) + 1 /\ hpt' \in Seq(0..frames)
        BY <3>2, <3>5, Zenon
      <4>2. Len(hpt') \in 1..MaxHost /\ Len(hpt) <= Len(hpt')
        BY <3>1, <3>5, <4>1
      <4> QED
        BY <4>1, <4>2
    <3> QED
      BY <3>3, <3>4, <3>5
  <2>3. vpt' \in [Guest -> [Page -> 0..Len(hpt')]]
    <3>1. 0..Len(hpt) \subseteq 0..Len(hpt')
      BY <1>1, <2>2
    <3> QED
      BY <2>1, <3>1 DEF Typed
  <2>4. Typed'
    BY <2>1, <2>2, <2>3 DEF Typed, Kind, Where
  <2>5. Lists'
    BY <1>12, <2>1 DEF Lists, Known
  <2>6. Unborn'
    BY <1>1, <2>1, UnbornKept DEF Known
  <2> QED
    BY <2>4, <2>5, <2>6
<1>13. ASSUME status = "running", CopyPage
       PROVE  HyperBase'
  <2>1. from \in ToSet(used) /\ used \in Seq(Guest)
    BY <1>13 DEF CopyPage, At, Lists
  <2>2. Head(used) \in Guest
    BY <2>1, Linked DEF ToSet
  <2>3. /\ vpt' \in [Guest -> [Page -> 0..Len(hpt)]]
        /\ lo' \in [Guest -> Nat \X Nat] /\ hi' \in [Guest -> Nat \X Nat]
    BY <1>13, <2>2, MapTyped DEF CopyPage, Copy
  <2>4. Typed'
    BY <1>13, <2>3 DEF CopyPage, machineVars, Typed, Kind, Where
  <2>5. Lists'
    BY <1>13, <2>1 DEF CopyPage, listVars, Lists, Known
  <2>6. Unborn'
    BY <1>1, <1>13, UnbornKept DEF CopyPage, machineVars, listVars, Known
  <2> QED
    BY <2>4, <2>5, <2>6
<1>14. ASSUME status = "running", Forked
       PROVE  HyperBase'
  <2>1. from \in Guest /\ from \in ToSet(used) /\ used \in Seq(Guest)
    BY <1>14 DEF Forked, At, Typed, Lists
  <2>2. Following(from) \in ToSet(used) /\ Following(from) \in Guest
    BY <2>1, Linked
  <2>3. Typed' /\ Lists'
    BY <1>14, <2>1, <2>2
    DEF Forked, Proceed, Others, machineVars, tableVars, listVars, Typed, Kind, Where, Lists, Known
  <2>4. Unborn'
    BY <1>1, <1>14, UnbornKept DEF Forked, Others, machineVars, listVars, Known
  <2> QED
    BY <2>3, <2>4
<1>15. CASE Ended
  BY <1>2, <1>15 DEF Ended
<1> QED
  BY <1>2, <1>3, <1>4, <1>5, <1>6, <1>7, <1>8, <1>9, <1>10, <1>11, <1>12, <1>13, <1>14, <1>15
  DEF HyperNext, Progress, HostStep

LEMMA BaseInvariant == HyperSpec => []HyperBase
<1>1. HyperInit => HyperBase
  BY BaseStarts
<1>2. HyperBase /\ [HyperNext]_hyperVars => HyperBase'
  BY BaseKept
<1> QED
  BY <1>1, <1>2, PTL DEF HyperSpec

LEMMA BaseTypes == ASSUME HyperBase PROVE HyperTypeOK
<1>1. /\ used \in Seq(Guest) /\ free \in Seq(Guest) /\ IsInjective(used) /\ IsInjective(free)
      /\ ToSet(used) \cap ToSet(free) = {} /\ ToSet(used) \cup ToSet(free) = 1..(Len(used) + Len(free))
      /\ DOMAIN used = 1..Len(used) /\ DOMAIN free = 1..Len(free)
      /\ Len(used) \in Nat /\ Len(free) \in Nat
  BY DEF HyperBase, Lists, Known
<1> DEFINE l == used \o free
           m == Len(used)
           n == Len(free)
<1>2. /\ Len(l) = m + n /\ l \in Seq(Guest)
      /\ \A i \in 1..m : l[i] = used[i]
      /\ \A i \in 1..n : l[m + i] = free[i]
      /\ \A i \in 1..(m + n) : i <= m \/ i - m \in 1..n
  BY <1>1, Joined
<1> HIDE DEF l
<1>3. DOMAIN l = 1..(m + n)
  BY <1>2
<1>4. \A i \in DOMAIN l : \/ i \in DOMAIN used /\ l[i] = used[i]
                          \/ i - m \in DOMAIN free /\ l[i] = free[i - m]
  <2> SUFFICES ASSUME NEW i \in DOMAIN l
               PROVE  \/ i \in DOMAIN used /\ l[i] = used[i]
                      \/ i - m \in DOMAIN free /\ l[i] = free[i - m]
    OBVIOUS
  <2>1. CASE i <= m
    BY <1>1, <1>2, <1>3, <2>1
  <2>2. CASE i > m
    <3>1. i - m \in 1..n /\ m + (i - m) = i
      BY <1>1, <1>2, <1>3, <2>2
    <3> QED
      BY <1>1, <1>2, <3>1
  <2> QED
    BY <1>1, <1>3, <2>1, <2>2
<1>5. ToSet(l) \subseteq ToSet(used) \cup ToSet(free)
  BY <1>4 DEF ToSet
<1>6. ToSet(used) \cup ToSet(free) \subseteq ToSet(l)
  <2>1. \A i \in DOMAIN used : i \in DOMAIN l /\ l[i] = used[i]
    BY <1>1, <1>2, <1>3
  <2>2. \A i \in DOMAIN free : m + i \in DOMAIN l /\ l[m + i] = free[i]
    BY <1>1, <1>2, <1>3
  <2> QED
    BY <2>1, <2>2 DEF ToSet
<1>7. IsInjective(l)
  <2> SUFFICES ASSUME NEW i \in DOMAIN l, NEW j \in DOMAIN l, l[i] = l[j]
               PROVE  i = j
    BY DEF IsInjective
  <2>1. \A x \in DOMAIN used : \A y \in DOMAIN free : used[x] # free[y]
    BY <1>1 DEF ToSet
  <2>2. CASE i \in DOMAIN used /\ l[i] = used[i]
    BY <1>1, <1>4, <2>1, <2>2 DEF IsInjective
  <2>3. CASE i - m \in DOMAIN free /\ l[i] = free[i - m]
    <3>1. j - m \in DOMAIN free /\ l[j] = free[j - m]
      BY <1>4, <2>1, <2>3
    <3>2. i - m = j - m
      BY <1>1, <2>3, <3>1 DEF IsInjective
    <3> QED
      BY <1>1, <1>3, <3>2
  <2> QED
    BY <1>4, <2>2, <2>3
<1>8. ToSet(l) = 1..(m + n)
  BY <1>1, <1>5, <1>6
<1>9. /\ loop \in Loops /\ cur \in {Host} \cup Guest /\ cur \in ToSet(cached)
      /\ frames \in 0..MaxFrame /\ Len(hpt) <= MaxHost
  BY HypervisorAssumption DEF HyperBase, Typed
<1>10. \A g \in Guest : \A p \in Page : cpt[g][p] \in 0..frames /\ vpt[g][p] \in 0..Len(hpt)
  BY DEF HyperBase, Typed
<1>11. status = "running" => to \in ToSet(used)
  BY DEF HyperBase, Lists
<1> QED
  BY <1>7, <1>8, <1>9, <1>10, <1>11 DEF HyperTypeOK, l

(* No context is on a list twice or on both lists, every context that was  *)
(* ever allocated is on one of them, and the next to run is in use: what   *)
(* allocate_context, free_context, delete_context and fork do to           *)
(* used_contexts and free_contexts.  Frames and pages stay within the      *)
(* memory of the machine and of the hypervisor.                            *)
THEOREM HyperTypeCorrect == HyperSpec => []HyperTypeOK
<1>1. HyperBase => HyperTypeOK
  BY BaseTypes
<1> QED
  BY <1>1, BaseInvariant, PTL

-----------------------------------------------------------------------------
(* One pending exception at a time on minmob                               *)
LEMMA TrapStarts == ASSUME HyperInit PROVE OneTrap
<1>1. ToSet(used) = {1} /\ 1 \in Guest
  BY HypervisorAssumption DEF HyperInit, ToSet, Guest
<1> QED
  BY <1>1 DEF HyperInit, OneTrap, NoException

LEMMA TrapKept ==
  ASSUME HyperBase, OneTrap, [HyperNext]_hyperVars
  PROVE  OneTrap'
<1> SUFFICES ASSUME loop' = "minmob" PROVE OneTrap'
  BY DEF OneTrap
<1>1. CASE UNCHANGED hyperVars
  BY <1>1 DEF hyperVars, machineVars, listVars, hostVars, OneTrap
<1>2. loop = loop'
  BY <1>1 DEF HyperNext, Progress, HostStep, Ended, hyperVars, machineVars, Others, Trap, Interrupt,
     Switch, Handle, Touch, Map, ExitCall, WaitCall, PostCall, PlainCall, UnknownCall, ForkCall,
     CopyPalloc, CopyPage, Forked
<1>3. /\ cur # Host => cur = from /\ hpc = "handle" /\ cur \in ToSet(used)
      /\ \A g \in ToSet(used) : exc[g].kind # "none" => g = from /\ hpc = "handle" /\ cur = Host
      /\ status # "multiple"
  BY <1>2 DEF OneTrap
<1>4. /\ exc \in [Guest -> [kind : Kind, page : Page]] /\ from \in Guest /\ cur \in {Host} \cup Guest
      /\ ToSet(used) \subseteq Guest
  <2>1. used \in Seq(Guest)
    BY DEF HyperBase, Lists
  <2>2. ToSet(used) \subseteq Guest
    BY <2>1 DEF ToSet
  <2> QED
    BY <2>2 DEF HyperBase, Typed
<1>5. ASSUME status = "running", Switch
      PROVE  OneTrap'
  <2>1. to \in ToSet(used)
    BY <1>5 DEF HyperBase, Lists
  <2> QED
    BY <1>3, <1>5, <2>1 DEF Switch, SwitchTo, listVars, OneTrap
<1>6. ASSUME Resume
      PROVE  cur' = Host
  BY <1>2, <1>6 DEF Resume, SwitchTo
<1>7. ASSUME status = "running", Interrupt
      PROVE  OneTrap'
  BY <1>3, <1>6, <1>7 DEF Interrupt, hostVars, listVars, OneTrap
<1>8. ASSUME status = "running", Trap
      PROVE  OneTrap'
  <2>1. /\ cur \in Guest /\ cur = from /\ hpc = "handle" /\ cur \in ToSet(used)
        /\ \A g \in ToSet(used) : exc[g].kind = "none"
    BY <1>3, <1>4, <1>8 DEF Trap
  <2>2. PICK e : Throw(cur, e)
    BY <1>8 DEF Trap
  <2>3. exc' = [exc EXCEPT ![cur] = e] /\ cur' = Host /\ UNCHANGED status
    BY <2>1, <2>2 DEF Throw
  <2> QED
    BY <1>3, <1>4, <1>8, <2>1, <2>3 DEF Trap, hostVars, listVars, OneTrap
<1>9. ASSUME status = "running", Handle
      PROVE  OneTrap'
  <2>1. /\ cur' = Host /\ cur = Host /\ from \in ToSet(used)
        /\ exc' = [exc EXCEPT ![from] = NoException] \/ (exc' = exc /\ Delete)
    BY <1>9 DEF Handle, TimerDone, Cleared, At, HyperBase, Lists
  <2>2. Delete => ToSet(used') = ToSet(used) \ {from}
    BY <2>1, Deleted DEF HyperBase
  <2>3. ToSet(used') \subseteq ToSet(used)
    BY <1>9, <2>2 DEF Handle, TimerDone, listVars
  <2>4. \A g \in ToSet(used') : exc'[g].kind = "none"
    BY <1>3, <1>4, <2>1, <2>2, <2>3 DEF NoException
  <2>5. status' # "multiple"
    BY <1>9 DEF Handle, TimerDone, Delete
  <2> QED
    BY <2>1, <2>4, <2>5 DEF OneTrap
<1>10. ASSUME status = "running", Touch
       PROVE  OneTrap'
  BY <1>3, <1>6, <1>10 DEF Touch, At, hostVars, listVars, OneTrap
<1>11. ASSUME status = "running",
              Map \/ ExitCall \/ WaitCall \/ PostCall \/ PlainCall \/ (\E p \in Page : CopyPalloc(p))
                  \/ CopyPage \/ Forked
       PROVE  OneTrap'
  <2>1. /\ cur' = Host /\ exc' = exc /\ used' = used /\ status' \in {status, "exited"}
        /\ hpc # "handle" /\ cur = Host
    BY <1>11 DEF Map, ExitCall, WaitCall, PostCall, PlainCall, CopyPalloc, Copying, CopyPage, Forked,
       Calling, At, Others, machineVars, listVars
  <2> QED
    BY <1>3, <2>1 DEF OneTrap
<1>12. ASSUME status = "running", UnknownCall
       PROVE  OneTrap'
  <2>1. from \in ToSet(used) /\ Delete /\ cur' = Host /\ exc' = exc /\ hpc # "handle"
    BY <1>12 DEF UnknownCall, Calling, At, Others, machineVars, HyperBase, Lists
  <2>2. ToSet(used') \subseteq ToSet(used) /\ status' # "multiple"
    BY <1>12, <2>1, Deleted DEF HyperBase
  <2> QED
    BY <1>3, <2>1, <2>2 DEF OneTrap
<1>13. ASSUME status = "running", ForkCall
       PROVE  OneTrap'
  <2>1. /\ cur' = Host /\ status' = status /\ hpc # "handle" /\ {from, to} \subseteq ToSet(used)
        /\ Child <= MaxGuest /\ exc' = [exc EXCEPT ![Child] = exc[from]]
    BY <1>13 DEF ForkCall, Calling, At, machineVars, HyperBase, Lists
  <2>2. ToSet(used') = {Child} \cup ToSet(used) /\ Child \in Guest
    BY <1>13, <2>1, Listed, Newborn DEF HyperBase, ForkCall, ChildLinked
  <2>3. \A g \in ToSet(used') : exc'[g].kind = "none"
    BY <1>3, <1>4, <2>1, <2>2
  <2> QED
    BY <1>3, <2>1, <2>3 DEF OneTrap
<1>14. CASE Ended
  BY <1>1, <1>14 DEF Ended
<1> QED
  BY <1>1, <1>5, <1>7, <1>8, <1>9, <1>10, <1>11, <1>12, <1>13, <1>14
  DEF HyperNext, Progress, HostStep

(* minster and mobster return to the context that trapped, so hypster      *)
(* handles every exception of a guest before it resumes a guest, and a     *)
(* guest never raises a second one (the exit of throw_exception).          *)
THEOREM MinmobHandlesFirst == HyperSpec => []HandledOnMinmob
<1>1. HyperInit => OneTrap
  BY TrapStarts
<1>2. HyperBase /\ OneTrap /\ [HyperNext]_hyperVars => OneTrap'
  BY TrapKept
<1>3. HyperBase /\ OneTrap => HandledOnMinmob
  BY DEF HyperBase, Typed, OneTrap, HandledOnMinmob, HandledBeforeRun
<1> QED
  BY <1>1, <1>2, <1>3, BaseInvariant, PTL DEF HyperSpec

-----------------------------------------------------------------------------
(* What a step does to the page tables, one of four things: nothing, but   *)
(* maybe begin to palloc a page; a switch, maybe after the machine mapped  *)
(* the page being palloc'ed; the mapping of that page for a guest; the     *)
(* empty page table of a child.                                            *)
Keeping ==
  /\ UNCHANGED <<cpt, vpt, lo, hi, recycled>>
  /\ ToSet(used') \subseteq ToSet(used) /\ cur' \in {cur, Host}
  /\ \/ hpt' = hpt /\ (Pallocating' => Pallocating)
     \/ hpt' = Append(hpt, 0)

Switching ==
  /\ UNCHANGED <<vpt, used, recycled>>
  /\ \E c \in {Host} \cup Guest : SwitchTo(c)
  /\ \/ hpt' = hpt /\ (Pallocating' => Pallocating)
     \/ Pallocating /\ Last(hpt) = 0 /\ hpt' = [hpt EXCEPT ![Len(hpt)] = frames + 1]

Mapping ==
  /\ Pallocating /\ Touched /\ cur = Host
  /\ \E c \in Guest : MapPage(c, fault, Len(hpt))
  /\ ~Pallocating' /\ UNCHANGED <<cpt, hpt, cur, used, recycled>>

Spawning ==
  /\ Child \in Guest
  /\ vpt' = [vpt EXCEPT ![Child] = Empty]
  /\ lo' = [lo EXCEPT ![Child] = lo[from]] /\ hi' = [hi EXCEPT ![Child] = hi[from]]
  /\ used' = <<Child>> \o used
  /\ recycled' = IF free # <<>> THEN recycled \cup {Child} ELSE recycled
  /\ ~Pallocating' /\ cur = Host
  /\ UNCHANGED <<cpt, hpt, cur>>

LEMMA Steps ==
  ASSUME HyperBase, [HyperNext]_hyperVars
  PROVE  Keeping \/ Switching \/ Mapping \/ Spawning
<1>1. Typed /\ Lists
  BY DEF HyperBase
<1>2. CASE UNCHANGED hyperVars
  BY <1>2 DEF hyperVars, machineVars, tableVars, listVars, hostVars, Pallocating, Keeping
<1>3. ASSUME status = "running", Switch
      PROVE  Switching
  BY <1>1, <1>3 DEF Switch, listVars, Pallocating, Switching, Typed
<1>4. ASSUME status = "running", Interrupt
      PROVE  Switching
  BY <1>1, <1>4, Resumed DEF Interrupt, listVars, hostVars, Pallocating, Switching
<1>5. ASSUME status = "running", Trap
      PROVE  Keeping
  BY <1>5 DEF Trap, Throw, tableVars, listVars, hostVars, Pallocating, Keeping
<1>6. ASSUME status = "running", hpc # "switch", Delete
      PROVE  ToSet(used') \subseteq ToSet(used) /\ recycled' = recycled /\ (Pallocating' => Pallocating)
  BY <1>1, <1>6, Deleted DEF Lists, Pallocating
<1>7. ASSUME status = "running", Handle
      PROVE  Keeping
  <2>1. hpc = "handle" /\ UNCHANGED <<cpt, vpt, lo, hi, cur>>
    BY <1>7 DEF Handle, At, tableVars
  <2>2. CASE Delete /\ UNCHANGED hpt
    BY <1>6, <1>7, <2>1, <2>2 DEF Keeping
  <2>3. CASE UNCHANGED listVars /\ ((hpt' = hpt /\ hpc' \in {"switch", "call"}) \/ hpt' = Append(hpt, 0))
    BY <2>1, <2>3 DEF listVars, Pallocating, Keeping
  <2> QED
    BY <1>7, <2>2, <2>3 DEF Handle, TimerDone, Proceed, listVars
<1>8. ASSUME status = "running", Touch
      PROVE  Keeping \/ Switching
  <2>1. CASE frames < MaxFrame /\ frames' = frames + 1 /\ hpt' = [hpt EXCEPT ![Len(hpt)] = frames'] /\ Resume
    BY <1>1, <1>8, <2>1, Resumed DEF Touch, At, listVars, hostVars, Pallocating, Switching
  <2>2. CASE UNCHANGED <<cur, cached, cpt, lo, hi, frames, hpt>>
    BY <1>8, <2>2 DEF Touch, listVars, hostVars, Pallocating, Keeping
  <2> QED
    BY <1>8, <2>1, <2>2 DEF Touch
<1>9. ASSUME status = "running", Map \/ CopyPage
      PROVE  Mapping
  <2>1. from \in Guest /\ from \in ToSet(used) /\ used \in Seq(Guest)
    BY <1>1, <1>9 DEF Map, CopyPage, At, Typed, Lists
  <2>2. Head(used) \in Guest
    BY <2>1, Linked DEF ToSet
  <2> QED
    BY <1>9, <2>1, <2>2 DEF Map, CopyPage, Copy, At, Proceed, machineVars, listVars, Pallocating, Mapping
<1>10. ASSUME status = "running", ExitCall \/ WaitCall \/ PostCall \/ PlainCall \/ Forked
       PROVE  Keeping
  BY <1>10 DEF ExitCall, WaitCall, PostCall, PlainCall, Forked, Proceed, Others, machineVars, tableVars, listVars, Pallocating, Keeping
<1>11. ASSUME status = "running", UnknownCall
       PROVE  Keeping
  <2>1. hpc = "call" /\ Delete /\ UNCHANGED <<cpt, vpt, lo, hi, cur, hpt>>
    BY <1>11 DEF UnknownCall, Calling, At, Others, machineVars, tableVars
  <2> QED
    BY <1>6, <1>11, <2>1 DEF Keeping
<1>12. ASSUME status = "running", ForkCall
       PROVE  Spawning
  <2>1. Child \in Guest /\ cur = Host
    BY <1>1, <1>12, Newborn DEF ForkCall, Calling, At
  <2> QED
    BY <1>12, <2>1 DEF ForkCall, machineVars, Pallocating, Spawning
<1>13. ASSUME status = "running", NEW p \in Page, CopyPalloc(p)
       PROVE  Keeping
  BY <1>13 DEF CopyPalloc, tableVars, listVars, hostVars, Pallocating, Keeping
<1>14. CASE Ended
  BY <1>2, <1>14 DEF Ended
<1> QED
  BY <1>2, <1>3, <1>4, <1>5, <1>7, <1>8, <1>9, <1>10, <1>11, <1>12, <1>13, <1>14
  DEF HyperNext, Progress, HostStep

(* The tables as the proofs below see them.                                *)
LEMMA Tables ==
  ASSUME HyperBase
  PROVE  /\ frames \in Nat /\ Len(hpt) \in Nat \ {0} /\ DOMAIN hpt = 1..Len(hpt)
         /\ \A m \in 1..Len(hpt) : hpt[m] \in 0..frames
         /\ \A g \in Guest : \A p \in Page : cpt[g][p] \in 0..frames /\ vpt[g][p] \in 0..Len(hpt)
         /\ \A g \in Guest : \A p \in Page : vpt[g][p] # 0 => vpt[g][p] \in 1..Len(hpt)
         /\ Host \notin Guest /\ ToSet(used) \subseteq Guest /\ from \in Guest /\ fault \in Page
         /\ Len(hpt) \in 1..Len(hpt) /\ Last(hpt) = hpt[Len(hpt)]
<1>1. /\ frames \in Nat /\ Len(hpt) \in Nat \ {0} /\ hpt \in Seq(0..frames) /\ from \in Guest /\ fault \in Page
      /\ Last(hpt) = hpt[Len(hpt)]
  BY HypervisorAssumption DEF HyperBase, Typed, Last
<1>2. \A g \in Guest : \A p \in Page : cpt[g][p] \in 0..frames /\ vpt[g][p] \in 0..Len(hpt)
  BY DEF HyperBase, Typed
<1>3. DOMAIN hpt = 1..Len(hpt) /\ \A m \in 1..Len(hpt) : hpt[m] \in 0..frames
  BY <1>1
<1>4. \A g \in Guest : \A p \in Page : vpt[g][p] # 0 => vpt[g][p] \in 1..Len(hpt)
  BY <1>1, <1>2
<1>5. Host \notin Guest
  BY HypervisorAssumption DEF Host, Guest
<1>6. ToSet(used) \subseteq Guest
  BY DEF HyperBase, Lists, ToSet
<1> QED
  BY <1>1, <1>2, <1>3, <1>4, <1>5, <1>6

(* How the hypervisor's own page table grows.                              *)
LEMMA Kept ==
  ASSUME HyperBase, Keeping
  PROVE  /\ Len(hpt') \in Nat /\ Len(hpt) <= Len(hpt')
         /\ \A m \in 1..Len(hpt) : hpt'[m] = hpt[m]
         /\ hpt' # hpt => Len(hpt') = Len(hpt) + 1 /\ hpt'[Len(hpt')] = 0
<1>1. hpt \in Seq(0..frames) /\ 0 \in 0..frames /\ Len(hpt) \in Nat
  BY Tables DEF HyperBase, Typed
<1>2. CASE hpt' = hpt
  BY <1>1, <1>2
<1>3. CASE hpt' = Append(hpt, 0)
  <2>1. /\ Len(hpt') = Len(hpt) + 1 /\ Last(hpt') = 0 /\ \A m \in 1..Len(hpt) : hpt'[m] = hpt[m]
    BY <1>1, <1>3, Appended
  <2> QED
    BY <1>1, <2>1 DEF Last
<1> QED
  BY <1>2, <1>3 DEF Keeping

LEMMA Spawned ==
  ASSUME HyperBase, Spawning
  PROVE  /\ \A p \in Page : vpt'[Child][p] = 0
         /\ \A g \in Guest : g # Child => vpt'[g] = vpt[g] /\ lo'[g] = lo[g] /\ hi'[g] = hi[g]
         /\ \A g \in Guest : \A p \in Page : vpt'[g][p] # 0 => g # Child /\ vpt'[g][p] = vpt[g][p]
<1>1. vpt \in [Guest -> [Page -> 0..Len(hpt)]] /\ DOMAIN lo = Guest /\ DOMAIN hi = Guest
  BY DEF HyperBase, Typed
<1>2. \A p \in Page : vpt'[Child][p] = 0
  BY <1>1 DEF Spawning, Empty
<1>3. \A g \in Guest : g # Child => vpt'[g] = vpt[g] /\ lo'[g] = lo[g] /\ hi'[g] = hi[g]
  BY <1>1 DEF Spawning
<1> QED
  BY <1>2, <1>3

-----------------------------------------------------------------------------
(* Frames and pages are private                                            *)
LEMMA PagesStart == ASSUME HyperInit PROVE Pages
<1>1. /\ hpt = <<1, 2>> /\ hpc = "switch" /\ MaxPage \in Nat \ {0} /\ 1 \in Guest
      /\ \A g \in Guest : \A p \in Page : cpt[g][p] = 0
      /\ \A g \in Guest : \A p \in Page :
           vpt[g][p] = IF g = 1 /\ p = MaxPage THEN 2 ELSE IF g = 1 /\ p = 0 THEN 1 ELSE 0
  <2>1. MaxPage \in Nat \ {0} /\ 1 \in Guest /\ 0 \in Page /\ MaxPage \in Page
    BY HypervisorAssumption DEF Guest, Page
  <2> QED
    BY <2>1 DEF HyperInit, Empty
<1>2. DOMAIN hpt = {1, 2} /\ hpt[1] = 1 /\ hpt[2] = 2
  BY <1>1
<1>3. HostPrivate /\ TouchedBefore
  BY <1>1, <1>2 DEF HostPrivate, TouchedBefore
<1>4. PagesPrivate
  BY <1>1 DEF PagesPrivate
<1>5. Pallocated /\ CachedPrivate /\ FramesPrivate
  BY <1>1 DEF Pallocated, Pallocating, CachedPrivate, FramesPrivate
<1> QED
  BY <1>3, <1>4, <1>5 DEF Pages

LEMMA PagesKept ==
  ASSUME HyperBase, Pages, Keeping
  PROVE  Pages'
<1>1. /\ frames \in Nat /\ Len(hpt) \in Nat \ {0} /\ DOMAIN hpt = 1..Len(hpt)
      /\ \A m \in 1..Len(hpt) : hpt[m] \in 0..frames
      /\ \A g \in Guest : \A p \in Page : cpt[g][p] \in 0..frames /\ vpt[g][p] \in 0..Len(hpt)
      /\ \A g \in Guest : \A p \in Page : vpt[g][p] # 0 => vpt[g][p] \in 1..Len(hpt)
  BY Tables
<1>2. /\ Len(hpt') \in Nat /\ Len(hpt) <= Len(hpt')
      /\ \A m \in 1..Len(hpt) : hpt'[m] = hpt[m]
      /\ hpt' # hpt => Len(hpt') = Len(hpt) + 1 /\ hpt'[Len(hpt')] = 0
  BY Kept
<1>3. cpt' = cpt /\ vpt' = vpt
  BY DEF Keeping
<1>4. DOMAIN hpt' = 1..Len(hpt')
  <2>1. CASE hpt' = hpt
    BY <1>1, <2>1
  <2>2. CASE hpt' = Append(hpt, 0)
    <3>1. hpt \in Seq(Nat)
      BY <1>1 DEF HyperBase, Typed
    <3> QED
      BY <2>2, <3>1
  <2> QED
    BY <2>1, <2>2 DEF Keeping
<1>5. HostPrivate'
  <2>1. ASSUME NEW m \in 1..Len(hpt'), NEW n \in 1..Len(hpt'), hpt'[m] # 0, hpt'[m] = hpt'[n]
        PROVE  m = n
    <3>1. m \in 1..Len(hpt) /\ n \in 1..Len(hpt)
      BY <1>1, <1>2, <2>1
    <3> QED
      BY <1>1, <1>2, <2>1, <3>1 DEF Pages, HostPrivate
  <2> QED
    BY <1>4, <2>1 DEF HostPrivate
<1>6. PagesPrivate' /\ FramesPrivate'
  BY <1>3 DEF Pages, PagesPrivate, FramesPrivate
<1>7. TouchedBefore'
  BY <1>1, <1>2, <1>3 DEF Pages, TouchedBefore
<1>8. CachedPrivate'
  BY <1>1, <1>2, <1>3 DEF Pages, CachedPrivate
<1>9. Pallocated'
  <2>1. CASE hpt' = hpt
    BY <1>3, <2>1 DEF Keeping, Pages, Pallocated
  <2>2. CASE hpt' # hpt
    <3>1. \A g \in Guest : \A p \in Page : vpt[g][p] # Len(hpt')
      BY <1>1, <1>2, <2>2
    <3>2. Last(hpt') = 0
      BY <1>2, <2>2 DEF Last
    <3> QED
      BY <1>3, <3>1, <3>2 DEF Pallocated
  <2> QED
    BY <2>1, <2>2
<1> QED
  BY <1>5, <1>6, <1>7, <1>8, <1>9 DEF Pages

(* A switch copies entries of the composed tables; the frame mapped just   *)
(* before is a new one.                                                    *)
LEMMA SwitchedTables ==
  ASSUME HyperBase, Pages, Switching
  PROVE  /\ vpt' = vpt /\ Len(hpt') = Len(hpt) /\ DOMAIN hpt' = 1..Len(hpt)
         /\ \A m \in 1..Len(hpt) : hpt'[m] = hpt[m] \/ (Pallocating /\ m = Len(hpt) /\ hpt[m] = 0 /\ hpt'[m] = frames + 1)
         /\ \A g \in Guest : \A p \in Page : vpt[g][p] # 0 => hpt'[vpt[g][p]] = hpt[vpt[g][p]]
         /\ \A g \in Guest : \A p \in Page :
              \/ cpt'[g][p] = cpt[g][p]
              \/ cpt[g][p] = 0 /\ vpt[g][p] # 0 /\ cpt'[g][p] = hpt[vpt[g][p]]
         /\ \A g \in Guest : \A p \in Page : cpt'[g][p] \in 0..frames
<1>1. /\ frames \in Nat /\ Len(hpt) \in 1..Len(hpt) /\ DOMAIN hpt = 1..Len(hpt)
      /\ \A m \in 1..Len(hpt) : hpt[m] \in 0..frames
      /\ \A g \in Guest : \A p \in Page : vpt[g][p] # 0 => vpt[g][p] \in 1..Len(hpt)
      /\ Last(hpt) = hpt[Len(hpt)]
  BY Tables
<1>2. PICK c \in {Host} \cup Guest : SwitchTo(c)
  BY DEF Switching
<1>3. /\ cpt' \in [Guest -> [Page -> 0..frames]]
      /\ \A g \in Guest : \A p \in Page :
           \/ cpt'[g][p] = cpt[g][p]
           \/ g = c /\ cpt[g][p] = 0 /\ vpt[g][p] # 0 /\ cpt'[g][p] = hpt[vpt[g][p]]
  BY <1>2, Switched DEF HyperBase
<1>4. hpt \in Seq(Nat)
  <2>1. hpt \in Seq(0..frames)
    BY DEF HyperBase, Typed
  <2> QED
    BY <1>1, <2>1
<1>5. CASE hpt' = hpt
  BY <1>1, <1>3, <1>5 DEF Switching
<1>6. CASE Pallocating /\ Last(hpt) = 0 /\ hpt' = [hpt EXCEPT ![Len(hpt)] = frames + 1]
  <2>1. /\ Len(hpt') = Len(hpt) /\ hpt' \in Seq(Nat) /\ hpt'[Len(hpt)] = frames + 1
        /\ \A m \in 1..Len(hpt) : m # Len(hpt) => hpt'[m] = hpt[m]
    <3>1. frames + 1 \in Nat /\ Len(hpt) \in 1..Len(hpt)
      BY <1>1
    <3>2. /\ [hpt EXCEPT ![Len(hpt)] = frames + 1] \in Seq(Nat)
          /\ Len([hpt EXCEPT ![Len(hpt)] = frames + 1]) = Len(hpt)
          /\ [hpt EXCEPT ![Len(hpt)] = frames + 1][Len(hpt)] = frames + 1
          /\ \A m \in 1..Len(hpt) : m # Len(hpt) => [hpt EXCEPT ![Len(hpt)] = frames + 1][m] = hpt[m]
      BY <1>4, <3>1, Replaced
    <3> QED
      BY <1>6, <3>2, Zenon
  <2>2. DOMAIN hpt' = 1..Len(hpt)
    BY <2>1
  <2>3. \A g \in Guest : \A p \in Page : vpt[g][p] # Len(hpt)
    BY <1>6 DEF Pages, Pallocated
  <2>4. \A m \in 1..Len(hpt) :
          hpt'[m] = hpt[m] \/ (Pallocating /\ m = Len(hpt) /\ hpt[m] = 0 /\ hpt'[m] = frames + 1)
    BY <1>1, <1>6, <2>1, Zenon
  <2>5. \A g \in Guest : \A p \in Page : vpt[g][p] # 0 => hpt'[vpt[g][p]] = hpt[vpt[g][p]]
    BY <1>1, <2>1, <2>3, Zenon
  <2>6. vpt' = vpt
    BY DEF Switching
  <2>7. vpt' = vpt /\ Len(hpt') = Len(hpt) /\ DOMAIN hpt' = 1..Len(hpt)
    BY <2>1, <2>2, <2>6
  <2>8. \A g \in Guest : \A p \in Page :
          \/ cpt'[g][p] = cpt[g][p]
          \/ cpt[g][p] = 0 /\ vpt[g][p] # 0 /\ cpt'[g][p] = hpt[vpt[g][p]]
    BY <1>3
  <2>9. \A g \in Guest : \A p \in Page : cpt'[g][p] \in 0..frames
    BY <1>3
  <2> QED
    BY <2>4, <2>5, <2>7, <2>8, <2>9, Zenon
<1> QED
  BY <1>5, <1>6 DEF Switching

LEMMA Private ==
  ASSUME Pages
  PROVE  /\ \A m, n \in DOMAIN hpt : hpt[m] # 0 /\ hpt[m] = hpt[n] => m = n
         /\ \A g, h \in Guest : \A p, q \in Page : vpt[g][p] # 0 /\ vpt[g][p] = vpt[h][q] => g = h /\ p = q
         /\ \A g, h \in Guest : \A p, q \in Page :
              cpt[g][p] # 0 /\ vpt[h][q] # 0 /\ cpt[g][p] = hpt[vpt[h][q]] => g = h /\ p = q
         /\ \A g, h \in Guest : \A p, q \in Page : cpt[g][p] # 0 /\ cpt[g][p] = cpt[h][q] => g = h /\ p = q
BY DEF Pages, HostPrivate, PagesPrivate, CachedPrivate, FramesPrivate

LEMMA PagesSwitched ==
  ASSUME HyperBase, Pages, Switching
  PROVE  Pages'
<1>1. /\ frames \in Nat /\ Len(hpt) \in Nat \ {0} /\ DOMAIN hpt = 1..Len(hpt) /\ Len(hpt) \in 1..Len(hpt)
      /\ \A m \in 1..Len(hpt) : hpt[m] \in 0..frames
      /\ \A g \in Guest : \A p \in Page : vpt[g][p] # 0 => vpt[g][p] \in 1..Len(hpt)
      /\ Last(hpt) = hpt[Len(hpt)]
  BY Tables
<1>2. vpt' = vpt /\ Len(hpt') = Len(hpt) /\ DOMAIN hpt' = 1..Len(hpt)
  BY SwitchedTables, Zenon
<1>3. \A m \in 1..Len(hpt) :
        hpt'[m] = hpt[m] \/ (Pallocating /\ m = Len(hpt) /\ hpt[m] = 0 /\ hpt'[m] = frames + 1)
  BY SwitchedTables, Zenon
<1>4. \A g \in Guest : \A p \in Page : vpt[g][p] # 0 => hpt'[vpt[g][p]] = hpt[vpt[g][p]]
  BY SwitchedTables, Zenon
<1>5. \A g \in Guest : \A p \in Page :
        cpt'[g][p] = cpt[g][p] \/ (vpt[g][p] # 0 /\ cpt'[g][p] = hpt[vpt[g][p]])
  BY SwitchedTables, Zenon
<1>6. \A g \in Guest : \A p \in Page : cpt'[g][p] \in 0..frames
  BY SwitchedTables, Zenon
<1>7. \A m, n \in 1..Len(hpt) : hpt[m] # 0 /\ hpt[m] = hpt[n] => m = n
  BY <1>1, Private
<1>8. \A g, h \in Guest : \A p, q \in Page : vpt[g][p] # 0 /\ vpt[g][p] = vpt[h][q] => g = h /\ p = q
  BY Private
<1>9. ASSUME NEW g \in Guest, NEW h \in Guest, NEW p \in Page, NEW q \in Page,
             cpt[g][p] # 0, vpt[h][q] # 0, cpt[g][p] = hpt[vpt[h][q]]
      PROVE  g = h /\ p = q
  BY <1>9, Private
<1>10. ASSUME NEW g \in Guest, NEW h \in Guest, NEW p \in Page, NEW q \in Page,
              cpt[g][p] # 0, cpt[g][p] = cpt[h][q]
       PROVE  g = h /\ p = q
  BY <1>10, Private
<1>11. ASSUME NEW g \in Guest, NEW h \in Guest, NEW p \in Page, NEW q \in Page,
              vpt[g][p] # 0, vpt[h][q] # 0, hpt[vpt[g][p]] # 0, hpt[vpt[g][p]] = hpt[vpt[h][q]]
       PROVE  g = h /\ p = q
  <2>1. vpt[g][p] = vpt[h][q]
    BY <1>1, <1>7, <1>11
  <2> QED
    BY <1>8, <1>11, <2>1
<1>12. HostPrivate'
  <2> SUFFICES ASSUME NEW m \in 1..Len(hpt), NEW n \in 1..Len(hpt), hpt'[m] # 0, hpt'[m] = hpt'[n]
               PROVE  m = n
    BY <1>2 DEF HostPrivate
  <2>1. hpt[m] # frames + 1 /\ hpt[n] # frames + 1
    BY <1>1
  <2> QED
    BY <1>3, <1>7, <2>1
<1>13. PagesPrivate'
  BY <1>2 DEF Pages, PagesPrivate
<1>14. TouchedBefore'
  <2>1. \A g \in Guest : \A p \in Page : vpt[g][p] # 0 => hpt[vpt[g][p]] # 0
    BY DEF Pages, TouchedBefore
  <2> QED
    BY <1>2, <1>4, <2>1 DEF TouchedBefore
<1>15. CachedPrivate'
  <2> SUFFICES ASSUME NEW g \in Guest, NEW h \in Guest, NEW p \in Page, NEW q \in Page,
                      cpt'[g][p] # 0, vpt'[h][q] # 0, cpt'[g][p] = hpt'[vpt'[h][q]]
               PROVE  g = h /\ p = q
    BY DEF CachedPrivate
  <2>1. vpt[h][q] # 0 /\ cpt'[g][p] = hpt[vpt[h][q]]
    BY <1>2, <1>4
  <2> QED
    BY <1>5, <1>9, <1>11, <2>1
<1>16. FramesPrivate'
  <2> SUFFICES ASSUME NEW g \in Guest, NEW h \in Guest, NEW p \in Page, NEW q \in Page,
                      cpt'[g][p] # 0, cpt'[g][p] = cpt'[h][q]
               PROVE  g = h /\ p = q
    BY DEF FramesPrivate
  <2>1. \A x \in Guest : \A a \in Page : \E y :
          y = cpt'[x][a] /\ (y = cpt[x][a] \/ (vpt[x][a] # 0 /\ y = hpt[vpt[x][a]]))
    BY <1>5
  <2>2. PICK y : /\ y = cpt'[g][p] /\ y # 0
                 /\ y = cpt[g][p] \/ (vpt[g][p] # 0 /\ y = hpt[vpt[g][p]])
    BY <2>1
  <2>3. y = cpt[h][q] \/ (vpt[h][q] # 0 /\ y = hpt[vpt[h][q]])
    BY <1>5, <2>2
  <2>4. CASE y = cpt[g][p] /\ y = cpt[h][q]
    <3>1. cpt[g][p] # 0 /\ cpt[g][p] = cpt[h][q]
      BY <2>2, <2>4
    <3> QED
      BY <1>10, <3>1
  <2>5. CASE y = cpt[g][p] /\ vpt[h][q] # 0 /\ y = hpt[vpt[h][q]]
    <3>1. cpt[g][p] # 0 /\ vpt[h][q] # 0 /\ cpt[g][p] = hpt[vpt[h][q]]
      BY <2>2, <2>5
    <3> QED
      BY <1>9, <3>1
  <2>6. CASE vpt[g][p] # 0 /\ y = hpt[vpt[g][p]] /\ y = cpt[h][q]
    <3>1. cpt[h][q] # 0 /\ vpt[g][p] # 0 /\ cpt[h][q] = hpt[vpt[g][p]]
      BY <2>2, <2>6
    <3>2. h = g /\ q = p
      BY <1>9, <3>1
    <3> QED
      BY <3>2
  <2>7. CASE vpt[g][p] # 0 /\ y = hpt[vpt[g][p]] /\ vpt[h][q] # 0 /\ y = hpt[vpt[h][q]]
    <3>1. vpt[g][p] # 0 /\ vpt[h][q] # 0 /\ hpt[vpt[g][p]] # 0 /\ hpt[vpt[g][p]] = hpt[vpt[h][q]]
      BY <2>2, <2>7
    <3> QED
      BY <1>11, <3>1
  <2> QED
    BY <2>2, <2>3, <2>4, <2>5, <2>6, <2>7
<1>17. Pallocated'
  <2> SUFFICES ASSUME Pallocating', NEW g \in Guest, NEW p \in Page
               PROVE  vpt'[g][p] # Len(hpt') /\ (Last(hpt') # 0 => cpt'[g][p] # Last(hpt'))
    BY DEF Pallocated
  <2> DEFINE n == Len(hpt)
  <2>1. Pallocating
    BY DEF Switching
  <2>2. vpt[g][p] # n /\ (hpt[n] # 0 => cpt[g][p] # hpt[n])
    BY <1>1, <2>1 DEF Pages, Pallocated
  <2>3. Last(hpt') = hpt'[n] /\ vpt' = vpt /\ Len(hpt') = n
    BY <1>2 DEF Last
  <2>4. n \in 1..Len(hpt)
    BY <1>1
  <2> HIDE DEF n
  <2>5. CASE hpt'[n] = frames + 1
    BY <1>1, <1>6, <2>2, <2>3, <2>5
  <2>6. CASE hpt'[n] = hpt[n]
    <3>1. ASSUME hpt[n] # 0, vpt[g][p] # 0
          PROVE  hpt[vpt[g][p]] # hpt[n]
      BY <1>1, <1>7, <2>2, <2>4, <3>1
    <3> QED
      BY <1>5, <2>2, <2>3, <2>6, <3>1
  <2> QED
    BY <1>3, <2>4, <2>5, <2>6
<1> QED
  BY <1>12, <1>13, <1>14, <1>15, <1>16, <1>17 DEF Pages

(* What map_page of the hypervisor does.                                   *)
LEMMA MappedTables ==
  ASSUME HyperBase, Mapping
  PROVE  /\ cpt' = cpt /\ hpt' = hpt /\ ~Pallocating' /\ Pallocating /\ hpt[Len(hpt)] # 0
         /\ \E c \in Guest : \A g \in Guest : \A p \in Page :
              vpt'[g][p] = IF g = c /\ p = fault /\ vpt[g][p] = 0 THEN Len(hpt) ELSE vpt[g][p]
         /\ \A g \in Guest : \A p \in Page :
              ToCopy(g, p) \/ (vpt[g][p] = 0 /\ vpt'[g][p] # 0) => Within(p, lo'[g]) \/ Within(p, hi'[g])
<1>0. PICK c \in Guest : MapPage(c, fault, Len(hpt))
  BY DEF Mapping
<1>1. /\ Len(hpt) \in Nat /\ fault \in Page /\ Last(hpt) = hpt[Len(hpt)]
  BY Tables
<1>2. /\ vpt \in [Guest -> [Page -> 0..Len(hpt)]] /\ brk[c] \in Nat
      /\ lo \in [Guest -> Nat \X Nat] /\ hi \in [Guest -> Nat \X Nat]
  BY <1>1 DEF HyperBase, Typed
<1>3. Page \subseteq Nat
  BY HypervisorAssumption DEF Page
<1>4. cpt' = cpt /\ hpt' = hpt /\ ~Pallocating' /\ Pallocating /\ hpt[Len(hpt)] # 0
  BY <1>1 DEF Mapping, Touched
<1>5. \A r \in Nat \X Nat : \A p \in Page : (Within(p, r) => Within(p, Stretch(r, fault))) /\ Within(fault, Stretch(r, fault))
  BY <1>1, <1>3 DEF Within, Stretch
<1>6. CASE vpt[c][fault] # 0 /\ UNCHANGED <<vpt, lo, hi>>
  BY <1>2, <1>4, <1>6 DEF ToCopy
<1>7. CASE /\ vpt[c][fault] = 0 /\ vpt' = [vpt EXCEPT ![c][fault] = Len(hpt)]
           /\ \/ lo' = [lo EXCEPT ![c] = Stretch(@, fault)] /\ UNCHANGED hi
              \/ hi' = [hi EXCEPT ![c] = Stretch(@, fault)] /\ UNCHANGED lo
  <2>1. \A g \in Guest : \A p \in Page :
          vpt'[g][p] = IF g = c /\ p = fault THEN Len(hpt) ELSE vpt[g][p]
    BY <1>1, <1>2, <1>7
  <2>2. ASSUME NEW g \in Guest, NEW p \in Page, ToCopy(g, p) \/ (g = c /\ p = fault)
        PROVE  Within(p, lo'[g]) \/ Within(p, hi'[g])
    <3>1. lo[g] \in Nat \X Nat /\ hi[g] \in Nat \X Nat
      BY <1>2
    <3>2. CASE g = c /\ lo'[g] = Stretch(lo[g], fault) /\ hi'[g] = hi[g]
      BY <1>5, <2>2, <3>1, <3>2 DEF ToCopy
    <3>3. CASE g = c /\ hi'[g] = Stretch(hi[g], fault) /\ lo'[g] = lo[g]
      BY <1>5, <2>2, <3>1, <3>3 DEF ToCopy
    <3>4. CASE g # c /\ lo'[g] = lo[g] /\ hi'[g] = hi[g]
      BY <2>2, <3>4 DEF ToCopy
    <3> QED
      BY <1>1, <1>2, <1>7, <3>2, <3>3, <3>4
  <2> QED
    BY <1>4, <1>7, <2>1, <2>2
<1> QED
  BY <1>0, <1>6, <1>7 DEF MapPage

LEMMA PagesMapped ==
  ASSUME HyperBase, Pages, Mapping
  PROVE  Pages'
<1>1. /\ Len(hpt) \in Nat \ {0} /\ DOMAIN hpt = 1..Len(hpt) /\ Len(hpt) \in 1..Len(hpt)
      /\ \A g \in Guest : \A p \in Page : vpt[g][p] # 0 => vpt[g][p] \in 1..Len(hpt)
      /\ Last(hpt) = hpt[Len(hpt)]
  BY Tables
<1>2. PICK c \in Guest :
      /\ cpt' = cpt /\ hpt' = hpt /\ ~Pallocating' /\ Pallocating /\ hpt[Len(hpt)] # 0
      /\ \A g \in Guest : \A p \in Page :
           vpt'[g][p] = IF g = c /\ p = fault /\ vpt[g][p] = 0 THEN Len(hpt) ELSE vpt[g][p]
  BY MappedTables
<1>3. \A g \in Guest : \A p \in Page : vpt[g][p] # Len(hpt) /\ cpt[g][p] # hpt[Len(hpt)]
  BY <1>1, <1>2 DEF Pages, Pallocated
<1>4. HostPrivate' /\ FramesPrivate' /\ Pallocated'
  BY <1>2 DEF Pages, HostPrivate, FramesPrivate, Pallocated
<1>5. PagesPrivate'
  BY <1>2, <1>3 DEF Pages, PagesPrivate
<1>6. TouchedBefore'
  BY <1>2 DEF Pages, TouchedBefore
<1>7. CachedPrivate'
  BY <1>2, <1>3 DEF Pages, CachedPrivate
<1> QED
  BY <1>4, <1>5, <1>6, <1>7 DEF Pages

LEMMA PagesSpawned ==
  ASSUME HyperBase, Pages, Spawning
  PROVE  Pages'
<1>1. cpt' = cpt /\ hpt' = hpt /\ ~Pallocating'
  BY DEF Spawning
<1>2. \A g \in Guest : \A p \in Page : vpt'[g][p] # 0 => vpt[g][p] # 0 /\ vpt'[g][p] = vpt[g][p]
  BY Spawned
<1>3. HostPrivate' /\ FramesPrivate' /\ Pallocated'
  BY <1>1 DEF Pages, HostPrivate, FramesPrivate, Pallocated
<1>4. PagesPrivate' /\ TouchedBefore' /\ CachedPrivate'
  BY <1>1, <1>2 DEF Pages, PagesPrivate, TouchedBefore, CachedPrivate
<1> QED
  BY <1>3, <1>4 DEF Pages

LEMMA PagesInvariant == HyperSpec => []Pages
<1>1. HyperInit => Pages
  BY PagesStart
<1>2. HyperBase /\ Pages /\ [HyperNext]_hyperVars => Pages'
  BY Steps, PagesKept, PagesSwitched, PagesMapped, PagesSpawned
<1> QED
  BY <1>1, <1>2, BaseInvariant, PTL DEF HyperSpec

(* No frame of the machine is mapped for two guests, nor twice for one:    *)
(* what palloc, fork's copies, and the incremental caching of a guest's    *)
(* page table (restore_context) do together, whatever the interleaving of  *)
(* guests, faults of the hypervisor, forks and reused contexts.            *)
THEOREM GuestsIsolated == HyperSpec => []FramesPrivate
<1>1. Pages => FramesPrivate
  BY DEF Pages
<1> QED
  BY <1>1, PagesInvariant, PTL

-----------------------------------------------------------------------------
(* What the machine caches and what the hypervisor has mapped              *)
LEMMA Recalled ==
  ASSUME HyperBase, Pages, NoMappingForgotten, [HyperNext]_hyperVars
  PROVE  NoMappingForgotten'
<1>1. Keeping \/ Switching \/ Mapping \/ Spawning
  BY Steps
<1>2. ToSet(used) \subseteq Guest /\ Host \notin Guest
  BY Tables
<1>3. ASSUME Keeping
      PROVE  NoMappingForgotten'
  BY <1>3 DEF Keeping, NoMappingForgotten, ToCopy, Within
<1>4. ASSUME Switching
      PROVE  NoMappingForgotten'
  <2>1. UNCHANGED <<vpt, used, recycled>>
    BY <1>4 DEF Switching
  <2>2. PICK c \in {Host} \cup Guest : SwitchTo(c)
    BY <1>4 DEF Switching
  <2>3. /\ \A g \in Guest : g # c => cpt'[g] = cpt[g] /\ lo'[g] = lo[g] /\ hi'[g] = hi[g]
        /\ \A g \in Guest : \A p \in Page :
             cpt'[g][p] = cpt[g][p] \/ cpt[g][p] = 0
        /\ c \in Guest => \A p \in Page :
             ToCopy(c, p) /\ vpt[c][p] # 0 /\ hpt[vpt[c][p]] # 0 => cpt'[c][p] # 0
    BY <2>2, Switched DEF HyperBase
  <2>4. \A g \in Guest : \A p \in Page : vpt[g][p] # 0 => hpt[vpt[g][p]] # 0
    BY DEF Pages, TouchedBefore
  <2> SUFFICES ASSUME NEW g \in ToSet(used) \ recycled, NEW p \in Page, vpt[g][p] # 0
               PROVE  cpt'[g][p] # 0 \/ ToCopy(g, p)'
    BY <2>1 DEF NoMappingForgotten
  <2>5. g \in Guest /\ (cpt[g][p] # 0 \/ ToCopy(g, p))
    BY <1>2 DEF NoMappingForgotten
  <2>6. CASE g = c
    BY <2>3, <2>4, <2>5, <2>6
  <2>7. CASE g # c
    BY <2>3, <2>5, <2>7 DEF ToCopy, Within
  <2> QED
    BY <2>6, <2>7
<1>5. ASSUME Mapping
      PROVE  NoMappingForgotten'
  <2>1. /\ cpt' = cpt
        /\ \A g \in Guest : \A p \in Page :
             ToCopy(g, p) \/ (vpt[g][p] = 0 /\ vpt'[g][p] # 0) => Within(p, lo'[g]) \/ Within(p, hi'[g])
    BY <1>5, MappedTables
  <2>2. UNCHANGED <<used, recycled>>
    BY <1>5 DEF Mapping
  <2> SUFFICES ASSUME NEW g \in ToSet(used) \ recycled, NEW p \in Page, vpt'[g][p] # 0
               PROVE  cpt[g][p] # 0 \/ Within(p, lo'[g]) \/ Within(p, hi'[g])
    BY <2>1, <2>2 DEF NoMappingForgotten, ToCopy, Within
  <2> QED
    BY <1>2, <2>1 DEF NoMappingForgotten
<1>6. ASSUME Spawning
      PROVE  NoMappingForgotten'
  <2>1. /\ \A p \in Page : vpt'[Child][p] = 0
        /\ \A g \in Guest : g # Child => vpt'[g] = vpt[g] /\ lo'[g] = lo[g] /\ hi'[g] = hi[g]
    BY <1>6, Spawned
  <2>2. cpt' = cpt /\ Child \in Guest /\ ToSet(used') = {Child} \cup ToSet(used) /\ recycled \subseteq recycled'
    BY <1>6, Pushed DEF Spawning, HyperBase, Lists
  <2> SUFFICES ASSUME NEW g \in ToSet(used') \ recycled', NEW p \in Page, vpt'[g][p] # 0
               PROVE  cpt[g][p] # 0 \/ Within(p, lo'[g]) \/ Within(p, hi'[g])
    BY <2>2 DEF NoMappingForgotten, ToCopy, Within
  <2>3. CASE g = Child
    BY <2>1, <2>3
  <2>4. CASE g # Child
    <3>1. g \in ToSet(used) \ recycled /\ g \in Guest /\ vpt[g][p] # 0 /\ lo'[g] = lo[g] /\ hi'[g] = hi[g]
      BY <1>2, <2>1, <2>2, <2>4
    <3> QED
      BY <3>1 DEF NoMappingForgotten, ToCopy
  <2> QED
    BY <2>3, <2>4
<1> QED
  BY <1>1, <1>3, <1>4, <1>5, <1>6

LEMMA ForgottenStarts == ASSUME HyperInit PROVE NoMappingForgotten
<1>1. MaxPage \in Nat \ {0} /\ 1 \in Guest /\ 0 \in Page /\ MaxPage \in Page
  BY HypervisorAssumption DEF Guest, Page
<1>2. \A g \in Guest : \A p \in Page : vpt[g][p] # 0 => g = 1 /\ (p = 0 \/ p = MaxPage)
  BY <1>1 DEF HyperInit, Empty
<1>3. lo[1] = <<0, 1>> /\ hi[1] = <<MaxPage, MaxPage + 1>>
  BY <1>1 DEF HyperInit
<1>4. ToCopy(1, 0) /\ ToCopy(1, MaxPage)
  BY <1>1, <1>3 DEF ToCopy, Within
<1>5. ToSet(used) \subseteq Guest
  BY <1>1 DEF HyperInit, ToSet
<1> QED
  BY <1>2, <1>4, <1>5 DEF NoMappingForgotten

(* The intervals of pages that map_page of the hypervisor widens and       *)
(* restore_context of the machine empties lose no mapping: what is mapped  *)
(* and not cached yet is copied by the next switch to the guest, also for  *)
(* pages that fork mapped, unless the context was used before.             *)
THEOREM NothingForgotten == HyperSpec => []NoMappingForgotten
<1>1. HyperInit => NoMappingForgotten
  BY ForgottenStarts
<1>2. HyperBase /\ Pages /\ NoMappingForgotten /\ [HyperNext]_hyperVars => NoMappingForgotten'
  BY Recalled
<1> QED
  BY <1>1, <1>2, BaseInvariant, PagesInvariant, PTL DEF HyperSpec

LEMMA Agreed ==
  ASSUME HyperBase, Pages, AgreesUntilReuse, [HyperNext]_hyperVars
  PROVE  AgreesUntilReuse'
<1>1. Keeping \/ Switching \/ Mapping \/ Spawning
  BY Steps
<1>2. /\ ToSet(used) \subseteq Guest /\ Len(hpt) \in Nat \ {0}
      /\ \A g \in Guest : \A p \in Page : vpt[g][p] # 0 => vpt[g][p] \in 1..Len(hpt)
  BY Tables
<1>3. \A g \in ToSet(used) \ recycled : \A p \in Page :
        cpt[g][p] # 0 => vpt[g][p] # 0 /\ cpt[g][p] = hpt[vpt[g][p]]
  BY DEF AgreesUntilReuse, FrameOf
<1>4. SUFFICES ASSUME NEW g \in ToSet(used') \ recycled', NEW p \in Page, cpt'[g][p] # 0
               PROVE  vpt'[g][p] # 0 /\ cpt'[g][p] = hpt'[vpt'[g][p]]
  BY DEF AgreesUntilReuse, FrameOf
<1>5. CASE Keeping
  <2>1. cpt' = cpt /\ vpt' = vpt /\ g \in ToSet(used) \ recycled
    BY <1>5 DEF Keeping
  <2>2. \A m \in 1..Len(hpt) : hpt'[m] = hpt[m]
    BY <1>5, Kept
  <2>3. vpt[g][p] # 0 /\ cpt[g][p] = hpt[vpt[g][p]]
    BY <1>3, <1>4, <2>1
  <2> QED
    BY <1>2, <2>1, <2>2, <2>3
<1>6. CASE Switching
  <2>1. vpt' = vpt /\ used' = used /\ recycled' = recycled
    BY <1>6 DEF Switching
  <2>2. \A h \in Guest : \A q \in Page : vpt[h][q] # 0 => hpt'[vpt[h][q]] = hpt[vpt[h][q]]
    BY <1>6, SwitchedTables, Zenon
  <2>3. \A h \in Guest : \A q \in Page :
          cpt'[h][q] = cpt[h][q] \/ (vpt[h][q] # 0 /\ cpt'[h][q] = hpt[vpt[h][q]])
    BY <1>6, SwitchedTables, Zenon
  <2>4. vpt[g][p] # 0 /\ cpt'[g][p] = hpt[vpt[g][p]]
    BY <1>2, <1>3, <1>4, <2>1, <2>3
  <2> QED
    BY <1>2, <2>1, <2>2, <2>4
<1>7. CASE Mapping
  <2>1. cpt' = cpt /\ hpt' = hpt /\ used' = used /\ recycled' = recycled
    BY <1>7, MappedTables DEF Mapping
  <2>2. \A h \in Guest : \A q \in Page : vpt[h][q] # 0 => vpt'[h][q] = vpt[h][q]
    BY <1>7, MappedTables
  <2> QED
    BY <1>2, <1>3, <1>4, <2>1, <2>2
<1>8. CASE Spawning
  <2>1. hpt' = hpt /\ \A h \in Guest : h # Child => vpt'[h] = vpt[h]
    BY <1>8, Spawned DEF Spawning
  <2>2. cpt' = cpt /\ Child \in Guest /\ ToSet(used') = {Child} \cup ToSet(used)
    BY <1>8, Pushed DEF Spawning, HyperBase, Lists
  <2>3. CASE g = Child
    <3>1. free = <<>>
      BY <1>8, <2>3 DEF Spawning
    <3>2. Child > Known
      <4>1. Child = Known + 1 /\ Known \in Nat
        BY <3>1 DEF Child, Known, HyperBase, Lists
      <4> QED
        BY <4>1
    <3>3. cpt[Child] = Empty
      BY <2>2, <3>2 DEF HyperBase, Unborn
    <3> QED
      BY <1>4, <2>2, <2>3, <3>3 DEF Empty
  <2>4. CASE g # Child
    <3>1. g \in ToSet(used) \ recycled /\ g \in Guest
      BY <1>2, <1>8, <2>2, <2>4 DEF Spawning
    <3>2. vpt[g][p] # 0 /\ cpt[g][p] = hpt[vpt[g][p]] /\ vpt'[g] = vpt[g]
      BY <1>3, <1>4, <2>1, <2>2, <2>4, <3>1
    <3> QED
      BY <1>2, <2>1, <2>2, <3>1, <3>2
  <2> QED
    BY <2>3, <2>4
<1> QED
  BY <1>1, <1>5, <1>6, <1>7, <1>8

(* Until a virtual context is used again, the page table the machine       *)
(* caches for it is the composition of the guest's page table with that of *)
(* the hypervisor: the assertion of restore_region (13507).                *)
THEOREM CachedTablesAgree == HyperSpec => []AgreesUntilReuse
<1>1. HyperInit => AgreesUntilReuse
  <2> SUFFICES ASSUME HyperInit PROVE AgreesUntilReuse
    OBVIOUS
  <2>1. used = <<1>> /\ 1 \in Guest
    BY HypervisorAssumption DEF HyperInit, Guest
  <2>2. ToSet(used) \subseteq Guest
    BY <2>1 DEF ToSet
  <2> QED
    BY <2>2 DEF HyperInit, Empty, AgreesUntilReuse
<1>2. HyperBase /\ Pages /\ AgreesUntilReuse /\ [HyperNext]_hyperVars => AgreesUntilReuse'
  BY Agreed
<1> QED
  BY <1>1, <1>2, BaseInvariant, PagesInvariant, PTL DEF HyperSpec

LEMMA Complete ==
  ASSUME HyperBase, Pages, NoMappingForgotten, RunsWithAllPages, [HyperNext]_hyperVars
  PROVE  RunsWithAllPages'
<1>1. Keeping \/ Switching \/ Mapping \/ Spawning
  BY Steps
<1>2. ToSet(used) \subseteq Guest /\ Host \notin Guest
  BY Tables
<1>3. CASE Keeping
  <2>1. UNCHANGED <<cpt, vpt, recycled>> /\ ToSet(used') \subseteq ToSet(used) /\ cur' \in {cur, Host}
    BY <1>3 DEF Keeping
  <2> QED
    BY <1>2, <2>1 DEF RunsWithAllPages
<1>4. CASE Switching
  <2>1. UNCHANGED <<vpt, used, recycled>>
    BY <1>4 DEF Switching
  <2>2. PICK c \in {Host} \cup Guest : SwitchTo(c)
    BY <1>4 DEF Switching
  <2>3. /\ cur' = c
        /\ \A p \in Page : c \in Guest => cpt'[c][p] = cpt[c][p] \/ cpt[c][p] = 0
        /\ \A p \in Page : c \in Guest /\ ToCopy(c, p) /\ vpt[c][p] # 0 /\ hpt[vpt[c][p]] # 0 => cpt'[c][p] # 0
    BY <2>2, Switched DEF HyperBase
  <2>4. c \in Guest => \A p \in Page : vpt[c][p] # 0 => hpt[vpt[c][p]] # 0
    BY DEF Pages, TouchedBefore
  <2> SUFFICES ASSUME c \in ToSet(used) \ recycled, NEW p \in Page, vpt[c][p] # 0
               PROVE  cpt'[c][p] # 0
    BY <2>1, <2>3 DEF RunsWithAllPages
  <2>5. c \in Guest /\ (cpt[c][p] # 0 \/ ToCopy(c, p))
    BY <1>2 DEF NoMappingForgotten
  <2> QED
    BY <2>3, <2>4, <2>5
<1>5. CASE Mapping \/ Spawning
  <2>1. cur' = Host
    BY <1>5 DEF Mapping, Spawning
  <2>2. ToSet(used') \subseteq Guest
    BY BaseKept DEF HyperBase, Lists, ToSet
  <2> QED
    BY <1>2, <2>1, <2>2 DEF RunsWithAllPages
<1> QED
  BY <1>1, <1>3, <1>4, <1>5

(* A guest that runs has in its cached page table every page its           *)
(* hypervisor has mapped: do_switch brings the table up to date, and while *)
(* the guest runs nobody maps a page for it.                               *)
THEOREM RunsComplete == HyperSpec => []RunsWithAllPages
<1>1. HyperInit => RunsWithAllPages
  <2> SUFFICES ASSUME HyperInit PROVE RunsWithAllPages
    OBVIOUS
  <2>1. used = <<1>> /\ cur = Host /\ Host # 1
    BY DEF HyperInit, Host
  <2>2. cur \notin ToSet(used)
    BY <2>1 DEF ToSet
  <2> QED
    BY <2>2 DEF RunsWithAllPages
<1>2. HyperBase /\ Pages /\ NoMappingForgotten /\ RunsWithAllPages /\ [HyperNext]_hyperVars => RunsWithAllPages'
  BY Complete
<1> QED
  BY <1>1, <1>2, BaseInvariant, PagesInvariant, NothingForgotten, PTL DEF HyperSpec
=============================================================================
