------------------------------- MODULE Packer -------------------------------
(***************************************************************************)
(* The packer: one algorithm that admission, fleet sizing and node removal *)
(* all ask.  Replicas are placed first-fit, in a fixed order, on bins in a *)
(* fixed order; nothing here remembers anything.                           *)
(*                                                                         *)
(* A bin is the room a node has for applications, with the master last.    *)
(* The order in which the applications are found is that of their          *)
(* priority.                                                               *)
(***************************************************************************)
EXTENDS Integers, Sequences, SequencesExt

CONSTANTS Apps,              \* the applications, by priority
          Least, Most,       \* the bounds of each one's policy
          MaxWorkers         \* the budget

VARIABLE cost                \* what one replica of each reserves

Named == Range(Apps)

ASSUME PackerConstants ==
  /\ Apps \in Seq(Named) /\ IsInjective(Apps) /\ Apps # << >>
  /\ Least \in [Named -> Nat \ {0}] /\ Most \in [Named -> Nat]
  /\ \A a \in Named : Least[a] <= Most[a]
  /\ MaxWorkers \in Nat

-----------------------------------------------------------------------------
Nothing           == [cpu |-> 0, mem |-> 0]
FitsIn(res, free) == res.cpu <= free.cpu /\ res.mem <= free.mem

Smaller(a, b) == IF a <= b THEN a ELSE b
Larger(a, b)  == IF a >= b THEN a ELSE b

Plus(free, res)   == [cpu |-> free.cpu + res.cpu, mem |-> free.mem + res.mem]
Minus(free, res)  ==                              \* never below zero
  [cpu |-> Larger(0, free.cpu - res.cpu), mem |-> Larger(0, free.mem - res.mem)]

Bin(key, free, manager) == [key |-> key, free |-> free, manager |-> manager]

\* Bins are tried in this order: the machine with the most CPU free first, and the
\* master after every worker.
Before(p, q) ==
  \/ ~p.manager /\ q.manager
  \/ p.manager = q.manager /\ p.free.cpu > q.free.cpu
  \/ p.manager = q.manager /\ p.free.cpu = q.free.cpu /\ p.key < q.key

\* s, and then n[a] items of every application a.
Dealt(s, n) == FoldLeft(LAMBDA t, a : t \o [k \in 1..n[a] |-> a], s, Apps)

\* One item a replica of those of A: round-robin for as long as every application has
\* one, then the rest.
Stream(s, counts, A) ==
  LET depth == Min({counts[a] : a \in Named})
      each  == [a \in Named |-> IF a \in A THEN 1 ELSE 0]
      rest  == [a \in Named |-> IF a \in A THEN counts[a] - depth ELSE 0]
  IN Dealt(FoldLeft(LAMBDA t, k : Dealt(t, each), s, [k \in 1..depth |-> k]), rest)

\* demand_items: what only a worker can take comes first.
Items(counts, bound) == Stream(Stream(<< >>, counts, bound), counts, Named \ bound)

\* The first bin that takes one more replica of a, or 0.
Taking(a, bound, bins, free) ==
  {i \in DOMAIN bins : ~(a \in bound /\ bins[i].manager) /\ FitsIn(cost[a], free[i])}
FirstFit(a, bound, bins, free) ==
  LET taking == Taking(a, bound, bins, free)
  IN IF taking = {} THEN 0
     ELSE CHOOSE i \in taking : \A j \in taking \ {i} : Before(bins[i], bins[j])

Room(bins) == [i \in DOMAIN bins |-> bins[i].free]

\* place: what is left over, and which bins received something.
Put(done, a, bound, bins) ==
  LET i == FirstFit(a, bound, bins, done.free)
  IN IF i = 0 THEN [done EXCEPT !.left = Append(@, a)]
     ELSE [done EXCEPT !.free[i] = Minus(@, cost[a]), !.used = @ \cup {i}]
Place(items, bound, bins) ==
  FoldLeft(LAMBDA done, a : Put(done, a, bound, bins),
           [free |-> Room(bins), used |-> {}, left |-> << >>], items)

AllPlaced(items, bound, bins) == Place(items, bound, bins).left = << >>

-----------------------------------------------------------------------------
(* admit: how many replicas of each may be set.                            *)

\* One pass of rounds over the applications: each is given a replica a round until it
\* has its target, and drops out of the pass when a round gives it none.
Give(d, a, target, bound, bins) ==
  LET i == FirstFit(a, bound, bins, d.free)
  IN IF a \in d.out THEN d
     ELSE IF d.granted[a] >= target[a] \/ i = 0 THEN [d EXCEPT !.out = @ \cup {a}]
     ELSE [d EXCEPT !.free[i] = Minus(@, cost[a]), !.granted[a] = @ + 1,
                    !.placed[a] = Append(@, i)]
Round(d, target, bound, bins) ==
  FoldLeft(LAMBDA e, a : Give(e, a, target, bound, bins), d, Apps)
Rounds(done, target, bound, bins) ==
  LET most == Max({target[a] : a \in Named} \cup {0}) + 1
  IN FoldLeft(LAMBDA d, k : Round(d, target, bound, bins), [done EXCEPT !.out = {}],
              [k \in 1..most |-> k])

\* The rollout slot: above its minimum an application keeps only what leaves room for
\* one more of it, because a rollout starts the new task first.
Yield(d, a, bound, bins) ==
  IF d.granted[a] <= Least[a] \/ FirstFit(a, bound, bins, d.free) # 0 THEN d
  ELSE [d EXCEPT !.granted[a] = @ - 1, !.placed[a] = Front(@),
                 !.free[Last(d.placed[a])] = Plus(@, cost[a])]
Slotted(done, bound, bins) ==
  FoldLeft(LAMBDA d, a : Yield(d, a, bound, bins), done, Apps)

\* Minimums first, then growth.
Filled(wants, bound, bins) ==
  LET start == [free |-> Room(bins), granted |-> [a \in Named |-> 0],
                placed |-> [a \in Named |-> << >>], out |-> {}]
      most  == [a \in Named |-> Larger(wants[a], Least[a])]
  IN Rounds(Rounds(start, Least, bound, bins), most, bound, bins)

\* Mutant of Granted: a node may be packed to exactly what it holds.
GrantedFull(wants, bound, bins) == Filled(wants, bound, bins).granted

\* And then the slot.
Granted(wants, bound, bins) == Slotted(Filled(wants, bound, bins), bound, bins).granted

\* It caps growth, and never asks for fewer than are both live and wanted.
Admit(wants, bound, bins, live) ==
  LET granted == Granted(wants, bound, bins)
  IN [a \in Named |-> Larger(Smaller(live[a], wants[a]), granted[a])]

-----------------------------------------------------------------------------
(* servers_needed and workers_needed.                                      *)

NoSize == [cpu |-> -1, mem |-> -1]           \* the catalogue cannot be read

\* New machines for what the existing ones do not take, until one takes nothing.
Open(d, n, new) ==
  LET still == Place(d.left, Named, <<Bin(n, new, FALSE)>>).left
  IN IF d.left = << >> \/ d.stop THEN d
     ELSE IF still = d.left THEN [d EXCEPT !.stop = TRUE]
     ELSE [d EXCEPT !.left = still, !.count = @ + 1]
NewServers(left, new) ==
  FoldLeft(LAMBDA d, n : Open(d, n, new), [left |-> left, count |-> 0, stop |-> FALSE],
           [n \in 1..(MaxWorkers + 3) |-> n]).count

\* The workers that receive something, the new ones, and one more under pressure.
ServersNeeded(items, bins, new, pressured) ==
  LET placed == Place(items, Named, bins)
      used   == Cardinality(placed.used)
  IN IF placed.left = << >> THEN used + (IF pressured THEN 1 ELSE 0)
     ELSE IF new = NoSize THEN Len(bins)
     ELSE used + NewServers(placed.left, new) + (IF pressured THEN 1 ELSE 0)

\* None when the master could hold everything; otherwise the workers hold all of it.
WorkersNeeded(wants, pressured, master, bins, new) ==
  IF ~pressured /\ AllPlaced(Items(wants, {}), {}, <<Bin(0, master, TRUE)>>) THEN 0
  ELSE ServersNeeded(Items(wants, Named), bins, new, pressured)

-----------------------------------------------------------------------------
\* What a placement is, whatever algorithm looks for one: the counts are a sum of what
\* each bin takes without being overrun.  For the properties.
Share(n, res) == [cpu |-> n * res.cpu, mem |-> n * res.mem]
Load(x) == FoldLeft(LAMBDA sum, a : Plus(sum, Share(x[a], cost[a])), Nothing, Apps)

Below(counts) ==
  {x \in [Named -> 0..Max(Range(counts))] : \A a \in Named : x[a] <= counts[a]}
Fills(counts, bound, bin) ==
  {x \in Below(counts) : /\ FitsIn(Load(x), bin.free)
                         /\ bin.manager => \A a \in bound : x[a] = 0}
Stacked(sums, counts, bound, bin) ==
  {y \in {[a \in Named |-> r[a] + x[a]] : r \in sums, x \in Fills(counts, bound, bin)} :
     \A a \in Named : y[a] <= counts[a]}
Holds(counts, bound, bins) ==
  counts \in FoldLeft(LAMBDA sums, bin : Stacked(sums, counts, bound, bin),
                      {[a \in Named |-> 0]}, bins)
=============================================================================
