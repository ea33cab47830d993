------------------------------- MODULE Shops -------------------------------
(***************************************************************************)
(* Shops, buyers and the loader (hw11_thread/main.c).  A buyer goes        *)
(* through the shops until it finds one with goods, buys what it can or    *)
(* needs, sleeps, and starts again until its demand is met; the loader     *)
(* goes round and adds goods to every shop until all buyers have finished. *)
(* Each shop has a mutex, and so has the counter buyers_finished.          *)
(*                                                                         *)
(* A critical section is two steps: lock and read, then write and unlock,  *)
(* so that a missing lock would lose an update.  Sleeping is a program     *)
(* point.  supplied and wanted observe the goods that came in and the      *)
(* demands at the start.                                                   *)
(***************************************************************************)
EXTENDS Integers, FiniteSets, Functions

CONSTANTS Buyers,
          ShopCount,        \* SHOP_COUNT
          Stock, Demand,    \* initial stocks and demands to choose from
          Load,             \* goods the loader adds to a shop
          Nobody,           \* a mutex that is free
          MaxStock          \* bound: no round starts with more goods in a shop

ASSUME ShopsAssumption ==
  /\ ShopCount \in Nat \ {0} /\ Load \in Nat \ {0} /\ MaxStock \in Nat
  /\ Stock \subseteq Nat /\ Demand \subseteq Nat \ {0}
  /\ IsFiniteSet(Buyers) /\ "loader" \notin Buyers
  /\ Nobody \notin Buyers \union {"loader"}

Shop == 1 .. ShopCount

VARIABLES shop, mutex,                  \* shop[], shop_mutex[]
          buyers_finished, finish,      \* the counter and its mutex
          pc, visiting, seen, demand,   \* per buyer: i, the stock read, demand
          loader, at, found,            \* loader: program point, i, stock read
          main,
          supplied, wanted              \* observers

buyerVars == <<pc, visiting, seen, demand>>
loaderVars == <<loader, at, found>>
finishVars == <<buyers_finished, finish>>
observers == <<supplied, wanted>>
shopsVars == <<shop, mutex, finishVars, buyerVars, loaderVars, main, observers>>

Total(f) == FoldFunction(LAMBDA x, y : x + y, 0, f)

\* Nothing is there before main has run.
ShopsInit ==
  /\ shop = [i \in Shop |-> 0] /\ mutex = [i \in Shop |-> Nobody]
  /\ buyers_finished = 0 /\ finish = Nobody
  /\ pc = [b \in Buyers |-> "unborn"] /\ visiting = [b \in Buyers |-> 1]
  /\ seen = [b \in Buyers |-> 0] /\ demand = [b \in Buyers |-> 0]
  /\ loader = "unborn" /\ at = 1 /\ found = 0
  /\ main = "start"
  /\ supplied = 0 /\ wanted = [b \in Buyers |-> 0]

\* main fills the shops, draws the demands and creates the threads.
MainStart ==
  /\ main = "start" /\ main' = "join"
  /\ shop' \in [Shop -> Stock]
  /\ demand' \in [Buyers -> Demand]
  /\ pc' = [b \in Buyers |-> "lock"] /\ loader' = "check"
  /\ supplied' = Total(shop') /\ wanted' = demand'
  /\ UNCHANGED <<mutex, finishVars, visiting, seen, at, found>>

-----------------------------------------------------------------------------
(* buyer_func.                                                             *)

\* Mutation: the stock is read before the mutex is taken.
BuyerLockLate(b) ==
  /\ pc[b] = "lock"
  /\ mutex' = [mutex EXCEPT ![visiting[b]] = b]
  /\ seen' = [seen EXCEPT ![b] = shop[visiting[b]]]
  /\ pc' = [pc EXCEPT ![b] = "buy"]
  /\ UNCHANGED <<shop, finishVars, visiting, demand, loaderVars, main, observers>>

BuyerLock(b) ==
  /\ pc[b] = "lock"
  /\ mutex[visiting[b]] = Nobody
  /\ mutex' = [mutex EXCEPT ![visiting[b]] = b]
  /\ seen' = [seen EXCEPT ![b] = shop[visiting[b]]]
  /\ pc' = [pc EXCEPT ![b] = "buy"]
  /\ UNCHANGED <<shop, finishVars, visiting, demand, loaderVars, main, observers>>

can_buy(b) == IF demand[b] < seen[b] THEN demand[b] ELSE seen[b]

\* Goods are there: buy, unlock, leave the loop over the shops, sleep.
Buy(b) ==
  /\ pc[b] = "buy" /\ seen[b] > 0
  /\ shop' = [shop EXCEPT ![visiting[b]] = seen[b] - can_buy(b)]
  /\ demand' = [demand EXCEPT ![b] = @ - can_buy(b)]
  /\ mutex' = [mutex EXCEPT ![visiting[b]] = Nobody]
  /\ pc' = [pc EXCEPT ![b] = "sleep"]
  /\ UNCHANGED <<finishVars, visiting, seen, loaderVars, main, observers>>

\* The shop is empty: on to the next one, or to sleep after the last.
BuyNothing(b) ==
  /\ pc[b] = "buy" /\ seen[b] = 0
  /\ mutex' = [mutex EXCEPT ![visiting[b]] = Nobody]
  /\ IF visiting[b] < ShopCount
     THEN /\ visiting' = [visiting EXCEPT ![b] = @ + 1]
          /\ pc' = [pc EXCEPT ![b] = "lock"]
     ELSE /\ pc' = [pc EXCEPT ![b] = "sleep"] /\ UNCHANGED visiting
  /\ UNCHANGED <<shop, finishVars, seen, demand, loaderVars, main, observers>>

WakeUp(b) ==
  /\ pc[b] = "sleep"
  /\ pc' = [pc EXCEPT ![b] = IF demand[b] > 0 THEN "lock" ELSE "finish"]
  /\ visiting' = [visiting EXCEPT ![b] = 1]
  /\ UNCHANGED <<shop, mutex, finishVars, seen, demand, loaderVars, main, observers>>

\* Mutation: the counter is incremented without its mutex.
FinishLockless(b) ==
  /\ pc[b] = "finish"
  /\ finish' = b
  /\ seen' = [seen EXCEPT ![b] = buyers_finished]
  /\ pc' = [pc EXCEPT ![b] = "count"]
  /\ UNCHANGED <<shop, mutex, buyers_finished, visiting, demand, loaderVars, main, observers>>

FinishLock(b) ==
  /\ pc[b] = "finish" /\ finish = Nobody
  /\ finish' = b
  /\ seen' = [seen EXCEPT ![b] = buyers_finished]
  /\ pc' = [pc EXCEPT ![b] = "count"]
  /\ UNCHANGED <<shop, mutex, buyers_finished, visiting, demand, loaderVars, main, observers>>

FinishCount(b) ==
  /\ pc[b] = "count"
  /\ buyers_finished' = seen[b] + 1
  /\ finish' = Nobody
  /\ pc' = [pc EXCEPT ![b] = "done"]
  /\ UNCHANGED <<shop, mutex, visiting, seen, demand, loaderVars, main, observers>>

-----------------------------------------------------------------------------
(* loader_func and main.                                                   *)

AllFinished == buyers_finished = Cardinality(Buyers)

LoaderCheck ==
  /\ loader = "check" /\ finish = Nobody
  /\ loader' = (IF AllFinished THEN "done" ELSE "lock")
  /\ AllFinished \/ \A i \in Shop : shop[i] <= MaxStock
  /\ at' = 1
  /\ UNCHANGED <<shop, mutex, finishVars, buyerVars, found, main, observers>>

LoaderLock ==
  /\ loader = "lock" /\ mutex[at] = Nobody
  /\ mutex' = [mutex EXCEPT ![at] = "loader"]
  /\ found' = shop[at]
  /\ loader' = "load"
  /\ UNCHANGED <<shop, finishVars, buyerVars, at, main, observers>>

\* The goods are added; after a sleep the next shop, or the next round.
LoaderLoad ==
  /\ loader = "load"
  /\ shop' = [shop EXCEPT ![at] = found + Load]
  /\ mutex' = [mutex EXCEPT ![at] = Nobody]
  /\ supplied' = supplied + Load
  /\ IF at < ShopCount THEN at' = at + 1 /\ loader' = "lock"
                       ELSE loader' = "check" /\ UNCHANGED at
  /\ UNCHANGED <<finishVars, buyerVars, found, main, wanted>>

MainJoin ==
  /\ main = "join"
  /\ loader = "done" /\ \A b \in Buyers : pc[b] = "done"
  /\ main' = "done"
  /\ UNCHANGED <<shop, mutex, finishVars, buyerVars, loaderVars, observers>>

-----------------------------------------------------------------------------
BuyerStep(b) == \/ BuyerLock(b) \/ Buy(b) \/ BuyNothing(b) \/ WakeUp(b)
                \/ FinishLock(b) \/ FinishCount(b)
LoaderStep == LoaderCheck \/ LoaderLock \/ LoaderLoad

ShopsNext == MainStart \/ (\E b \in Buyers : BuyerStep(b)) \/ LoaderStep \/ MainJoin

(* The threads are scheduled, and one that waits for a mutex others take   *)
(* and release again and again gets it: they sleep for seconds in between. *)
ShopsFairness == /\ \A b \in Buyers : SF_shopsVars(BuyerStep(b))
            /\ SF_shopsVars(LoaderStep) /\ WF_shopsVars(MainJoin)

-----------------------------------------------------------------------------
(* Properties.                                                             *)

(* Every variable has its type: neither a stock nor a demand is negative.  *)
ShopsTypeOK ==
  /\ shop \in [Shop -> Nat] /\ mutex \in [Shop -> Buyers \union {"loader", Nobody}]
  /\ buyers_finished \in 0 .. Cardinality(Buyers) /\ finish \in Buyers \union {Nobody}
  /\ pc \in [Buyers -> {"unborn", "lock", "buy", "sleep", "finish", "count", "done"}]
  /\ visiting \in [Buyers -> Shop] /\ seen \in [Buyers -> Nat]
  /\ demand \in [Buyers -> Nat]
  /\ loader \in {"unborn", "check", "lock", "load", "done"} /\ at \in Shop /\ found \in Nat
  /\ main \in {"start", "join", "done"}
  /\ supplied \in Nat /\ wanted \in [Buyers -> Nat]

(* No goods are lost and none are sold twice: what was supplied is in the  *)
(* shops or was bought, whatever buyers and loader do at the same time.    *)
GoodsConserved ==
  supplied = Total(shop) + Total([b \in Buyers |-> wanted[b] - demand[b]])

(* The loader leaves last: when it stops bringing goods, every buyer has   *)
(* all it wanted and has counted itself as finished, so that nobody is     *)
(* left waiting at an empty shop.                                          *)
LoaderLeavesLast == loader = "done" => \A b \in Buyers : pc[b] = "done" /\ demand[b] = 0

(* The program terminates, with every demand met: however the others empty *)
(* the shops before it, every buyer gets what it wants, the loader stays   *)
(* until then, and it notices the last one.                                *)
Terminates == main = "join" ~> main = "done" /\ \A b \in Buyers : demand[b] = 0
=============================================================================
