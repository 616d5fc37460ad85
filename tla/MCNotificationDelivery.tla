----------------------- MODULE MCNotificationDelivery -----------------------
(***************************************************************************)
(* One wishlist digest and one direct notification; three readers, one of  *)
(* whom wrote the novel, paged two at a time; two overlapping ticks.       *)
(***************************************************************************)
EXTENDS NotificationDelivery, TLC

MCReaders == 1 .. 3
MCCommanders == {1, 3}
MCEvents == {1, 2}
MCKind == <<"wishlist_episodes_published", "order_completed">>
MCTarget == <<None, 3>>
MCKinds == {MCKind[e] : e \in MCEvents}
MCDefaultOn == [k \in MCKinds |-> TRUE]
MCFirstChoice ==
  [u \in MCReaders |-> [k \in MCKinds |-> IF u = 3 THEN "on" ELSE "default"]]
WorkerSymmetry == Permutations(Workers)
=============================================================================
