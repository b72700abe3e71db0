------------------------------- MODULE Schemas -------------------------------
(***************************************************************************)
(* What the Alembic scripts under services/*/alembic/versions/ create and  *)
(* drop, a statement at a time.  A service owns one database; a script is  *)
(* a record of the statements of its upgrade() and of its downgrade().     *)
(* Columns, keys and the columns of an index are left out: no statement's  *)
(* outcome depends on them.                                                *)
(***************************************************************************)
EXTENDS Sequences, SequencesExt

\* A schema object: a table, or an index of a table.
Table(t) == [table |-> t, index |-> ""]
Index(t, name) == [table |-> t, index |-> name]

Indexes(t, names) == [i \in DOMAIN names |-> Index(t, names[i])]

\* Most scripts drop what they created in the opposite order.
Symmetric(statements) == [up |-> statements, down |-> Reverse(statements)]

------------------------------------------------------------------------------
InventoryInitial == Symmetric(
  <<Table("products")>> \o Indexes("products", <<"sku", "category", "category_sku">>))

InventoryIndexes == Symmetric(
  Indexes("products", <<"category_qty", "qty_reorder", "created_at", "sku_qty">>))

InventoryProcessedEvents == Symmetric(
  <<Table("processed_events"), Index("processed_events", "processed_at")>>)

\* The first scripts of the other two drop their tables only, and DROP TABLE
\* takes the indexes with it.
OrderInitial ==
  [up |-> <<Table("orders")>>
          \o Indexes("orders", <<"customer_id", "status", "created_at">>)
          \o <<Table("order_items")>>
          \o Indexes("order_items", <<"order_id", "product_id">>),
   down |-> <<Table("order_items"), Table("orders")>>]

OrderIndexes == Symmetric(
  Indexes("orders", <<"customer_created", "status_created">>)
  \o Indexes("order_items", <<"sku", "order_product">>))

OrderProcessedEvents == Symmetric(
  <<Table("processed_events"), Index("processed_events", "processed_at")>>)

FulfillmentInitial ==
  [up |-> <<Table("fulfillments")>>
          \o Indexes("fulfillments", <<"order_id", "customer_id", "status">>),
   down |-> <<Table("fulfillments")>>]

FulfillmentIndexes == Symmetric(
  Indexes("fulfillments",
          <<"status_created", "customer_status", "carrier_status", "created_at">>))

FulfillmentProcessedEvents == Symmetric(
  <<Table("processed_events"), Index("processed_events", "processed_at")>>)

------------------------------------------------------------------------------
\* The chain of revisions of a service, linked by down_revision.
AlembicScripts ==
  [inventory |-> <<InventoryInitial, InventoryIndexes, InventoryProcessedEvents>>,
   order |-> <<OrderInitial, OrderIndexes, OrderProcessedEvents>>,
   fulfillment |-> <<FulfillmentInitial, FulfillmentIndexes, FulfillmentProcessedEvents>>]
==============================================================================
