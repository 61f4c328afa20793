--------------------------- MODULE ShopifyCatalog ---------------------------
(***************************************************************************)
(* A product with variants, sold in several Shopify stores.  The store     *)
(* Home keeps its ids on the template and on the variants, the others in   *)
(* rows of shopify.multi.store; shopify_instance_id says whose the ids on  *)
(* the records are, as an import of another store may put its own there.   *)
(*                                                                         *)
(* A request (the wizards that create, update and delete, and the imports) *)
(* makes its calls store by store and commits once at its end.  Each call  *)
(* is a step.  An error that is raised, a serialization failure or a dead  *)
(* worker ends it (LoseCatalog), and what it did in Shopify stays.         *)
(***************************************************************************)
EXTENDS Integers, FiniteSets, FiniteSetsExt

CONSTANTS
    Shops,
    Home,       \* the store of the configuration (get_marketplace), instance 1
    NoShop,
    Parts,      \* the variants, by their position, with their skus
    Keepers,    \* requests
    MaxIds,     \* ids that a store gives to variants
    MaxRequests \* requests that begin

ASSUME CatalogAssumption ==
    /\ Home \in Shops /\ NoShop \notin Shops
    /\ Parts \in SUBSET (Nat \ {0}) /\ IsFiniteSet(Parts) /\ Parts # {}
    /\ {MaxIds, MaxRequests} \subseteq Nat

VARIABLES
    goods,      \* Shopify: the variants that exist
    issued,     \* Shopify: the last id of each store
    links,      \* committed: the ids in Odoo
    keeper,     \* the requests
    begun,      \* observation: how many have begun
    confused     \* observation: stores whose ids Odoo may have lost

catalogvars == <<goods, issued, links, keeper, begun, confused>>

NoId     == 0
Unknown  == [id |-> NoId, shop |-> NoShop]
Template == 0      \* as the object of a request, next to the variants

(* Variants V of a product, with the ids after the given one.              *)
Goods(s, product, V, after) ==
    {[shop |-> s, product |-> product, part |-> v, id |-> after + v] : v \in V}

Unlinked == [tmpl |-> Unknown, var |-> [v \in Parts |-> Unknown], maps |-> {}]
Resting == [at |-> "idle", what |-> "none", of |-> Template, todo |-> {}, shops |-> {},
            touched |-> {}, payload |-> {}, rows |-> Unlinked, base |-> Unlinked]

In(S, s)     == {g \in S : g.shop = s}
Products(S)  == {g.product : g \in S}
MapOf(g)     == [shop |-> g.shop, part |-> g.part, id |-> g.id, parent |-> g.product]
MapsIn(rows, s) == {r \in rows.maps : r.shop = s}

CatalogTypeOK ==
    /\ \A g \in goods : g.shop \in Shops /\ g.part \in Parts /\ g.id \in 1 .. issued[g.shop]
    /\ issued \in [Shops -> 0 .. MaxIds]
    /\ links.tmpl.shop \in Shops \cup {NoShop}
    /\ \A r \in links.maps : r.shop \in Shops /\ r.part \in Parts
    /\ \A k \in Keepers : keeper[k].at \in {"idle", "export", "import"}
    /\ confused \subseteq Shops

(* Nothing is anywhere, or the product was made in a store by hand.        *)
CatalogInit ==
    /\ \E s \in Shops \cup {NoShop} :
          /\ goods = IF s = NoShop THEN {} ELSE Goods(s, 1, Parts, 0)
          /\ issued = [t \in Shops |-> IF t = s THEN Max(Parts) ELSE 0]
          /\ confused = {s} \ {NoShop}
    /\ links = Unlinked
    /\ keeper = [k \in Keepers |-> Resting]
    /\ begun = 0

-----------------------------------------------------------------------------
(* Requests and their transaction.                                         *)

(* A store that two requests are busy with at a time is confused, as each   *)
(* decides by what it saw when it began.                                   *)
Contended(k, S) == S \cap UNION {keeper[j].shops : j \in Keepers \ {k}}

BeginCatalog(k, what, of, todo, S, payload) ==
    /\ keeper[k].at = "idle" /\ begun < MaxRequests
    /\ begun' = begun + 1
    /\ keeper' = [keeper EXCEPT ![k] =
          [at |-> IF payload = {} THEN "export" ELSE "import", what |-> what, of |-> of,
           todo |-> todo, shops |-> S, touched |-> {}, payload |-> payload,
           rows |-> links, base |-> links]]
    /\ confused' = confused \cup Contended(k, S)
    /\ UNCHANGED <<goods, issued, links>>

LoseCatalog(k) ==
    /\ keeper[k].at # "idle"
    /\ keeper' = [keeper EXCEPT ![k] = Resting]
    /\ confused' = confused \cup keeper[k].touched
    /\ UNCHANGED <<goods, issued, links, begun>>

(* Rows that somebody else has written since cannot be written, a mapping  *)
(* with the store and the id of another one cannot be inserted.            *)
CanStore(rows, base) ==
    /\ rows.tmpl # base.tmpl => links.tmpl = base.tmpl
    /\ \A v \in Parts : rows.var[v] # base.var[v] => links.var[v] = base.var[v]
    /\ base.maps \ rows.maps \subseteq links.maps
    /\ \A r \in rows.maps \ base.maps, q \in links.maps \ (base.maps \ rows.maps) :
          r.shop # q.shop \/ r.id # q.id

Stored(rows, base) ==
    [tmpl |-> IF rows.tmpl = base.tmpl THEN links.tmpl ELSE rows.tmpl,
     var  |-> [v \in Parts |-> IF rows.var[v] = base.var[v] THEN links.var[v] ELSE rows.var[v]],
     maps |-> (links.maps \ (base.maps \ rows.maps)) \cup (rows.maps \ base.maps)]

(* The call for store s is done, with rows written.                        *)
Proceed(k, s, rows, touched) ==
    keeper' = [keeper EXCEPT ![k].todo = @ \ {s}, ![k].rows = rows,
                             ![k].touched = @ \cup touched]

-----------------------------------------------------------------------------
(* The wizards: create.variant.shopify and delete.product.shopify.         *)

(* get_product_template_shopify_instances, get_product_shopify_instances.  *)
ShopsOf(rows, of) ==
    IF of = Template
    THEN ({rows.tmpl.shop} \cup {r.shop : r \in rows.maps}) \ {NoShop}
    ELSE ({rows.var[of].shop} \cup {r.shop : r \in {q \in rows.maps : q.part = of}}) \ {NoShop}

(* The stores whose ids the records have.                                  *)
OwnShops(rows) == ({rows.tmpl.shop} \cup {rows.var[v].shop : v \in Parts}) \ {NoShop}

(* action_create, action_update and action_delete choose their stores.     *)
BeginExport(k, what, of, S) ==
    LET todo == CASE what = "create" -> S \ ShopsOf(links, of)
                  [] what = "update" -> S \cap ShopsOf(links, of)
                  [] what = "delete" -> S
    IN  /\ todo # {}
        /\ BeginCatalog(k, what, of, todo,
                        todo \cup IF Home \in todo THEN OwnShops(links) ELSE {}, {})

Doing(k, s, what) == keeper[k].at = "export" /\ s \in keeper[k].todo /\ keeper[k].what = what

(* shopify_pt_request writes the ids of the answer: on the records at Home *)
(* (the id of the template if it has none), in new mappings elsewhere.     *)
WithAnswer(rows, s, G) ==
    IF s = Home
    THEN [rows EXCEPT
            !.tmpl = IF @.id = NoId THEN [id |-> Min(Products(G)), shop |-> Home] ELSE @,
            !.var  = [v \in Parts |-> IF \E g \in G : g.part = v
                                      THEN [id |-> (CHOOSE g \in G : g.part = v).id, shop |-> Home]
                                      ELSE @[v]]]
    ELSE [rows EXCEPT !.maps = @ \cup {MapOf(g) : g \in G}]

(* POST of the template with its variants, whose ids Shopify ignores.      *)
(* Where the records hold the ids of another store, some are lost.         *)
CreateProduct(k, s) ==
    /\ Doing(k, s, "create") /\ keeper[k].of = Template
    /\ issued[s] + Max(Parts) <= MaxIds
    /\ LET G    == Goods(s, issued[s] + 1, Parts, issued[s])
           rows == keeper[k].rows
       IN  /\ goods' = goods \cup G
           /\ issued' = [issued EXCEPT ![s] = @ + Max(Parts)]
           /\ Proceed(k, s, WithAnswer(rows, s, G), {s})
           /\ confused' = IF s = Home /\ OwnShops(rows) # {}
                         THEN confused \cup {Home} \cup OwnShops(rows) ELSE confused
    /\ UNCHANGED <<links, begun>>

(* The product that a variant is added to or removed from; NoId is refused *)
(* by Shopify.                                                             *)
ParentsIn(rows, s) ==
    IF rows.tmpl.id # NoId /\ rows.tmpl.shop = s
    THEN {rows.tmpl.id}
    ELSE {r.parent : r \in MapsIn(rows, s)}

(* shopify_pt_request_create_product_by_instance: POST of a variant, also  *)
(* when it is to be updated; Shopify refuses a variant the product has.    *)
AddVariant(k, s) ==
    /\ keeper[k].of # Template
    /\ Doing(k, s, "create") \/ Doing(k, s, "update")
    /\ issued[s] < MaxIds
    /\ LET rows == keeper[k].rows
           v    == keeper[k].of
           old  == {r \in MapsIn(rows, s) : r.part = v}
       IN  \E p \in ParentsIn(rows, s) \cap Products(In(goods, s)) :
              LET new == [shop |-> s, product |-> p, part |-> v, id |-> issued[s] + 1]
              IN  /\ \A g \in In(goods, s) : g.product = p => g.part # v
                  /\ goods' = goods \cup {new}
                  /\ issued' = [issued EXCEPT ![s] = @ + 1]
                  /\ Cardinality(old) <= 1      \* two cannot have the one id
                  /\ Proceed(k, s, IF s # Home
                                   THEN [rows EXCEPT !.maps = (@ \ old) \cup {MapOf(new)}]
                                   ELSE IF rows.var[v].id = NoId
                                   THEN [rows EXCEPT !.var[v] = [id |-> new.id, shop |-> Home]]
                                   ELSE rows, {s})
                  /\ confused' = IF IF s = Home THEN rows.tmpl.shop = s /\ rows.var[v] = Unknown
                                   ELSE s \notin OwnShops(rows)
                                THEN confused ELSE confused \cup {s}
    /\ UNCHANGED <<links, begun>>

(* PUT of the template with the ids that the variants have on record.      *)
(* Shopify replaces the variants it has by these; one that comes without   *)
(* id is a new one, and an id of another store is refused.                 *)
UpdateProduct(k, s) ==
    /\ Doing(k, s, "update") /\ keeper[k].of = Template
    /\ LET rows  == keeper[k].rows
           sent  == {v \in Parts : rows.var[v].id # NoId}
           fresh == Parts \ sent
           known == {r.parent : r \in MapsIn(rows, s)}
       IN  \E p \in (IF s # Home THEN known ELSE IF rows.tmpl.shop = s THEN {rows.tmpl.id} ELSE {})
                        \cap Products(In(goods, s)) :
              LET has  == {g \in In(goods, s) : g.product = p}
                  kept == {g \in has : rows.var[g.part] = [id |-> g.id, shop |-> s]}
                  G    == kept \cup Goods(s, p, fresh, issued[s])
              IN  /\ {g.part : g \in kept} = sent
                  /\ fresh # {} => issued[s] + Max(Parts) <= MaxIds
                  /\ goods' = (goods \ has) \cup G
                  /\ issued' = [issued EXCEPT ![s] = IF fresh = {} THEN @ ELSE @ + Max(Parts)]
                  \* UNIQUE: a mapping with the id is there already
                  /\ s # Home => {MapOf(g) : g \in G} \cap rows.maps = {}
                  /\ Proceed(k, s, WithAnswer(rows, s, G), IF G = has THEN {} ELSE {s})
                  /\ confused' = IF s = Home THEN confused ELSE confused \cup {s}
    /\ UNCHANGED <<links, begun>>

(* Mutant of Removed: the ids of the variants stay.                        *)
RemovedTemplate(rows, s) ==
    IF rows.tmpl.shop = s THEN [rows EXCEPT !.tmpl = Unknown]
    ELSE [rows EXCEPT !.maps = @ \ MapsIn(rows, s)]

(* action_delete_product clears the records, or unlinks the mappings.      *)
Removed(rows, s) ==
    IF rows.tmpl.shop = s
    THEN [rows EXCEPT !.tmpl = Unknown, !.var = [v \in Parts |-> Unknown]]
    ELSE [rows EXCEPT !.maps = @ \ MapsIn(rows, s)]

DeleteProduct(k, s) ==
    /\ Doing(k, s, "delete") /\ keeper[k].of = Template
    /\ LET rows == keeper[k].rows
       IN  \E p \in ParentsIn(rows, s) \cap Products(In(goods, s)) :
              /\ goods' = {g \in goods : g.shop # s \/ g.product # p}
              /\ Proceed(k, s, Removed(rows, s), {s})
    /\ UNCHANGED <<issued, links, begun, confused>>

(* action_delete_product_variant; Shopify keeps the last variant.          *)
DeleteVariant(k, s) ==
    /\ Doing(k, s, "delete") /\ keeper[k].of # Template
    /\ LET rows == keeper[k].rows
           v    == keeper[k].of
           own  == rows.var[v].shop = s
           told == IF own THEN {[id |-> rows.var[v].id, parent |-> rows.tmpl.id, row |-> {}]}
                   ELSE {[id |-> r.id, parent |-> r.parent, row |-> {r}] :
                            r \in {q \in MapsIn(rows, s) : q.part = v}}
       IN  \E t \in told, g \in In(goods, s) :
              /\ g.id = t.id /\ g.product = t.parent
              /\ \E h \in In(goods, s) \ {g} : h.product = g.product
              /\ goods' = goods \ {g}
              /\ Proceed(k, s, IF own THEN [rows EXCEPT !.var[v] = Unknown]
                               ELSE [rows EXCEPT !.maps = @ \ t.row], {s})
    /\ UNCHANGED <<issued, links, begun, confused>>

(* Nothing to delete, or an error of the call: it is logged.  It is        *)
(* assumed that a call that answers with an error has done nothing.        *)
PassBy(k, s) ==
    /\ Doing(k, s, "delete")
    /\ Proceed(k, s, keeper[k].rows, {})
    /\ UNCHANGED <<goods, issued, links, begun, confused>>

CommitExport(k) ==
    /\ keeper[k].at = "export" /\ keeper[k].todo = {}
    /\ CanStore(keeper[k].rows, keeper[k].base)
    /\ links' = Stored(keeper[k].rows, keeper[k].base)
    /\ keeper' = [keeper EXCEPT ![k] = Resting]
    /\ UNCHANGED <<goods, issued, begun, confused>>

-----------------------------------------------------------------------------
(* The imports: "single" (shopify_fetch_products_to_odoo), "multi"         *)
(* (..._multi_store), and "map" (map_shopify_product_id).                  *)

(* All products of the store are fetched; create_feed_parent_product       *)
(* commits those it meets for the first time.                              *)
FetchCatalog(k, s, how) ==
    /\ In(goods, s) # {}
    /\ BeginCatalog(k, how, Template, {s}, {s} \cup OwnShops(links), In(goods, s))

(* The products are dealt with one after the other: the last one counts.   *)
Latest(P) == {g \in P : \A h \in P : h.part = g.part => h.product <= g.product}

OnRecords(var, P) ==
    [v \in Parts |-> IF \E g \in P : g.part = v
                     THEN LET g == CHOOSE h \in P : h.part = v IN [id |-> g.id, shop |-> g.shop]
                     ELSE var[v]]

Mapped(rows, P) ==
    [rows EXCEPT !.maps =
        {r \in @ : \A g \in P : r.shop # g.shop \/ r.part # g.part} \cup {MapOf(g) : g \in P}]

(* process_feed_product, process_feed_product_custom and the mapping of a  *)
(* store, which knows the store Home by its number.                        *)
Imported(rows, how, s, P) ==
    CASE how = "single" -> [rows EXCEPT !.tmpl = [id |-> Max(Products(P)), shop |-> s],
                                        !.var = OnRecords(@, Latest(P))]
      [] how = "map" /\ s = Home -> [rows EXCEPT !.var = OnRecords(@, Latest(P))]
      [] OTHER -> Mapped(rows, Latest(P))

(* Two mappings of a variant cannot have the one id.                       *)
Mappable(rows, P) ==
    \A r, q \in rows.maps, g \in P :
        r.shop = g.shop /\ q.shop = g.shop /\ r.part = g.part /\ q.part = g.part => r = q

(* The ids in Odoo are those of the store and of no more than one product, *)
(* and in one place.                                                       *)
Synced(rows, s) ==
    LET G   == In(goods, s)
        own == {v \in Parts : rows.var[v].shop = s}
    IN  IF rows.tmpl.shop = s
        THEN /\ Products(G) = {rows.tmpl.id} /\ MapsIn(rows, s) = {}
             /\ {<<v, rows.var[v].id>> : v \in own} = {<<g.part, g.id>> : g \in G}
        ELSE /\ own = {} /\ MapsIn(rows, s) = {MapOf(g) : g \in G}
             /\ Cardinality(Products(G)) <= 1

(* What an import confuses: the store whose ids it writes over, and that   *)
(* whose ids are now in both places or only on the variants.               *)
Confused(rows, how, s) ==
    CASE how = "single" -> (OwnShops(rows) \ {s}) \cup (IF MapsIn(rows, s) = {} THEN {} ELSE {s})
      [] how = "map" /\ s = Home ->
            IF rows.tmpl.shop = Home THEN {} ELSE {Home} \cup OwnShops(rows)
      [] OTHER -> OwnShops(rows) \cap {s}

(* What an import makes up for: it finds one product, with all variants    *)
(* that have an id of the store, and no id of it in the other place.       *)
Heals(rows, how, s, P) ==
    LET seen == {g.part : g \in P}
    IN  /\ Cardinality(Products(P)) = 1
        /\ how = "map" /\ s = Home => \E g \in P : rows.tmpl = [id |-> g.product, shop |-> s]
        /\ IF how = "single" \/ (how = "map" /\ s = Home)
           THEN MapsIn(rows, s) = {} /\ \A v \in Parts \ seen : rows.var[v].shop # s
           ELSE s \notin OwnShops(rows) /\ \A r \in MapsIn(rows, s) : r.part \in seen

EndImport(k) ==
    /\ keeper[k].at = "import"
    /\ LET P    == keeper[k].payload
           how  == keeper[k].what
           s    == CHOOSE t \in Shops : t \in keeper[k].todo
           rows == Imported(keeper[k].rows, how, s, P)
       IN  /\ Mappable(keeper[k].rows, P)
           /\ CanStore(rows, keeper[k].base)
           /\ links' = Stored(rows, keeper[k].base)
           /\ confused' = (confused \cup Confused(keeper[k].rows, how, s)
                                  \cup IF P = In(goods, s) THEN {} ELSE {s})
                            \ {t \in {s} : /\ P = In(goods, t) /\ keeper[k].base = links
                                          /\ Contended(k, {t}) = {}
                                          /\ Heals(keeper[k].rows, how, t, P)}
    /\ keeper' = [keeper EXCEPT ![k] = Resting]
    /\ UNCHANGED <<goods, issued, begun>>

CatalogNext ==
    \E k \in Keepers :
        \/ \E what \in {"create", "update", "delete"}, of \in Parts \cup {Template},
              S \in SUBSET Shops : BeginExport(k, what, of, S)
        \/ \E s \in Shops :
              \/ CreateProduct(k, s) \/ AddVariant(k, s) \/ UpdateProduct(k, s)
              \/ DeleteProduct(k, s) \/ DeleteVariant(k, s) \/ PassBy(k, s)
              \/ \E how \in {"single", "multi", "map"} : FetchCatalog(k, s, how)
        \/ CommitExport(k) \/ EndImport(k) \/ LoseCatalog(k)

CatalogSpec == CatalogInit /\ [][CatalogNext]_catalogvars

-----------------------------------------------------------------------------
(* A store has the product once, and its ids are what Odoo has of it, so   *)
(* that exports of stock and of orders reach what they mean: through any   *)
(* creations, updates and deletions of the product or of its variants in   *)
(* several stores, and imports.  Unless a request was lost after its call, *)
(* two of them met in the store, an update sent the ids of Home to another *)
(* store (utils.py:84, 553), or an import put the ids of one store over    *)
(* those of another or in two places.  An import that finds all variants   *)
(* makes up for it.                                                        *)
CatalogSynced ==
    \A s \in Shops \ (confused \cup UNION {keeper[k].shops : k \in Keepers}) : Synced(links, s)
=============================================================================
