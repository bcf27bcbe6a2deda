--------------------------- MODULE MCQueryPipeline ---------------------------
(* A cube of four hierarchies: products and their near twin, stores with a *)
(* captured and an uncaptured level, customers sharing a label with the    *)
(* stores, dates of two roles.  Six measures, one of every kind.           *)
EXTENDS QueryPipeline

Str(n) == <<"string", n>>
Num(n) == <<"integer", n>>

Goods   == <<"product">>
Promotion == <<"promotion", "product">>
Store     == <<"store">>
Customer  == <<"customer">>
SoldDate  == <<"sold", "date">>
ShipDate  == <<"ship", "date">>

Category  == Key(Goods, <<"product", "category">>)
Brand     == Key(Goods, <<"brand">>)
BrandName == Key(Goods, <<"brand", "name">>)
PromoCat  == Key(Promotion, <<"promotion", "product", "category">>)
State     == Key(Store, <<"state">>)
StoreLand == Key(Store, <<"country">>)
City      == Key(Store, <<"city">>)
Home      == Key(Customer, <<"country">>)
SoldYear  == Key(SoldDate, <<"sold", "year">>)
SoldKey   == Key(SoldDate, <<"sold", "number">>)
ShipYear  == Key(ShipDate, <<"ship", "year">>)

Level(key, type, domain, card, stat, facts, rank) ==
  [key |-> key, type |-> type, domain |-> domain, card |-> card,
   stat |-> stat, facts |-> facts, rank |-> rank]

TheLevels ==
  <<Level(Category, "string", {Str(1), Str(2)}, 2, 2, {}, 1),
    Level(Brand, "string", {Str(11), Str(12), Str(13)}, 3, 3, {}, 2),
    Level(BrandName, "string", {Str(14), Str(15), Str(16)}, 3, 3, {}, 3),
    Level(PromoCat, "string", {Str(1), Str(2)}, 0, 2, {"web"}, 4),
    Level(State, "string", {Str(21), Str(22)}, 2, 2, {}, 5),
    Level(StoreLand, "string", {Str(31)}, 1, 1, {}, 6),
    Level(City, "none", {}, 0, 3, {}, 7),
    Level(Home, "string", {Str(31), Str(32)}, 2, 2, {}, 8),
    Level(SoldYear, "integer", {Num(2001), Num(2002)}, 2, 2, {"shop"}, 10),
    Level(SoldKey, "integer", {Num(2001), Num(5)}, 2, 2, {"shop"}, 9),
    Level(ShipYear, "integer", {Num(2001), Num(2002)}, 2, 2, {"web"}, 11)>>

Measure(name, label, calc, semi, facts) ==
  [name |-> name, label |-> label, calc |-> calc, semi |-> semi,
   triggers |-> {}, facts |-> facts]

TheMeasures ==
  <<Measure(<<"shop", "sales">>, <<"store", "sales">>, FALSE, FALSE, {"shop"}),
    Measure(<<"web", "sales">>, <<"web", "sales">>, FALSE, FALSE, {"web"}),
    Measure(<<"growth">>, <<"store", "sales", "growth">>, TRUE, FALSE, {}),
    Measure(<<"margin">>, <<"margin", "%">>, TRUE, FALSE, {}),
    Measure(<<"prior", "store", "sales">>, <<"prior", "store", "sales">>,
            FALSE, FALSE, {"shop"}),
    Measure(<<"stock">>, <<"stock">>, FALSE, TRUE, {})>>

Row(cat, brand, state, land, city, home, sold, ship) ==
  (Category :> Str(cat)) @@ (Brand :> Str(brand)) @@ (BrandName :> Str(brand + 3))
  @@ (PromoCat :> Str(3 - cat)) @@ (State :> Str(state)) @@ (StoreLand :> Str(land))
  @@ (City :> Str(city)) @@ (Home :> Str(home)) @@ (SoldYear :> Num(sold))
  @@ (SoldKey :> Num(IF sold = 2001 THEN 5 ELSE 2001)) @@ (ShipYear :> Num(ship))

TheCells == <<Row(1, 11, 21, 31, 41, 31, 2001, 2002), Row(1, 12, 21, 31, 42, 32, 2002, 2002),
            Row(2, 13, 22, 31, 22, 31, 2001, 2001), Row(2, 13, 22, 31, 43, 32, 2002, 2001)>>

Catalog(enriched, dateTable) ==
  [levels |-> TheLevels, measures |-> TheMeasures, cells |-> TheCells,
   calcGroups |-> {[group |-> <<"time">>, member |-> <<"prior", "year">>]},
   enriched |-> enriched, dateTable |-> dateTable]

OneCube == {[cube |-> "cube", spelling |-> "lower"]}
TwoSpellings == {[cube |-> "cube", spelling |-> "Upper"], [cube |-> "cube", spelling |-> "UPPER"],
                 [cube |-> "other", spelling |-> "Upper"]}

Server(forced, threshold, shaped, cap, cubes, clusters, catalog) ==
  [override |-> forced, threshold |-> threshold, shaped |-> shaped, cap |-> cap,
   cubes |-> cubes, clusters |-> clusters, catalog |-> catalog]

TheClusters == <<[name |-> "east", backends |-> <<"dax", "sql">>],
                 [name |-> "west", backends |-> <<"sql">>]>>

MCServers == {"enriched", "shaped", "forced", "clustered"}

Rich == Catalog(TRUE, TRUE)
Plain == Catalog(FALSE, FALSE)
RichUndated == Catalog(TRUE, FALSE)

MCSetUp ==
  [s \in MCServers |->
     CASE s = "enriched" -> Server("none", 3, FALSE, 2, OneCube, << >>, Rich)
       [] s = "shaped"   -> Server("none", 20, TRUE, 2, OneCube, << >>, Plain)
       [] s = "forced"   -> Server("sql", 3, FALSE, 2, {}, << >>, Plain)
       [] OTHER          -> Server("none", 3, FALSE, 3, TwoSpellings, TheClusters, RichUndated)]

Ti(op) == [op |-> op, by |-> << >>, key |-> Bare(NoName), n |-> NoLimit]
RankBy(name) == [op |-> "Rank", by |-> name, key |-> Bare(NoName), n |-> 1]
Sales == <<"store", "sales">>
On(dims, filters) == Query(<<Sales>>, dims, filters)
Project(dims) == [Query(<< >>, dims, << >>) EXCEPT !.projection = TRUE]
By(key) == [key |-> key, dir |-> "asc"]
Other(q) == [q EXCEPT !.model = [cube |-> "other", spelling |-> "lower"]]

(* Filters, well placed and not.                                           *)
FilterLists ==
  {<<Member(Goods, <<Str(1)>>)>>, <<Member(Goods, <<Str(12), Str(13)>>)>>,
   <<Member(Goods, <<Str(2), Str(12)>>)>>, <<Member(Goods, << >>)>>,
   <<Member(Goods, <<Str(9)>>)>>, <<Member(Store, <<Str(22)>>)>>,
   <<Member(Customer, <<Str(32)>>)>>, <<Member(SoldDate, <<Num(2001)>>)>>,
   <<MemberLevel(Goods, Category, <<Str(2)>>, TRUE)>>,
   <<MemberLevel(Goods, Bare(<<"brand">>), <<Str(11)>>, FALSE)>>,
   <<MemberLevel(Store, Bare(<<"country">>), <<Str(31)>>, FALSE)>>,
   <<Between(SoldYear, Num(2002), Num(2005))>>, <<Between(SoldYear, Num(2005), Num(2001))>>,
   <<Between(SoldYear, Str(1), Str(2))>>,
   <<AnyOf(<<Member(Goods, <<Str(1)>>), Between(SoldYear, Num(2002), Num(2002))>>)>>,
   <<AllOf(<<Member(Goods, <<Str(1)>>), MemberLevel(Store, State, <<Str(21)>>, FALSE)>>)>>,
   <<AllOf(<<AnyOf(<<Member(Goods, <<Str(1)>>), Member(Customer, <<Str(32)>>)>>),
             MemberLevel(Goods, Brand, <<Str(11)>>, TRUE)>>)>>,
   <<AnyOf(<< >>)>>,
   <<AnyOf(<<CalcGroupMember(<<"time">>, <<"prior", "year">>), Member(Goods, <<Str(1)>>)>>)>>,
   <<Between(Key(Store, <<"sold", "year">>), Num(2002), Num(2002))>>,
   <<MemberLevel(Store, Key(Store, <<"brand">>), <<Str(11)>>, FALSE)>>,
   <<CalcGroupMember(<<"time">>, <<"prior", "year">>), Member(Store, <<Str(21)>>)>>}

Filtered == {On(<<Category>>, fs) : fs \in FilterLists}
Slices ==
  {On(<<State, SoldYear>>, fs) : fs \in {<<Member(Goods, <<Str(2)>>)>>,
                                         <<Member(Store, <<Str(21)>>)>>}}
Named ==
  {Query(<<n>>, <<Category>>, << >>) :
     n \in {<<"growth">>, <<"sales", "growth">>, <<"margin">>, <<"%">>, <<"stock">>,
            <<"sales">>, <<"nothing">>, <<"brand">>}}
Timed ==
  {[Query(<<<<"growth">>>>, <<Category>>, << >>) EXCEPT !.ti = <<t>>] :
     t \in {Ti("YoY"), RankBy(<<"growth">>), RankBy(<<"stock">>)}}
WebSales ==
  {Query(<<<<"web", "sales">>>>, ds, << >>) :
     ds \in {<<SoldYear>>, <<SoldYear, ShipYear>>, <<PromoCat>>, <<Home>>}}
Misnamed ==
  {Query(<<Sales, <<"prior", "store", "sales">>>>, <<SoldYear>>, << >>),
   On(<<PromoCat>>, << >>), On(<<PromoCat>>, <<Member(Promotion, <<Str(1)>>)>>),
   On(<<Category>>, <<MemberLevel(Promotion, PromoCat, <<Str(1)>>, FALSE)>>),
   On(<<Brand, BrandName>>, << >>), On(<<Key(Goods, <<"state">>)>>, << >>),
   On(<<Key(<<"web", "sales">>, <<"state">>)>>, << >>),
   On(<<Key(Goods, <<"category">>)>>, << >>), On(<<Key(Goods, <<"number">>)>>, << >>),
   On(<<Key(<<"rank">>, <<"number">>)>>, << >>),
   Query(<<Sales, <<"row", "number">>>>, <<Category>>, << >>)}
Limited ==
  {[On(<<Category>>, << >>) EXCEPT !.limit = 0],
   [On(<<Category, Brand>>, << >>) EXCEPT !.limit = 2, !.order = <<By(Category)>>]}
Projections ==
  {Project(<<Category>>), Project(<<Brand>>), Project(<<City>>), Project(<<State, Category>>),
   [Project(<<Brand>>) EXCEPT !.limit = 2],
   [Project(<<Brand>>) EXCEPT !.limit = 2, !.order = <<By(Bare(<<"brand">>))>>],
   [Project(<<Category>>) EXCEPT !.filters = <<Member(Store, <<Str(21)>>),
                                               Member(Customer, <<Str(32)>>)>>]}
Few == {On(<<Category>>, << >>), Other(On(<<Category>>, << >>)), Project(<<Brand>>)}

MCQueries ==
  [s \in MCServers |->
     CASE s = "enriched" -> UNION {Filtered, Slices, Named, Timed, WebSales, Misnamed,
                                   Limited, Projections}
       [] s = "shaped" -> UNION {Filtered, Slices, Named}
       [] s = "forced" -> UNION {Filtered, Slices, Projections}
       [] OTHER        -> Few]
=============================================================================
