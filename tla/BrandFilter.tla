----------------------------- MODULE BrandFilter -----------------------------
(***************************************************************************)
(* The brand filter of the shop: controllers/main.py and the interaction   *)
(* website_sale_brand_filter.esm.js of website_sale_product_brand.  A page *)
(* shows brands in places: one list, or one panel for each letter; "Show   *)
(* more" and the opening of a panel call the server, whose answers come    *)
(* late, in any order or not at all, while the catalogue changes.          *)
(***************************************************************************)
EXTENDS Naturals, SequencesExt, FiniteSets

CONSTANTS Brand, rank,         \* brands, the place of each in the order of names
          Letter, letter,      \* first letters, that of each brand
          showEmpty,           \* brands with show_without_published_products
          BRAND_LIMIT, BRAND_LETTER_LIMIT,
          MaxVisits, MaxCalls, MaxChanges

BrandConstants ==
    /\ IsFiniteSet(Brand) /\ rank \in Injection(Brand, Nat)
    /\ IsFiniteSet(Letter) /\ letter \in [Brand -> Letter] /\ showEmpty \subseteq Brand
    /\ BRAND_LIMIT \in Nat \ {0} /\ BRAND_LETTER_LIMIT \in Nat \ {0}
    /\ "list" \notin Letter /\ {MaxVisits, MaxCalls, MaxChanges} \subseteq Nat

Place == Letter \cup {"list"}

VARIABLES public,     \* published brands of the website
          sold,       \* brands with products that match the search of the page
          page,       \* what is shown: mode, selected brands, excluded brands, letters
          items,      \* how often a brand is shown in each place
          button,     \* the "Show more" button of each place
          loaded,     \* panels whose dataset.loaded is "1"
          shown,      \* open panels
          calls,      \* calls under way: place, kind, offset, answer
          visits, made, changes,
          moved,      \* history: the catalogue changed since the page was rendered
          doubled     \* history: panels with two first loads under way at once

brandVars == <<public, sold, page, items, button, loaded, shown, calls, visits,
               made, changes, moved, doubled>>

Mode == {"all", "limited", "letters"}
Button == [offset : Nat, disabled : BOOLEAN, visible : BOOLEAN, listeners : Nat]
NoAnswer == [html |-> {}, has_more |-> FALSE, next_offset |-> 0]
NoButton == [offset |-> 0, disabled |-> FALSE, visible |-> FALSE, listeners |-> 0]

TypeOK ==
    /\ public \subseteq Brand /\ sold \subseteq Brand
    /\ page.mode \in Mode \cup {"none"} /\ page.selected \cup page.exclude \subseteq Brand
    /\ page.letters \subseteq Letter
    /\ items \in [Place -> [Brand -> Nat]] /\ button \in [Place -> Button]
    /\ \A l \in Letter, b \in Brand : items[l][b] > 0 => letter[b] = l
    /\ loaded \cup shown \cup doubled \subseteq Letter
    /\ \A c \in calls : /\ c.id \in 1 .. made /\ c.place \in Place /\ c.offset \in Nat
                        /\ c.first => c.place \in Letter
    /\ visits \in 0 .. MaxVisits /\ made \in 0 .. MaxCalls /\ changes \in 0 .. MaxChanges

\* A list that shows each of these brands once.
Show(brands) == [b \in Brand |-> IF b \in brands THEN 1 ELSE 0]

Init == /\ public = Brand /\ sold = Brand \ showEmpty
        /\ page = [mode |-> "none", selected |-> {}, exclude |-> {}, letters |-> {}]
        /\ items = [p \in Place |-> Show({})] /\ button = [p \in Place |-> NoButton]
        /\ loaded = {} /\ shown = {} /\ calls = {}
        /\ visits = 0 /\ made = 0 /\ changes = 0
        /\ moved = FALSE /\ doubled = {}

-----------------------------------------------------------------------------
\* The server

\* Public brands with products, with the flag, or selected; sorted by name.
_get_available_brands(selected) == public \cap (sold \cup showEmpty \cup selected)

Position(brands, b) == Cardinality({c \in brands : rank[c] <= rank[b]})
Slice(brands, offset, limit) ==
    [html |-> {b \in brands : Position(brands, b) \in offset + 1 .. offset + limit},
     has_more |-> offset + limit < Cardinality(brands), next_offset |-> offset + limit]

brand_filter_load_more_mutant(offset, selected, excluded) ==
    Slice(_get_available_brands(selected), offset, BRAND_LIMIT)
brand_filter_load_more(offset, selected, excluded) ==
    Slice(_get_available_brands(selected) \ excluded, offset, BRAND_LIMIT)

OfLetter(brands, l) == {b \in brands : letter[b] = l}
brand_filter_load_letter(l, offset, selected) ==
    Slice(OfLetter(_get_available_brands(selected), l), offset, BRAND_LETTER_LIMIT)

\* The page: the first brands and the selected ones, or the letters, or all.
_get_brand_filter_values(mode, selected) ==
    LET brands == _get_available_brands(selected)
        visible == Slice(brands, 0, BRAND_LIMIT).html \cup (brands \cap selected)
    IN CASE mode = "limited" -> [brands |-> visible, has_more |-> brands \ visible # {},
                                 letters |-> {}]
         [] mode = "letters" -> [brands |-> {}, has_more |-> FALSE,
                                 letters |-> {letter[b] : b \in brands}]
         [] OTHER -> [brands |-> brands, has_more |-> FALSE, letters |-> {}]

Answer(c) == IF c.place = "list"
             THEN brand_filter_load_more(c.offset, page.selected, page.exclude)
             ELSE brand_filter_load_letter(c.place, c.offset, page.selected)

-----------------------------------------------------------------------------
\* The page

Call(place, first, offset, id) == [id |-> id, place |-> place, first |-> first,
                                   offset |-> offset, served |-> FALSE, answer |-> NoAnswer]

\* shop and setupBrandFilter: a new page, the panels of selected brands are open
\* and loaded at once.
shop(mode, selected) ==
    LET v == _get_brand_filter_values(mode, selected)
        open == v.letters \cap {letter[b] : b \in selected}
        ids == SetToSeq(open)
    IN
    /\ visits < MaxVisits /\ visits' = visits + 1
    /\ made + Len(ids) <= MaxCalls
    /\ page' = [mode |-> mode, selected |-> selected, exclude |-> v.brands,
                letters |-> v.letters]
    /\ items' = [p \in Place |-> Show(IF p = "list" THEN v.brands ELSE {})]
    /\ button' = [p \in Place |-> IF p = "list" /\ v.has_more
                                  THEN [NoButton EXCEPT !.visible = TRUE, !.listeners = 1]
                                  ELSE NoButton]
    /\ calls' = {Call(ids[i], TRUE, 0, made + i) : i \in DOMAIN ids}
    /\ made' = made + Len(ids)
    /\ loaded' = {} /\ shown' = open
    /\ moved' = FALSE /\ doubled' = {}
    /\ UNCHANGED <<public, sold, changes>>

\* A panel is opened or closed; loadBrandLetter asks for it until it is loaded.
toggle(l) ==
    /\ l \in page.letters
    /\ shown' = IF l \in shown THEN shown \ {l} ELSE shown \cup {l}
    /\ IF l \in shown \cup loaded THEN UNCHANGED <<calls, made, doubled>>
       ELSE /\ made < MaxCalls /\ made' = made + 1
            /\ calls' = calls \cup {Call(l, TRUE, 0, made + 1)}
            /\ doubled' = IF \E c \in calls : c.place = l THEN doubled \cup {l} ELSE doubled
    /\ UNCHANGED <<public, sold, page, items, button, loaded, visits, changes, moved>>

\* loadMoreBrands, loadMoreBrandLetter: one call for each listener of the button.
click(p) ==
    LET b == button[p] IN
    /\ b.visible /\ ~b.disabled /\ (p \in Letter => p \in shown)
    /\ made + b.listeners <= MaxCalls /\ made' = made + b.listeners
    /\ calls' = calls \cup {Call(p, FALSE, b.offset, made + i) : i \in 1 .. b.listeners}
    /\ button' = [button EXCEPT ![p].disabled = TRUE]
    /\ UNCHANGED <<public, sold, page, items, loaded, shown, visits, changes, moved,
                   doubled>>

serve(c) == /\ ~c.served
            /\ calls' = (calls \ {c}) \cup {[c EXCEPT !.served = TRUE, !.answer = Answer(c)]}
            /\ UNCHANGED <<public, sold, page, items, button, loaded, shown, visits, made,
                           changes, moved, doubled>>

\* What a button becomes: after the first load of a panel, after "Show more".
FirstLoaded(b, answer) ==
    IF ~answer.has_more THEN b
    ELSE [b EXCEPT !.offset = answer.next_offset, !.visible = TRUE, !.listeners = @ + 1]
MoreLoaded(b, answer) ==
    IF ~answer.has_more THEN [b EXCEPT !.visible = FALSE]
    ELSE [b EXCEPT !.offset = answer.next_offset, !.disabled = FALSE]

answered(c) ==
    LET p == c.place IN
    /\ c.served
    /\ calls' = calls \ {c}
    /\ items' = [items EXCEPT ![p] = [b \in Brand |->
                    Show(c.answer.html)[b] + (IF c.first THEN 0 ELSE @[b])]]
    /\ button' = [button EXCEPT ![p] = IF c.first THEN FirstLoaded(@, c.answer)
                                                  ELSE MoreLoaded(@, c.answer)]
    /\ loaded' = IF c.first THEN loaded \cup {p} ELSE loaded
    /\ UNCHANGED <<public, sold, page, shown, visits, made, changes, moved, doubled>>

\* The call fails: the rest of the handler is not run.
no_answer(c) == /\ calls' = calls \ {c}
                /\ UNCHANGED <<public, sold, page, items, button, loaded, shown, visits,
                               made, changes, moved, doubled>>

\* A brand is published or not, gets its first product or loses its last one.
change(b) ==
    /\ changes < MaxChanges /\ changes' = changes + 1
    /\ \/ /\ public' = IF b \in public THEN public \ {b} ELSE public \cup {b}
          /\ UNCHANGED sold
       \/ /\ sold' = IF b \in sold THEN sold \ {b} ELSE sold \cup {b}
          /\ UNCHANGED public
    /\ moved' = TRUE
    /\ UNCHANGED <<page, items, button, loaded, shown, calls, visits, made, doubled>>

Next == \/ \E mode \in Mode, selected \in SUBSET Brand : shop(mode, selected)
        \/ \E l \in Letter : toggle(l)
        \/ \E p \in Place : click(p)
        \/ \E c \in calls : serve(c) \/ answered(c) \/ no_answer(c)
        \/ \E b \in Brand : change(b)

Spec == Init /\ [][Next]_brandVars
-----------------------------------------------------------------------------
Available == _get_available_brands(page.selected)
Whole(p) == IF p = "list" THEN Available ELSE OfLetter(Available, p)
InPage(p) == IF p = "list" THEN page.mode \in {"all", "limited"} ELSE p \in loaded

\* While the catalogue does not change, no place shows a brand twice, and a place
\* without a "Show more" button shows all of its brands: the pages that were asked
\* one after the other, beside the brands shown first, leave nothing out.  But for
\* a panel that was opened again before its first answer: its button is then
\* heard twice.
BrandsShownOnce ==
    ~moved => \A p \in Place : InPage(p) /\ p \notin doubled =>
       /\ \A b \in Brand : items[p][b] <= 1
       /\ ~button[p].visible => {b \in Brand : items[p][b] > 0} = Whole(p)
=============================================================================
