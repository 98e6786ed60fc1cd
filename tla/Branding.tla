-------------------------------- MODULE Branding --------------------------------
(***************************************************************************)
(* The one SiteBranding row and the CSS generated from it, cached by       *)
(* preset and row version (governance/branding.py, branding_views.py):     *)
(* forms that save the whole row they loaded, against page requests that   *)
(* look the CSS up for the row they read.                                  *)
(***************************************************************************)
EXTENDS Naturals, FiniteSets

CONSTANTS
    Admin, Reader,        \* SuperAdmins' requests; page requests
    Config,               \* custom configurations that validate today
    Broken,               \* one that was saved and validates no more
    Pale,                 \* those of Config with colour pairs below AA
    None,
    MaxSaves              \* bound: saves of the row

VARIABLES
    row,                  \* preset, custom_config and version, as committed
    form,                 \* the row each admin's request has loaded, or None
    page,                 \* the page request: its row, and the CSS it got
    cache,                \* the CSS of each <<preset, version>>
    saves,
    overlapped            \* history: a form saved a row that another had saved since it was loaded

vars == <<row, form, page, cache, saves, overlapped>>

Preset == {"branding_1", "branding_2", "custom"}
Version == 1 .. MaxSaves + 1
Row == [preset : Preset, config : Config \cup {Broken, None}, version : Version]

\* brand_for_row: a preset that cannot be shown is replaced by Branding 1.
Brand(r) ==
    CASE r.preset = "custom" /\ r.config \in Config -> <<"custom", r.config>>
      [] r.preset = "branding_2"                    -> <<"branding_2", None>>
      [] OTHER                                      -> <<"branding_1", None>>

\* render_css: another brand has another style sheet.
Css == {"branding_1", "branding_2"} \X {None} \cup {"custom"} \X Config

\* None is neither a row nor a style sheet.
BrandingConstants == Pale \subseteq Config /\ MaxSaves \in Nat /\ None \notin Row /\ None \notin Css

\* Mutant: the preset that was chosen, not the one that is shown.
KeyByChoice(r) == <<r.preset, r.version>>

CacheKey(r) == <<Brand(r)[1], r.version>>

TypeOK ==
    /\ row \in Row /\ form \in [Admin -> Row \cup {None}]
    /\ page \in [Reader -> [row : Row \cup {None}, css : Css \cup {None}, cached : BOOLEAN]]
    /\ cache \in [Preset \X Version -> Css \cup {None}] /\ saves \in 0 .. MaxSaves /\ overlapped \in BOOLEAN
    \* Whatever is stale, the style sheet is one of the preset that is asked for.
    /\ \A k \in DOMAIN cache : cache[k] # None => cache[k][1] = k[1]

NoPage == [row |-> None, css |-> None, cached |-> FALSE]

Init ==
    /\ \E c \in {None, Broken} : row = [preset |-> IF c = None THEN "branding_1" ELSE "custom", config |-> c, version |-> 1]
    /\ form = [a \in Admin |-> None] /\ page = [r \in Reader |-> NoPage]
    /\ cache = [k \in Preset \X Version |-> None]
    /\ saves = 0 /\ overlapped = FALSE

-------------------------------------------------------------------------------
LoadForm(a) ==
    /\ form[a] = None /\ saves < MaxSaves
    /\ form' = [form EXCEPT ![a] = row]
    /\ UNCHANGED <<row, page, cache, saves, overlapped>>

\* Mutant: only the columns the form knows are written.
Unbumped(r) == r

\* SiteBranding.save: one more than the version that was loaded.
Bumped(r) == [r EXCEPT !.version = @ + 1]

Save(a, r) ==
    /\ saves < MaxSaves
    /\ saves' = saves + 1
    /\ row' = Bumped(r)
    /\ overlapped' = (overlapped \/ row # form[a])
    /\ form' = [form EXCEPT ![a] = None]
    /\ UNCHANGED <<page, cache>>

\* brand_theme_apply: a Custom is validated, and one that is hard to read is acknowledged.
ApplyPreset(a) ==
    /\ form[a] # None
    /\ \E p \in Preset \ {"custom"} : Save(a, [form[a] EXCEPT !.preset = p])

ApplyCustom(a) ==
    /\ form[a] # None
    /\ \E c \in Config, acknowledged \in BOOLEAN :
          /\ c \in Pale => acknowledged
          /\ Save(a, [form[a] EXCEPT !.preset = "custom", !.config = c])

\* brand_theme_reset_custom
ResetCustom(a) ==
    /\ form[a] # None
    /\ Save(a, [form[a] EXCEPT !.config = None, !.preset = IF @ = "custom" THEN "branding_1" ELSE @])

\* BrandingSettingsView.post: name, tagline, logo and favicon, and every other column as loaded.
SaveIdentity(a) == form[a] # None /\ Save(a, form[a])

Refuse(a) ==
    /\ form[a] # None
    /\ form' = [form EXCEPT ![a] = None]
    /\ UNCHANGED <<row, page, cache, saves, overlapped>>

-------------------------------------------------------------------------------
\* active_branding: the row, then _cached_css.
ReadRow(r) ==
    /\ page[r] = NoPage
    /\ page' = [page EXCEPT ![r].row = row]
    /\ UNCHANGED <<row, form, cache, saves, overlapped>>

Lookup(r) ==
    /\ page[r].row # None /\ page[r].css = None
    /\ LET hit == cache[CacheKey(page[r].row)] IN
         page' = [page EXCEPT ![r].cached = hit # None,
                              ![r].css = IF hit # None THEN hit ELSE Brand(page[r].row)]
    /\ UNCHANGED <<row, form, cache, saves, overlapped>>

\* The answer is stored if it was rendered, and served.
Serve(r) ==
    /\ page[r].css # None
    /\ cache' = IF page[r].cached THEN cache ELSE [cache EXCEPT ![CacheKey(page[r].row)] = page[r].css]
    /\ page' = [page EXCEPT ![r] = NoPage]
    /\ UNCHANGED <<row, form, saves, overlapped>>

\* An entry lives for an hour, and the cache may be emptied.
Evict ==
    /\ \E k \in DOMAIN cache : cache[k] # None /\ cache' = [cache EXCEPT ![k] = None]
    /\ UNCHANGED <<row, form, page, saves, overlapped>>

Next ==
    \/ \E a \in Admin : LoadForm(a) \/ ApplyPreset(a) \/ ApplyCustom(a) \/ ResetCustom(a) \/ SaveIdentity(a) \/ Refuse(a)
    \/ \E r \in Reader : ReadRow(r) \/ Lookup(r) \/ Serve(r)
    \/ Evict

Spec == Init /\ [][Next]_vars

-------------------------------------------------------------------------------
\* "saving the branding bumps the version [...] - nothing stale survives": a page is served the
\* style sheet of the row it read, until a form saves over a row it did not load: then a version
\* is written twice, and the first of the two style sheets is served for both.
NothingStale ==
    ~overlapped => \A r \in Reader : page[r].css # None => page[r].css = Brand(page[r].row)
===============================================================================
