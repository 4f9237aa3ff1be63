------------------------------- MODULE DocsSite --------------------------------
(***************************************************************************)
(* The menus of the documentation site (.vitepress/config.ts) and a reader *)
(* who follows them.  The site's build finds the dead links in the text of *)
(* the pages, and never looks at the menus.                                *)
(*                                                                         *)
(* A link is <<directory, page>>; the page of a directory itself is "".    *)
(***************************************************************************)
EXTENDS Naturals, Sequences

CONSTANTS
  Pages,       \* the .md files below docs/, as links
  MaxHistory   \* bound of the model: pages the reader can go back to

ASSUME DocsAssumption == MaxHistory \in Nat

VARIABLES
  page,        \* the link the reader is at
  history      \* the links before it, the last one at the end

vars == <<page, history>>

Of(directory, names) == {<<directory, name>> : name \in names}

Home == <<"", "">>

--------------------------------------------------------------------------------
\* The bar at the top of every page.
More == {<<"github", "releases">>, <<"demo", "">>}

Nav == {Home, <<"guide", "">>, <<"reference", "">>} \cup More

SocialLinks == {<<"github", "portwayapi">>}

\* The sections of the sidebar '/guide/'.
Introduction == Of("guide", {"", "getting-started", "routing", "deployment"})

\* (one with the names the pages had when they were in a directory of their own)
EndpointsMoved == Of("guide/endpoints", {"sql", "proxy", "composite", "file", "webhook"})

Endpoints ==
  Of("guide", {"endpoints-sql", "endpoints-proxy", "endpoints-composite",
               "endpoints-file", "endpoints-webhook"})

Configuration == Of("guide", {"environments", "security", "rate-limiting", "licensing"})

Operations == Of("guide", {"monitoring", "troubleshooting"})

Contributing == Of("github", {"issues", "discussions"})

FurtherReading == {<<"reference", "">>, <<"reference", "plugins/">>}

GuideSidebar ==
  Introduction \cup Endpoints \cup Configuration \cup Operations \cup Contributing
    \cup FurtherReading

\* The sections of the sidebar '/reference/'.
ApiReference == Of("reference", {"", "authentication", "headers"})

ConfigurationFiles == Of("reference", {"entity-config", "environment-settings", "app-settings"})

QueryLanguage == Of("reference", {"odata", "filters", "sorting-pagination"})

Tools == Of("reference", {"token-generator", "health-checks", "caching", "logging", "audit"})

Plugins == {<<"reference", "plugins/exact-globe">>}

ReferenceSidebar ==
  ApiReference \cup ConfigurationFiles \cup QueryLanguage \cup Tools \cup Plugins

\* (sidebars with a section that has come into the wrong one)
SidebarsMixed(p) ==
  CASE p[1] = "guide"     -> GuideSidebar \cup Tools
    [] p[1] = "reference" -> ReferenceSidebar \ Tools
    [] OTHER              -> {}

\* The sidebar whose key is the start of the page's path; the home page has none.
SidebarOf(p) ==
  CASE p[1] = "guide"     -> GuideSidebar
    [] p[1] = "reference" -> ReferenceSidebar
    [] OTHER              -> {}

\* Links to other sites.
Elsewhere == More \cup SocialLinks \cup Contributing

\* What is on the screen; a page elsewhere shows none of it.
LinksOn(p) == IF p \in Elsewhere THEN {} ELSE Nav \cup SocialLinks \cup SidebarOf(p)

--------------------------------------------------------------------------------
\* No link of the menus is dead, which the site's build would not notice.
NoDeadLink ==
  /\ page \in Pages \cup Elsewhere
  /\ history \in Seq(Pages) /\ Len(history) <= MaxHistory

Init == page = Home /\ history = <<>>

Follow(link) ==
  /\ link \in LinksOn(page) \ {page}
  /\ Len(history) < MaxHistory
  /\ page' = link
  /\ history' = Append(history, page)

Back ==
  /\ history # <<>>
  /\ page' = history[Len(history)]
  /\ history' = SubSeq(history, 1, Len(history) - 1)

Next == (\E link \in LinksOn(page) : Follow(link)) \/ Back

Spec == Init /\ [][Next]_vars

--------------------------------------------------------------------------------
\* The page of the plug-ins is in the sidebar of the guide alone: a reader of the
\* reference, to which it belongs, does not see it.
OutOfPlace == {<<"reference", "plugins/">>}

\* Wherever the reader is on the site, the pages of the same directory are beside the
\* text, but the one out of place: none is left out of its sidebar or in another; and
\* every page is two links away at most.
SectionAtHand ==
  page \in Pages =>
    \A p \in Pages :
      /\ p[1] = page[1] /\ p \notin OutOfPlace => p \in LinksOn(page)
      /\ p \in LinksOn(page) \cup UNION {LinksOn(q) : q \in LinksOn(page)}
================================================================================
