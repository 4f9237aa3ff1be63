---------------------------- MODULE DocsSite_proofs ----------------------------
(***************************************************************************)
(* The menus over the pages that there are, however far the reader goes    *)
(* and comes back.                                                         *)
(***************************************************************************)
EXTENDS MCDocsSite, SequenceTheorems, TLAPS

\* The menus name pages of the documentation, and sites that are elsewhere.
LEMMA MenusAlive ==
  ASSUME Pages = DocsPages, NEW p
  PROVE  LinksOn(p) \subseteq Pages \cup Elsewhere
<1>1. Nav \cup SocialLinks \subseteq DocsPages \cup Elsewhere
  BY DEF Nav, SocialLinks, DocsPages, Elsewhere, More, Contributing, Home, Of
<1>2. Introduction \cup Endpoints \cup Configuration \cup Operations \cup Contributing \cup FurtherReading
        \subseteq DocsPages \cup Elsewhere
  BY DEF Introduction, Endpoints, Configuration, Operations, Contributing, FurtherReading,
         DocsPages, Elsewhere, More, SocialLinks, Of
<1>3. ReferenceSidebar \subseteq DocsPages
  BY DEF ReferenceSidebar, ApiReference, ConfigurationFiles, QueryLanguage, Tools, Plugins, DocsPages, Of
<1>4. SidebarOf(p) \subseteq GuideSidebar \cup ReferenceSidebar
  BY DEF SidebarOf
<1> QED
  BY <1>1, <1>2, <1>3, <1>4 DEF LinksOn, GuideSidebar

\* A page elsewhere has no way to go but back.
LEMMA HomeHere == Pages = DocsPages => Home \in Pages \ Elsewhere
BY DEF DocsPages, Home, Elsewhere, More, SocialLinks, Contributing, Of

\* No link of the menus leads to a page that is not there, and none of the pages
\* a reader can go back to is elsewhere.
THEOREM LinksAlive ==
  ASSUME Pages = DocsPages
  PROVE  Spec => []NoDeadLink
<1>1. Init => NoDeadLink
  BY HomeHere, DocsAssumption DEF Init, NoDeadLink
<1>2. NoDeadLink /\ [Next]_vars => NoDeadLink'
  <2> SUFFICES ASSUME NoDeadLink, [Next]_vars PROVE NoDeadLink'
    OBVIOUS
  <2>1. history \in Seq(Pages) /\ Len(history) \in Nat /\ page \in Pages \cup Elsewhere
    BY LenProperties DEF NoDeadLink
  <2>2. CASE \E link \in LinksOn(page) : Follow(link)
    <3>1. PICK link \in LinksOn(page) : Follow(link)
      BY <2>2
    <3>2. page \in Pages
      BY <2>1, <3>1 DEF LinksOn
    <3>3. page' \in Pages \cup Elsewhere
      BY <3>1, MenusAlive DEF Follow
    <3>4. history' \in Seq(Pages) /\ Len(history') = Len(history) + 1
      BY <2>1, <3>1, <3>2, AppendProperties DEF Follow
    <3>5. Len(history') <= MaxHistory
      BY <2>1, <3>1, <3>4, DocsAssumption DEF Follow
    <3> QED
      BY <3>3, <3>4, <3>5 DEF NoDeadLink
  <2>3. CASE Back
    <3> DEFINE n == Len(history) - 1
    <3>1. n \in Nat /\ Len(history) \in 1..Len(history)
      BY <2>1, <2>3, EmptySeq DEF Back
    <3>2. page' \in Pages
      BY <2>1, <2>3, <3>1, ElementOfSeq DEF Back
    <3>3. history' \in Seq(Pages) /\ Len(history') = n
      <4>1. \A i \in 1..n : history[i] \in Pages
        BY <2>1, <3>1, ElementOfSeq
      <4>2. /\ SubSeq(history, 1, n) \in Seq(Pages)
            /\ Len(SubSeq(history, 1, n)) = IF 1 <= n THEN n - 1 + 1 ELSE 0
        BY <3>1, <4>1, SubSeqProperties
      <4>3. history' = SubSeq(history, 1, n)
        BY <2>3 DEF Back
      <4> HIDE DEF n
      <4> QED
        BY <3>1, <4>2, <4>3
    <3>4. Len(history') <= MaxHistory
      BY <2>1, <3>1, <3>3, DocsAssumption DEF NoDeadLink
    <3> QED
      BY <3>2, <3>3, <3>4 DEF NoDeadLink
  <2>4. CASE UNCHANGED vars
    BY <2>4 DEF vars, NoDeadLink
  <2> QED
    BY <2>2, <2>3, <2>4 DEF Next
<1> QED
  BY <1>1, <1>2, PTL DEF Spec

\* A page is in the sidebar of its directory, or out of place in the guide's.
LEMMA PagesListed ==
  ASSUME NEW p \in DocsPages
  PROVE  \/ p = Home
         \/ p[1] = "guide" /\ p \in GuideSidebar
         \/ p[1] = "reference" /\ p \in ReferenceSidebar
         \/ p \in OutOfPlace /\ p[1] = "reference" /\ p \in GuideSidebar
<1>1. \A d, names : \A q \in Of(d, names) : q[1] = d
  BY DEF Of
<1>2. CASE p \in DocsPages /\ p[1] = "guide"
  <2>1. p # Home /\ \A names : p \notin Of("reference", names)
    <3>1. p[1] # "" /\ p[1] # "reference"
      BY <1>2
    <3>2. Home[1] = ""
      BY DEF Home
    <3> QED
      BY <1>1, <3>1, <3>2
  <2>2. p \in GuideSidebar
    BY <1>2, <2>1 DEF DocsPages, GuideSidebar, Introduction, Endpoints, Configuration, Operations, Of
  <2> QED
    BY <1>2, <2>2
<1>3. CASE p \in DocsPages /\ p[1] = "reference"
  <2>1. p # Home /\ \A names : p \notin Of("guide", names)
    <3>1. p[1] # "" /\ p[1] # "guide"
      BY <1>3
    <3>2. Home[1] = ""
      BY DEF Home
    <3> QED
      BY <1>1, <3>1, <3>2
  <2>2. p \in ReferenceSidebar \/ p \in OutOfPlace
    BY <1>3, <2>1 DEF DocsPages, ReferenceSidebar, ApiReference, ConfigurationFiles, QueryLanguage,
                      Tools, Plugins, OutOfPlace, Of
  <2>3. OutOfPlace \subseteq GuideSidebar
    BY DEF OutOfPlace, GuideSidebar, FurtherReading
  <2> QED
    BY <1>3, <2>2, <2>3
<1>4. p = Home \/ p[1] = "guide" \/ p[1] = "reference"
  BY <1>1 DEF DocsPages
<1> QED
  BY <1>2, <1>3, <1>4

\* The pages of a directory are one link from each other, but for the page of the
\* plug-ins; and the guide and the reference are one link from every page, and name
\* all the others.
THEOREM SectionAlwaysAtHand ==
  ASSUME Pages = DocsPages
  PROVE  Spec => []SectionAtHand
<1> DEFINE guide == <<"guide", "">>
           reference == <<"reference", "">>
<1>1. \A p \in Pages : p \notin Elsewhere
  <2>1. \A d, names : \A p \in Of(d, names) : p[1] = d
    BY DEF Of
  <2>2. Home[1] = ""
    BY DEF Home
  <2>3. \A p \in DocsPages : p[1] \in {"", "guide", "reference"}
    BY <2>1, <2>2 DEF DocsPages
  <2>4. \A p \in Elsewhere : p[1] \in {"github", "demo"}
    <3>1. \A p \in More \cup SocialLinks : p[1] \in {"github", "demo"}
      <4>1. /\ <<"github", "releases">>[1] = "github" /\ <<"demo", "">>[1] = "demo"
            /\ <<"github", "portwayapi">>[1] = "github"
        OBVIOUS
      <4> QED
        BY <4>1 DEF More, SocialLinks
    <3>2. \A p \in Contributing : p[1] = "github"
      BY <2>1 DEF Contributing
    <3> QED
      BY <3>1, <3>2 DEF Elsewhere
  <2> QED
    BY <2>3, <2>4
<1>2. {Home, guide, reference} \subseteq Nav /\ guide \notin Elsewhere /\ reference \notin Elsewhere
  BY DEF Nav, Elsewhere, More, SocialLinks, Contributing, Of
<1>3. LinksOn(guide) = Nav \cup SocialLinks \cup GuideSidebar
  BY <1>2 DEF LinksOn, SidebarOf
<1>4. LinksOn(reference) = Nav \cup SocialLinks \cup ReferenceSidebar
  BY <1>2 DEF LinksOn, SidebarOf
<1>5. ASSUME page \in Pages PROVE LinksOn(page) = Nav \cup SocialLinks \cup SidebarOf(page)
  BY <1>1, <1>5 DEF LinksOn
<1>6. ASSUME page \in Pages, NEW p \in Pages, p[1] = page[1], p \notin OutOfPlace
      PROVE  p \in LinksOn(page)
  <2>1. CASE p = Home
    BY <1>2, <1>5, <1>6, <2>1
  <2>2. CASE p[1] = "guide" /\ p \in GuideSidebar
    BY <1>5, <1>6, <2>2 DEF SidebarOf
  <2>3. CASE p[1] = "reference" /\ p \in ReferenceSidebar
    BY <1>5, <1>6, <2>3 DEF SidebarOf
  <2> QED
    BY <1>6, <2>1, <2>2, <2>3, PagesListed
<1>7. ASSUME page \in Pages, NEW p \in Pages
      PROVE  p \in UNION {LinksOn(q) : q \in LinksOn(page)}
  <2>1. guide \in LinksOn(page) /\ reference \in LinksOn(page)
    BY <1>2, <1>5, <1>7
  <2>2. p \in LinksOn(guide) \/ p \in LinksOn(reference)
    BY <1>2, <1>3, <1>4, <1>7, PagesListed
  <2> QED
    BY <2>1, <2>2
<1>8. SectionAtHand
  BY <1>6, <1>7 DEF SectionAtHand
<1> QED
  BY <1>8, PTL
================================================================================
