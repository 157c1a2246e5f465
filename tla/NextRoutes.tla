----------------------------- MODULE NextRoutes -----------------------------
(***************************************************************************)
(* The Next.js detector of frameworks.nextjs: which directories are        *)
(* projects, which project owns a file, and the route the file registers.  *)
(*                                                                         *)
(* A part of a path is <<kind, name>>: a plain name, a (group), a @slot, a *)
(* _private or %5Fencoded name, or a name behind an intercepting marker    *)
(* ("same", "up", "up2" or "root").  A file is [dirs, stem, suffix, next], *)
(* next telling whether a package manifest depends on Next.js.             *)
(***************************************************************************)
EXTENDS Integers, Sequences, SequencesExt, FiniteSets, FiniteSetsExt

CONSTANT None

Plain(name) == <<"plain", name>>
Markers == {"same", "up", "up2", "root"}
Extensions == <<"tsx", "ts">>

----------------------------------------------------------------------------
\* A segment is visible in a route unless it is a group or a slot; a trailing
\* page or route is no segment.
ReduceVisible(parts) == SelectSeq(parts, LAMBDA p : p[1] \notin {"group", "slot"})
NormalizeAppPath(parts) ==
    ReduceVisible(IF parts # <<>> /\ Last(parts) \in {Plain("page"), Plain("route")} THEN Front(parts) ELSE parts)
NormalizeLayoutRoute(parts) ==
    LET route == NormalizeAppPath(parts) IN IF Last(route) = Plain("layout") THEN Front(route) ELSE route

\* The first marker decides: its target is relative to the visible parts
\* before it, and there is none above the root.
ResolveInterception(parts) ==
    LET at == {i \in DOMAIN parts : parts[i][1] \in Markers}
        i == Min(at)
        marker == parts[i][1]
        base == ReduceVisible(SubSeq(parts, 1, i - 1))
        levels == CASE marker = "up" -> 1 [] marker = "up2" -> 2 [] marker = "root" -> Len(base) [] OTHER -> 0
    IN  IF at = {} THEN [marker |-> None, target |-> None]
        ELSE IF levels > Len(base) THEN [marker |-> marker, target |-> None]
        ELSE [marker |-> marker,
              target |-> NormalizeAppPath(SubSeq(base, 1, Len(base) - levels) \o <<Plain(parts[i][2])>>
                                          \o ReduceVisible(SubSeq(parts, i + 1, Len(parts))))]

----------------------------------------------------------------------------
\* Projects.  A router directory counts if some file lies below it.
IsNextConfig(f) == f.stem = "next.config" /\ f.suffix \in {"ts", "mts", "js", "mjs"}
IsManifest(f) == f.stem = "package" /\ f.suffix = "json"
Populated(files, dir) == \E f \in files : IsPrefix(dir, f.dirs)

RouterDirs(files, dir, router) ==
    SelectSeq(<<dir \o <<Plain(router)>>, dir \o <<Plain("src"), Plain(router)>>>>, LAMBDA d : Populated(files, d))

\* The proxy of a project, else its middleware, at the root before src/.
ProxyHits(files, dir, stem) ==
    LET bases == <<dir, dir \o <<Plain("src")>>>>
        tries == FlattenSeq([b \in 1..2 |-> [e \in DOMAIN Extensions |-> <<bases[b], Extensions[e]>>]])
    IN  SelectSeq(tries, LAMBDA t : \E f \in files : <<f.dirs, f.suffix>> = t /\ f.stem = stem)

\* app/ is preferred to src/app/, and the same for pages/.
DiscoverProject(files, dir) ==
    LET present == [r \in {"app", "pages"} |-> RouterDirs(files, dir, r)]
        proxies == ProxyHits(files, dir, "proxy")
        hits == proxies \o ProxyHits(files, dir, "middleware")
        configured == \E f \in files : f.dirs = dir /\ IsNextConfig(f)
        owns == \E r \in DOMAIN present : present[r] # <<>>
    IN  [dir |-> dir, owns |-> owns,
         routers |-> {<<r, present[r][1]>> : r \in {r \in DOMAIN present : present[r] # <<>>}},
         proxy |-> IF hits = <<>> THEN None ELSE hits[1],
         notes |-> IF ~owns THEN (IF configured THEN {<<"no router", dir>>} ELSE {})
                   ELSE (IF configured THEN {<<"not analysed", dir>>} ELSE {})
                        \cup {<<"both", dir, r>> : r \in {r \in DOMAIN present : Len(present[r]) > 1}}
                        \cup (IF proxies # <<>> /\ hits # proxies THEN {<<"proxy and middleware", dir>>} ELSE {})]

DiscoverProjects(files) ==
    {DiscoverProject(files, dir) : dir \in {f.dirs : f \in {f \in files : IsNextConfig(f) \/ (IsManifest(f) /\ f.next)}}}

\* The prefix table, the innermost project first: its first match owns a file.
RouterPrefixes(projects) ==
    SetToSortSeq({[project |-> p.dir, router |-> r[1], dir |-> r[2]] : <<p, r>> \in {pr \in projects \X UNION {q.routers : q \in projects} : pr[2] \in pr[1].routers}},
                 LAMBDA a, b : Len(a.project) > Len(b.project))
OwningRouter(f, prefixes) ==
    LET hits == {i \in DOMAIN prefixes : IsPrefix(prefixes[i].dir, f.dirs)} IN IF hits = {} THEN None ELSE prefixes[Min(hits)]

----------------------------------------------------------------------------
\* Registrations.  The kind is that of the file's name; a not-found page
\* counts at the root of the router only.
KindFor(f, parts) ==
    IF f.suffix \notin ToSet(Extensions) THEN None
    ELSE IF f.stem \in {"layout", "default", "page"} THEN f.stem
    ELSE IF f.stem = "route" THEN "route handler"
    ELSE IF f.stem = "not-found" /\ parts = <<>> THEN "not found"
    ELSE None

Registration(owner, f, kind, route, key) ==
    [project |-> owner.project, router |-> owner.router, file |-> f, kind |-> kind, route |-> route,
     interception |-> ResolveInterception(key)]

HasPrivatePart(parts) == \E i \in DOMAIN parts : parts[i][1] = "private"
SkipPageKeys == {<<<<"encoded", n>>, Plain("page")>> : n \in {"not-found", "global-error"}}

AppRegistration(owner, f, parts) ==
    LET kind == KindFor(f, parts)
        key == Append(parts, Plain(f.stem))
        route == IF kind = "default" THEN None ELSE IF kind = "layout" THEN NormalizeLayoutRoute(key) ELSE NormalizeAppPath(key)
    IN  IF HasPrivatePart(parts) \/ kind = None \/ key \in SkipPageKeys THEN {} ELSE {Registration(owner, f, kind, route, key)}

\* A page is named by its path, an index by its directory; the root of api
\* and the special pages are none.
PagesRegistration(owner, f, parts) ==
    LET route == IF f.stem = "index" THEN parts ELSE Append(parts, Plain(f.stem))
        api == Len(route) > 1 /\ route[1] = Plain("api")
        reserved == route # <<>> /\ (route[1][1] = "private" \/ route = <<Plain("api")>>)
    IN  IF f.suffix \notin ToSet(Extensions) \/ (~api /\ reserved) THEN {}
        ELSE {Registration(owner, f, IF api THEN "route handler" ELSE "page", route, <<>>)}

Registered(f, prefixes) ==
    LET owner == OwningRouter(f, prefixes)
        parts == SubSeq(f.dirs, Len(owner.dir) + 1, Len(f.dirs))
    IN  IF owner = None THEN {}
        ELSE IF owner.router = "app" THEN AppRegistration(owner, f, parts) ELSE PagesRegistration(owner, f, parts)

\* Only what is addressable can collide, within one project and router.
Addressable(registrations) == {r \in registrations : r.route # None /\ r.kind \in {"page", "route handler"}}
DuplicateRouteNotes(registrations) ==
    LET key(r) == <<"duplicate", r.project, r.router, r.route>>
        routes == Addressable(registrations)
    IN  {key(r) : r \in {r \in routes : \E s \in routes : s # r /\ key(s) = key(r)}}

Enumerate(files) ==
    LET found == DiscoverProjects(files)
        projects == {p \in found : p.owns}
        prefixes == RouterPrefixes(projects)
        registrations == UNION {Registered(f, prefixes) : f \in files}
    IN  [projects |-> projects, registrations |-> registrations, proxies |-> {<<p.dir, p.proxy>> : p \in {p \in projects : p.proxy # None}},
         notes |-> UNION {p.notes : p \in found} \cup DuplicateRouteNotes(registrations)]

----------------------------------------------------------------------------
\* A file is registered once, for the innermost project it is a router file
\* of, under the parts of its path that are visible.
OwnersAreInnermost(files) ==
    \A result \in {Enumerate(files)} :
    \A r \in result.registrations :
        /\ \A s \in result.registrations : s.file = r.file => s = r
        /\ \A p \in result.projects : Len(p.dir) > Len(r.project) => \A d \in p.routers : ~IsPrefix(d[2], r.file.dirs)
        /\ r.route # None => \A i \in DOMAIN r.route : r.route[i][1] \notin {"group", "slot"}

\* A page behind a marker intercepts the route that its own becomes when the
\* marker's part is put as many visible parts higher as the marker says.
InterceptionsLandInPlace(files) ==
    \A r \in Enumerate(files).registrations :
        LET at == {i \in DOMAIN r.route : r.route[i][1] \in Markers}
            m == Min(at)
            above == m - 1 - CASE r.route[m][1] = "up" -> 1 [] r.route[m][1] = "up2" -> 2 [] r.route[m][1] = "root" -> m - 1 [] OTHER -> 0
        IN  r.kind = "page" /\ r.router = "app" /\ at # {} =>
                r.interception.target = IF above < 0 THEN None
                    ELSE SubSeq(r.route, 1, above) \o <<Plain(r.route[m][2])>> \o SubSeq(r.route, m + 1, Len(r.route))

\* Two files of a router that one address would reach are reported, whatever
\* groups and slots hide it, and nothing else is.
CollisionsAreReported(files) ==
    \A result \in {Enumerate(files)} :
    LET pages == {r \in result.registrations : r.router = "app" /\ r.kind \in {"page", "route handler"}}
        visible(r) == SelectSeq(r.file.dirs, LAMBDA p : p[1] \notin {"group", "slot"})
        collide(r, s) == r # s /\ r.project = s.project /\ visible(r) = visible(s)
    IN  \A r \in pages :
            <<"duplicate", r.project, "app", r.route>> \in result.notes <=> \E s \in pages : collide(r, s)

\* A directory that declares Next.js is a project or is reported, and a
\* router that is passed over for another is reported.
ProjectsAreAccounted(files) ==
    \A result \in {Enumerate(files)} :
    \A f \in files :
        /\ IsNextConfig(f) => <<"no router", f.dirs>> \in result.notes \/ \E p \in result.projects : p.dir = f.dirs
        /\ \A p \in result.projects, r \in {"app", "pages"} :
            IsPrefix(p.dir \o <<Plain("src"), Plain(r)>>, f.dirs) /\ <<"both", p.dir, r>> \notin result.notes =>
                \E d \in p.routers : IsPrefix(d[2], f.dirs)
=============================================================================
