------------------------------ MODULE Settings ------------------------------
(***************************************************************************)
(* What the user and a server choose for an application: its flags, and in *)
(* the second part its locale.                                             *)
(* createFlags of packages/feature-flags, for one flag: the values a       *)
(* source answers with, refreshes by hand and by a timer that rearms       *)
(* itself, and overrides whose cleanups put back what they found.          *)
(***************************************************************************)
EXTENDS Integers, Sequences, FiniteSets

CONSTANTS
  MaxRefreshes,  \* bound: refreshes
  MaxOverrides,  \* bound: overrides
  None

VARIABLES
  data,       \* the refresh whose answer data has, 0 for what there was at first
  override,   \* the override in the signal overrides, or None
  overrides,  \* for every override so far: what it found, and whether it is still in force
  refreshes,  \* the refreshes under way, and whether the timer started each
  made,
  timer,      \* whether the timer is armed
  disposed,
  unordered   \* whether a cleanup was called while a later override was in force

vars == <<data, override, overrides, refreshes, made, timer, disposed, unordered>>

Ids == DOMAIN overrides
InForce == {i \in Ids : overrides[i].inForce}

TypeOK ==
  /\ {data, made} \subseteq 0..MaxRefreshes
  /\ override \in 1..MaxOverrides \cup {None}
  /\ overrides \in Seq([found : 1..MaxOverrides \cup {None}, inForce : BOOLEAN])
  /\ refreshes \subseteq [id : 1..MaxRefreshes, byTimer : BOOLEAN]
  /\ {timer, disposed, unordered} \subseteq BOOLEAN

Init ==
  /\ data = 0 /\ override = None /\ overrides = <<>> /\ refreshes = {} /\ made = 0
  /\ timer = TRUE /\ disposed = FALSE /\ unordered = FALSE

Starts(byTimer) ==
  /\ made < MaxRefreshes /\ made' = made + 1
  /\ refreshes' = refreshes \cup {[id |-> made + 1, byTimer |-> byTimer]}
  /\ UNCHANGED <<data, override, overrides, disposed, unordered>>

refresh == Starts(FALSE) /\ UNCHANGED timer

TimerFires == timer /\ timer' = FALSE /\ Starts(TRUE)

\* Faulty variant: only a refresh that was answered arms the timer.
RearmsOnAnswer(r, answered) == timer' = (timer \/ (r.byTimer /\ answered))

\* The loop goes on after a failure as well, and after dispose.
Rearms(r, answered) == timer' = (timer \/ r.byTimer)

\* The source has answered, whatever answers came since, or failed.
RefreshEnds(r) ==
  /\ refreshes' = refreshes \ {r}
  /\ \/ data' = r.id /\ Rearms(r, TRUE)
     \/ UNCHANGED data /\ Rearms(r, FALSE)
  /\ UNCHANGED <<override, overrides, made, disposed, unordered>>

Override ==
  /\ Len(overrides) < MaxOverrides
  /\ overrides' = Append(overrides, [found |-> override, inForce |-> TRUE])
  /\ override' = Len(overrides) + 1
  /\ UNCHANGED <<data, refreshes, made, timer, disposed, unordered>>

\* Faulty variant: the cleanup takes the override away, whatever was before.
PutBackNothing(i) == None

\* What a cleanup leaves.
PutBack(i) == overrides[i].found

\* The cleanup of an override, once.
Cleanup(i) ==
  /\ overrides[i].inForce /\ overrides' = [overrides EXCEPT ![i].inForce = FALSE]
  /\ override' = PutBack(i)
  /\ unordered' = (unordered \/ \E j \in InForce : j > i)
  /\ UNCHANGED <<data, refreshes, made, timer, disposed>>

dispose ==
  /\ disposed' = TRUE /\ override' = None /\ timer' = FALSE
  /\ UNCHANGED <<data, overrides, refreshes, made, unordered>>

Next ==
  \/ refresh \/ TimerFires \/ Override \/ dispose
  \/ \E r \in refreshes : RefreshEnds(r)
  \/ \E i \in Ids : Cleanup(i)

Spec == Init /\ [][Next]_vars

------------------------------------------------------------------------------
(* What is checked *)

\* The flags go on being refreshed, over failures and refreshes by hand, one at a time:
\* until dispose the timer is armed, or a refresh it started is under way.
LoopIsAlive ==
  LET loops == {r \in refreshes : r.byTimer}
  IN /\ ~disposed => timer \/ loops # {}
     /\ timer => loops = {}
     /\ \A r, s \in loops : r = s

\* The newest override in force is the one that counts, as long as cleanups are called in
\* the opposite order of their overrides.
NewestOverrideCounts ==
  ~unordered /\ ~disposed =>
    /\ override = None => InForce = {}
    /\ override # None => override \in InForce /\ \A i \in InForce : i <= override

------------------------------------------------------------------------------
(***************************************************************************)
(* createI18n of packages/i18n: the locale, its direction, the document,   *)
(* the stored choice, the messages and the list of locales.  Messages are  *)
(* fetched while other calls come, subscribers call setLocale themselves,  *)
(* and the cleanups of addMessages are called in any order.                *)
(***************************************************************************)

CONSTANTS
  Locales,      \* a locale is its language; the first locale and the fallback are Default
  Default,
  Rtl,          \* the locales written from right to left
  Bundled,      \* those whose messages came with the options
  MaxCalls      \* bound: calls of setLocale, locale.set and addMessages

VARIABLES
  locale,      \* the signal
  lastDir,     \* the direction the subscribers know
  page,        \* lang and dir of the document
  stored,      \* the persisted locale, or "none"
  messages,    \* the locales that have messages, with the texts added to them
  available,   \* the list of locales
  loads,       \* the locales being fetched, one entry for each call
  cleanups,    \* of addMessages: [of, before], what was there before or Missing
  i18nDisposed,
  calls,
  crossed      \* the locale was set past setLocale, by a subscriber or by locale.set, and not since

localeVars == <<locale, lastDir, page, stored, messages, available, loads, cleanups, i18nDisposed, calls,
                crossed>>

Missing == {0}
dirFor(l) == IF l \in Rtl THEN "rtl" ELSE "ltr"
Page(l, d) == [lang |-> l, dir |-> d]
HasLocale(m, l) == m[l] # Missing

LocaleTypeOK ==
  /\ locale \in Locales /\ lastDir \in {"rtl", "ltr"} /\ page \in [lang : Locales, dir : {"rtl", "ltr"}]
  /\ stored \in Locales \cup {"none"} /\ messages \in [Locales -> SUBSET (0..MaxCalls)]
  /\ available \subseteq Locales /\ Len(loads) <= MaxCalls /\ \A i \in 1..Len(loads) : loads[i] \in Locales
  /\ \A c \in cleanups : c.of \in Locales /\ c.before \subseteq 0..MaxCalls
  /\ {i18nDisposed, crossed} \subseteq BOOLEAN /\ calls \in 0..MaxCalls

LocaleInit ==
  /\ locale = Default /\ lastDir = dirFor(Default) /\ page = Page(Default, lastDir) /\ stored = "none"
  /\ messages = [l \in Locales |-> IF l \in Bundled \cup {Default} THEN {} ELSE Missing]
  /\ available = Bundled \cup {Default} /\ loads = <<>> /\ cleanups = {}
  /\ i18nDisposed = FALSE /\ calls = 0 /\ crossed = FALSE

\* Faulty variant: the list has the messages only, not the locale and the fallback.
ListedOnly(m, l) == {x \in Locales : HasLocale(m, x)}

\* updateAvailable
Listed(m, l) == {x \in Locales : HasLocale(m, x)} \cup {l, Default}

Calls == calls < MaxCalls /\ calls' = calls + 1

\* Faulty variant: the document follows the direction that was.
DirBefore(l) == lastDir

\* fireLocaleChange
DirAfter(l) == dirFor(l)

\* The signal, the subscribers, the document, the storage and the list follow at once.
Becomes(l, m) ==
  /\ locale' = l /\ lastDir' = DirAfter(l) /\ page' = Page(l, lastDir') /\ stored' = l
  /\ messages' = m /\ available' = Listed(m, l) /\ crossed' = FALSE

\* A subscriber of the locale sets another one before the rest of the call: the signal is the
\* subscriber's, what comes after it is the caller's, with the direction it had read.
BecomesCrossed(l, inner, m) ==
  /\ locale' = inner /\ lastDir' = dirFor(l) /\ page' = Page(l, lastDir') /\ stored' = l
  /\ messages' = m /\ available' = Listed(m, inner) /\ crossed' = TRUE

Changes(l, m) ==
  \/ Becomes(l, m)
  \/ \E inner \in Locales \ {l} : ~i18nDisposed /\ HasLocale(m, inner) /\ BecomesCrossed(l, inner, m)

setLocale(l) ==
  /\ ~i18nDisposed /\ l # locale /\ Calls
  /\ IF HasLocale(messages, l) THEN Changes(l, messages) /\ UNCHANGED loads
     ELSE /\ loads' = Append(loads, l)
          /\ UNCHANGED <<locale, lastDir, page, stored, messages, available, crossed>>
  /\ UNCHANGED <<cleanups, i18nDisposed>>

\* Whatever was called since, and disposed or not: the answer is applied.
Loaded(i) ==
  /\ loads' = SubSeq(loads, 1, i - 1) \o SubSeq(loads, i + 1, Len(loads))
  /\ Changes(loads[i], [messages EXCEPT ![loads[i]] = {}])
  /\ UNCHANGED <<cleanups, i18nDisposed, calls>>

LoadFails(i) ==
  /\ loads' = SubSeq(loads, 1, i - 1) \o SubSeq(loads, i + 1, Len(loads))
  /\ UNCHANGED <<locale, lastDir, page, stored, messages, available, cleanups, i18nDisposed, calls, crossed>>

\* locale.set tells the subscribers, and neither the document nor the storage nor the list.
Set(l) ==
  /\ Calls /\ locale' = l /\ lastDir' = dirFor(l) /\ crossed' = TRUE
  /\ UNCHANGED <<page, stored, messages, available, loads, cleanups, i18nDisposed>>

\* The text that a call adds is named after the call.
addMessages(l, merge) ==
  /\ ~i18nDisposed /\ Calls
  /\ LET m == [messages EXCEPT ![l] = {calls'} \cup (IF merge /\ HasLocale(messages, l) THEN @ ELSE {})]
     IN messages' = m /\ available' = Listed(m, locale)
  /\ cleanups' = cleanups \cup {[of |-> l, before |-> messages[l], call |-> calls']}
  /\ UNCHANGED <<locale, lastDir, page, stored, loads, i18nDisposed, crossed>>

\* What was there before comes back, whatever was added or fetched since, also after dispose.
RemoveAdded(c) ==
  LET m == [messages EXCEPT ![c.of] = c.before]
  IN /\ messages' = m /\ available' = Listed(m, locale) /\ cleanups' = cleanups \ {c}
     /\ UNCHANGED <<locale, lastDir, page, stored, loads, i18nDisposed, calls, crossed>>

\* Fetches under way are not told.
Dispose ==
  /\ ~i18nDisposed /\ i18nDisposed' = TRUE /\ messages' = [l \in Locales |-> Missing]
  /\ UNCHANGED <<locale, lastDir, page, stored, available, loads, cleanups, calls, crossed>>

LocaleNext ==
  \/ Dispose \/ \E l \in Locales : setLocale(l) \/ Set(l) \/ \E merge \in BOOLEAN : addMessages(l, merge)
  \/ \E i \in 1..Len(loads) : Loaded(i) \/ LoadFails(i)
  \/ \E c \in cleanups : RemoveAdded(c)

LocaleSpec == LocaleInit /\ [][LocaleNext]_localeVars

------------------------------------------------------------------------------
(* What is checked *)

\* The document, its direction, the stored choice and what the subscribers were told are those of
\* the locale, in whatever order fetches were answered, unless it was set past setLocale.
PageFollowsLocale ==
  ~crossed =>
    /\ page = Page(locale, dirFor(locale)) /\ lastDir = dirFor(locale)
    /\ stored \in {locale, "none"} /\ (stored = "none" => locale = Default)

\* The list has the locale and every locale there are messages of, and nothing else but the fallback.
ListIsComplete ==
  ~crossed /\ ~i18nDisposed => available = {l \in Locales : HasLocale(messages, l)} \cup {locale, Default}
=============================================================================
