------------------------------- MODULE Settings -------------------------------
(***************************************************************************)
(* The settings of the application, saved group by group                   *)
(* (src/src/app/modules/staff/setting/setting.service.ts).                 *)
(*                                                                         *)
(* settingSave goes through the properties of its payload and, for each,   *)
(* looks for the row by group and key and then updates or creates it; other *)
(* saves run between any two of these steps.                               *)
(***************************************************************************)
CONSTANTS
    Groups, Keys,
    Input,              \* the keys in the payload of each group
    imageSlugList,      \* the keys that come with an upload
    Values,             \* texts, and names of uploaded files
    Requests,           \* calls that may be in flight at once
    Null, NoRow, Idle

SETTINGS_VALUE_TYPE_TEXT == 1
SETTINGS_VALUE_TYPE_MEDIA_URL == 2

(* No two groups have an input of one name. *)
InputAssumption ==
    /\ Input \in [Groups -> SUBSET Keys] /\ imageSlugList \subseteq Keys
    /\ \A g, h \in Groups : g # h => Input[g] \cap Input[h] = {}

VARIABLES
    row,    \* the rows of settings; option_key is a unique key
    call,   \* the calls in flight
    last    \* the group and payload of the last call, if it succeeded

vars == <<row, call, last>>

Setting == [option_group: Groups, option_value: Values \cup {Null},
            value_type: {SETTINGS_VALUE_TYPE_TEXT, SETTINGS_VALUE_TYPE_MEDIA_URL}]

Payload(g) == UNION {[K -> Values \cup {Null}] : K \in SUBSET Input[g]}
Save == UNION {[group: {g}, payload: Payload(g)] : g \in Groups}

(* `new` are the keys that had no row when the call began; `key` is the one *)
(* that was looked for.                                                    *)
Call == [at: {"next", "found", "missing"}, save: Save, todo: SUBSET Keys,
         key: Keys \cup {Null}, new: SUBSET Keys]

NullAssumption == NoRow \notin Setting /\ Idle \notin Call /\ Null \notin Save

TypeOK ==
    /\ row \in [Keys -> Setting \cup {NoRow}]
    /\ call \in [Requests -> Call \cup {Idle}]
    /\ last \in Save \cup {Null}

(* Some keys may be seeded, in the group that has them. *)
Init ==
    /\ row \in [Keys -> [option_group: Groups, option_value: {Null},
                         value_type: {SETTINGS_VALUE_TYPE_TEXT, SETTINGS_VALUE_TYPE_MEDIA_URL}]
                            \cup {NoRow}]
    /\ \A k \in Keys : row[k] # NoRow =>
          /\ k \in Input[row[k].option_group]
          /\ row[k].value_type = SETTINGS_VALUE_TYPE_MEDIA_URL <=> k \in imageSlugList
    /\ call = [r \in Requests |-> Idle]
    /\ last = Null

--------------------------------------------------------------------------------
At(r, place) == call[r] # Idle /\ call[r].at = place

settingSave(r, save) ==
    /\ call[r] = Idle
    /\ call' = [call EXCEPT ![r] = [at |-> "next", save |-> save, todo |-> DOMAIN save.payload,
                                    key |-> Null, new |-> {k \in Keys : row[k] = NoRow}]]
    /\ UNCHANGED <<row, last>>

(* An image property without an upload. *)
Skipped(c, k) == k \in imageSlugList /\ c.save.payload[k] = Null

skip(r, k) ==
    /\ At(r, "next") /\ k \in call[r].todo /\ Skipped(call[r], k)
    /\ call' = [call EXCEPT ![r].todo = @ \ {k}]
    /\ UNCHANGED <<row, last>>

(* Variant: the row is looked for with all of the data. *)
Found_WholeData(c, k) ==
    row[k] # NoRow /\ row[k].option_group = c.save.group /\ row[k].option_value = c.save.payload[k]

Found(c, k) == row[k] # NoRow /\ row[k].option_group = c.save.group

(* insertOrUpdateSettings up to its findFirst, after the upload of an image. *)
find(r, k) ==
    /\ At(r, "next") /\ k \in call[r].todo /\ ~Skipped(call[r], k)
    /\ call' = [call EXCEPT ![r].key = k, ![r].todo = @ \ {k},
                            ![r].at = IF Found(call[r], k) THEN "found" ELSE "missing"]
    /\ UNCHANGED <<row, last>>

Data(c) ==
    [option_group |-> c.save.group, option_value |-> c.save.payload[c.key],
     value_type |-> IF c.key \in imageSlugList THEN SETTINGS_VALUE_TYPE_MEDIA_URL
                                               ELSE SETTINGS_VALUE_TYPE_TEXT]

(* The update, or the create, which throws when the key has a row by now.   *)
write(r) ==
    /\ At(r, "found") \/ At(r, "missing")
    /\ IF At(r, "missing") /\ row[call[r].key] # NoRow
         THEN call' = [call EXCEPT ![r] = Idle] /\ last' = Null /\ UNCHANGED row
         ELSE /\ row' = [row EXCEPT ![call[r].key] = Data(call[r])]
              /\ call' = [call EXCEPT ![r].at = "next", ![r].key = Null]
              /\ UNCHANGED last

succeed(r) ==
    /\ At(r, "next") /\ call[r].todo = {}
    /\ last' = call[r].save
    /\ call' = [call EXCEPT ![r] = Idle]
    /\ UNCHANGED row

(* A statement or an upload fails, or the process stops. *)
loseCall(r) ==
    /\ call[r] # Idle
    /\ call' = [call EXCEPT ![r] = Idle]
    /\ last' = Null
    /\ UNCHANGED row

--------------------------------------------------------------------------------
Next ==
    \E r \in Requests :
        \/ \E save \in Save : settingSave(r, save)
        \/ \E k \in Keys : skip(r, k) \/ find(r, k)
        \/ write(r) \/ succeed(r) \/ loseCall(r)

Spec == Init /\ [][Next]_vars

--------------------------------------------------------------------------------
(* A save is refused only for a key that had no row when it began: once the *)
(* keys are there, saves may overlap in any way and all go through.        *)
OnlyNewKeysCollide ==
    \A r \in Requests : At(r, "missing") => call[r].key \in call[r].new

(* Whatever overlaps and stops halfway, the rows with a file name, and no   *)
(* others, are marked as media, for the link is made from that mark alone. *)
MediaIsMarked ==
    \A k \in Keys : row[k] # NoRow =>
        (row[k].value_type = SETTINGS_VALUE_TYPE_MEDIA_URL <=> k \in imageSlugList)

(* When calls do not overlap, the keys of a save that succeeded hold what   *)
(* its payload brought, a null included, and images that were not sent keep *)
(* theirs.                                                                 *)
SavedIsStored ==
    (\A r \in Requests : call[r] = Idle) /\ last # Null =>
        \A k \in DOMAIN last.payload :
            \/ k \in imageSlugList /\ last.payload[k] = Null
            \/ /\ row[k] # NoRow
               /\ row[k].option_group = last.group
               /\ row[k].option_value = last.payload[k]
================================================================================
