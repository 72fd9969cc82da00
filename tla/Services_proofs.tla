-------------------------- MODULE Services_proofs ------------------------------
(***************************************************************************)
(* Theorems about settings, seeding, uploads, log files, mails and nonces  *)
(* for any number of calls and any values: which saves are refused and      *)
(* what they leave, what seeding takes back, which files and entries are   *)
(* there, which code is in the last mail, and which mints share a nonce.    *)
(***************************************************************************)
EXTENDS MCServices, Sequences, FiniteSets, FiniteSetTheorems, SequenceTheorems, TLAPS

--------------------------------------------------------------------------------
(* Settings.  A key has its row in the group that has it as an input, rows  *)
(* are never deleted, and a call looks for keys of its payload.             *)

SettingsInv ==
    /\ Settings!TypeOK
    /\ \A k \in SaveKeys : row[k] # NoRow =>
          /\ k \in Input[row[k].option_group]
          /\ row[k].value_type = Settings!SETTINGS_VALUE_TYPE_MEDIA_URL <=> k \in UploadKeys
    /\ \A r \in Requests : saveCall[r] # Idle =>
          /\ saveCall[r].todo \subseteq DOMAIN saveCall[r].save.payload
          /\ saveCall[r].at \in {"found", "missing"}
                => saveCall[r].key \in DOMAIN saveCall[r].save.payload
          /\ \A k \in SaveKeys \ saveCall[r].new : row[k] # NoRow
          /\ saveCall[r].at = "missing" => saveCall[r].key \in saveCall[r].new

(* What a save leaves of a key of its payload. *)
Stored(s, k) ==
    \/ k \in UploadKeys /\ s.payload[k] = Null
    \/ row[k] # NoRow /\ row[k].option_group = s.group /\ row[k].option_value = s.payload[k]

SettingsAloneInv ==
    /\ OneByOne
    /\ \A r \in Requests : saveCall[r] # Idle =>
          \A k \in DOMAIN saveCall[r].save.payload \ saveCall[r].todo :
              \/ saveCall[r].at \in {"found", "missing"} /\ k = saveCall[r].key
              \/ Stored(saveCall[r].save, k)
    /\ Settings!SavedIsStored

LEMMA SaveShape ==
    ASSUME NEW s \in Settings!Save
    PROVE  /\ s.group \in SaveGroups /\ DOMAIN s.payload \subseteq Input[s.group] /\ DOMAIN s.payload \subseteq SaveKeys
           /\ \A k \in DOMAIN s.payload : s.payload[k] \in Texts \cup {Null}
<1>1. PICK g \in SaveGroups : s \in [group: {g}, payload: Settings!Payload(g)]
  BY DEF Settings!Save
<1>2. s.group = g /\ s.payload \in Settings!Payload(g)
  BY <1>1
<1>3. PICK K \in SUBSET Input[g] : s.payload \in [K -> Texts \cup {Null}]
  BY <1>2 DEF Settings!Payload
<1>4. DOMAIN s.payload = K /\ \A k \in K : s.payload[k] \in Texts \cup {Null}
  BY <1>3
<1>5. Input[g] \subseteq SaveKeys
  BY SettingsAssumption DEF SettingsAssumption, Settings!InputAssumption
<1> QED BY <1>2, <1>3, <1>4, <1>5

LEMMA InitSettings == Settings!Init => SettingsInv
<1> SUFFICES ASSUME Settings!Init PROVE SettingsInv
  OBVIOUS
<1>1. \A k \in SaveKeys : row[k] \in Settings!Setting \cup {NoRow}
  BY DEF Settings!Init, Settings!Setting
<1> QED BY <1>1 DEF Settings!Init, Settings!TypeOK, SettingsInv

LEMMA InitSettingsAlone == Settings!Init => SettingsAloneInv
BY DEF Settings!Init, SettingsAloneInv, OneByOne, Settings!SavedIsStored

(* The fields of a call, and what its step leaves of the others.           *)
LEMMA SaveCallShape ==
    ASSUME SettingsInv, NEW r \in Requests, saveCall[r] # Idle
    PROVE  /\ saveCall[r] \in Settings!Call
           /\ saveCall[r].save \in Settings!Save /\ saveCall[r].todo \subseteq SaveKeys
           /\ saveCall[r].new \subseteq SaveKeys /\ saveCall[r].key \in SaveKeys \cup {Null}
           /\ saveCall[r].at \in {"next", "found", "missing"}
BY DEF SettingsInv, Settings!TypeOK, Settings!Call

LEMMA NextSettings == SettingsInv /\ [Settings!Next]_(Settings!vars) => SettingsInv'
<1> SUFFICES ASSUME SettingsInv, [Settings!Next]_(Settings!vars) PROVE SettingsInv'
  OBVIOUS
<1> USE DEF Settings!At
<1>a. Idle \notin Settings!Call /\ NoRow \notin Settings!Setting
  BY SettingsAssumption DEF SettingsAssumption, Settings!NullAssumption
<1>1. ASSUME NEW r \in Requests, NEW s \in Settings!Save, Settings!settingSave(r, s) PROVE SettingsInv'
  <2>1. PICK c : c = [at |-> "next", save |-> s, todo |-> DOMAIN s.payload,
                      key |-> Null, new |-> {k \in SaveKeys : row[k] = NoRow}]
    OBVIOUS
  <2>2. c \in Settings!Call
    BY <2>1, SaveShape DEF Settings!Call
  <2>3. saveCall' = [saveCall EXCEPT ![r] = c] /\ UNCHANGED <<row, last>>
    BY <1>1, <2>1 DEF Settings!settingSave
  <2>4. /\ c.todo \subseteq DOMAIN c.save.payload /\ c.at = "next"
        /\ \A k \in SaveKeys \ c.new : row[k] # NoRow
    BY <2>1
  <2> QED BY <2>2, <2>3, <2>4 DEF SettingsInv, Settings!TypeOK
<1>2. ASSUME NEW r \in Requests, NEW k \in SaveKeys, Settings!skip(r, k) PROVE SettingsInv'
  <2>1. PICK c : c = [saveCall[r] EXCEPT !.todo = saveCall[r].todo \ {k}]
    OBVIOUS
  <2>2. saveCall' = [saveCall EXCEPT ![r] = c] /\ UNCHANGED <<row, last>> /\ saveCall[r] # Idle
    BY <1>2, <2>1 DEF Settings!skip, SettingsInv, Settings!TypeOK
  <2>3. c \in Settings!Call /\ c.todo = saveCall[r].todo \ {k} /\ c.at = saveCall[r].at
        /\ c.save = saveCall[r].save /\ c.key = saveCall[r].key /\ c.new = saveCall[r].new
    BY <2>1, <2>2, SaveCallShape DEF Settings!Call
  <2> QED BY <2>2, <2>3 DEF SettingsInv, Settings!TypeOK
<1>3. ASSUME NEW r \in Requests, NEW k \in SaveKeys, Settings!find(r, k) PROVE SettingsInv'
  <2>1. PICK c : c = [saveCall[r] EXCEPT !.key = k, !.todo = saveCall[r].todo \ {k},
                                         !.at = IF Settings!Found(saveCall[r], k) THEN "found" ELSE "missing"]
    OBVIOUS
  <2>2. saveCall' = [saveCall EXCEPT ![r] = c] /\ UNCHANGED <<row, last>> /\ saveCall[r] # Idle
        /\ k \in saveCall[r].todo
    BY <1>3, <2>1 DEF Settings!find, SettingsInv, Settings!TypeOK
  <2>3. /\ c \in Settings!Call /\ c.todo = saveCall[r].todo \ {k} /\ c.key = k
        /\ c.save = saveCall[r].save /\ c.new = saveCall[r].new
        /\ c.at = "missing" => ~Settings!Found(saveCall[r], k)
    BY <2>1, <2>2, SaveCallShape DEF Settings!Call
  <2>4. k \in DOMAIN c.save.payload /\ k \in Input[c.save.group] /\ c.save.group \in SaveGroups
    BY <2>2, <2>3, SaveCallShape, SaveShape DEF SettingsInv
  <2>5. c.at = "missing" => k \in c.new
    <3>1. row[k] # NoRow => row[k].option_group \in SaveGroups /\ k \in Input[row[k].option_group]
      BY DEF SettingsInv, Settings!TypeOK, Settings!Setting
    <3>2. row[k] # NoRow => row[k].option_group = c.save.group
      BY <2>4, <3>1, SettingsAssumption DEF SettingsAssumption, Settings!InputAssumption
    <3>3. c.at = "missing" => row[k] = NoRow
      BY <2>3, <3>2 DEF Settings!Found
    <3>4. \A j \in SaveKeys \ c.new : row[j] # NoRow
      BY <2>2, <2>3 DEF SettingsInv
    <3> QED BY <3>3, <3>4
  <2> QED BY <2>2, <2>3, <2>4, <2>5 DEF SettingsInv, Settings!TypeOK
<1>4. ASSUME NEW r \in Requests, Settings!write(r) PROVE SettingsInv'
  <2>1. /\ saveCall[r] # Idle /\ saveCall[r].at \in {"found", "missing"}
    BY <1>4 DEF Settings!write
  <2>2. CASE saveCall' = [saveCall EXCEPT ![r] = Idle] /\ last' = Null /\ UNCHANGED row
    BY <2>2 DEF SettingsInv, Settings!TypeOK
  <2>3. CASE /\ row' = [row EXCEPT ![saveCall[r].key] = Settings!Data(saveCall[r])]
             /\ saveCall' = [saveCall EXCEPT ![r].at = "next", ![r].key = Null]
             /\ UNCHANGED last
    <3>1. PICK k \in SaveKeys, s \in Settings!Save :
             saveCall[r].key = k /\ saveCall[r].save = s /\ k \in DOMAIN s.payload
      BY <2>1, SaveCallShape, SaveShape DEF SettingsInv
    <3>2. PICK d : d = Settings!Data(saveCall[r])
      OBVIOUS
    <3>3. /\ d \in Settings!Setting /\ d.option_group = s.group
          /\ d.value_type = Settings!SETTINGS_VALUE_TYPE_MEDIA_URL <=> k \in UploadKeys
      <4>1. s.group \in SaveGroups /\ s.payload[k] \in Texts \cup {Null}
        BY <3>1, SaveShape
      <4>2. d = [option_group |-> s.group, option_value |-> s.payload[k],
                 value_type |-> IF k \in UploadKeys THEN Settings!SETTINGS_VALUE_TYPE_MEDIA_URL
                                                       ELSE Settings!SETTINGS_VALUE_TYPE_TEXT]
        BY <3>1, <3>2 DEF Settings!Data
      <4>3. Settings!SETTINGS_VALUE_TYPE_MEDIA_URL # Settings!SETTINGS_VALUE_TYPE_TEXT
        BY DEF Settings!SETTINGS_VALUE_TYPE_MEDIA_URL, Settings!SETTINGS_VALUE_TYPE_TEXT
      <4> QED BY <4>1, <4>2, <4>3 DEF Settings!Setting
    <3>4. PICK c : c = [saveCall[r] EXCEPT !.at = "next", !.key = Null]
      OBVIOUS
    <3>5. row' = [row EXCEPT ![k] = d] /\ saveCall' = [saveCall EXCEPT ![r] = c] /\ last' = last
      BY <2>3, <3>1, <3>2, <3>4 DEF SettingsInv, Settings!TypeOK
    <3>6. c \in Settings!Call /\ c.at = "next" /\ c.todo = saveCall[r].todo /\ c.save = saveCall[r].save
          /\ c.new = saveCall[r].new
      BY <2>1, <3>4, SaveCallShape DEF Settings!Call
    <3>7. k \in Input[d.option_group]
      BY <3>1, <3>3, SaveShape
    <3>8. \A j \in SaveKeys : row'[j] = IF j = k THEN d ELSE row[j]
      BY <3>5 DEF SettingsInv, Settings!TypeOK
    <3>9. \A q \in Requests : saveCall'[q] = IF q = r THEN c ELSE saveCall[q]
      BY <3>5 DEF SettingsInv, Settings!TypeOK
    <3>10. Settings!TypeOK'
      BY <3>3, <3>5, <3>6 DEF SettingsInv, Settings!TypeOK
    <3>11. d # NoRow
      BY <1>a, <3>3
    <3>12. \A q \in Requests : saveCall'[q] # Idle => \A j \in SaveKeys \ saveCall'[q].new : row'[j] # NoRow
      BY <2>1, <3>6, <3>8, <3>9, <3>11 DEF SettingsInv
    <3>13. \A j \in SaveKeys : row'[j] # NoRow =>
              /\ j \in Input[row'[j].option_group]
              /\ row'[j].value_type = Settings!SETTINGS_VALUE_TYPE_MEDIA_URL <=> j \in UploadKeys
      BY <3>3, <3>7, <3>8 DEF SettingsInv
    <3>14. \A q \in Requests : saveCall'[q] # Idle =>
              /\ saveCall'[q].todo \subseteq DOMAIN saveCall'[q].save.payload
              /\ saveCall'[q].at \in {"found", "missing"} => saveCall'[q].key \in DOMAIN saveCall'[q].save.payload
              /\ saveCall'[q].at = "missing" => saveCall'[q].key \in saveCall'[q].new
      BY <2>1, <3>6, <3>9 DEF SettingsInv
    <3> QED BY <3>10, <3>12, <3>13, <3>14 DEF SettingsInv
  <2> QED BY <1>4, <2>2, <2>3 DEF Settings!write
<1>5. ASSUME NEW r \in Requests, Settings!succeed(r) PROVE SettingsInv'
  BY <1>5, SaveCallShape DEF Settings!succeed, SettingsInv, Settings!TypeOK
<1>6. ASSUME NEW r \in Requests, Settings!loseCall(r) PROVE SettingsInv'
  BY <1>6 DEF Settings!loseCall, SettingsInv, Settings!TypeOK
<1>7. CASE UNCHANGED Settings!vars
  BY <1>7 DEF Settings!vars, SettingsInv, Settings!TypeOK
<1> QED BY <1>1, <1>2, <1>3, <1>4, <1>5, <1>6, <1>7 DEF Settings!Next

LEMMA SettingsSound == SettingsInv => Settings!OnlyNewKeysCollide /\ Settings!MediaIsMarked
BY DEF SettingsInv, Settings!OnlyNewKeysCollide, Settings!MediaIsMarked, Settings!At

(* One call at a time: what it has gone through is stored. *)
LEMMA NextSettingsAlone ==
    SettingsInv /\ SettingsAloneInv /\ [Settings!Next /\ OneByOne']_(Settings!vars) => SettingsAloneInv'
<1> SUFFICES ASSUME SettingsInv, SettingsAloneInv, [Settings!Next /\ OneByOne']_(Settings!vars)
             PROVE  SettingsAloneInv'
  OBVIOUS
<1> USE DEF Settings!At
<1>a. OneByOne'
  BY DEF OneByOne, SettingsAloneInv, Settings!vars
<1>b. /\ Idle \notin Settings!Call /\ NoRow \notin Settings!Setting
      /\ saveCall \in [Requests -> Settings!Call \cup {Idle}]
  BY SettingsAssumption DEF SettingsAssumption, Settings!NullAssumption, SettingsInv, Settings!TypeOK
(* While a call is in flight nothing is said of the last one.              *)
<1>c. ASSUME NEW r \in Requests, NEW c \in Settings!Call, saveCall' = [saveCall EXCEPT ![r] = c],
             \A k \in DOMAIN c.save.payload \ c.todo :
                \/ c.at \in {"found", "missing"} /\ k = c.key
                \/ k \in UploadKeys /\ c.save.payload[k] = Null
                \/ row'[k] # NoRow /\ row'[k].option_group = c.save.group
                                   /\ row'[k].option_value = c.save.payload[k]
      PROVE  SettingsAloneInv'
  <2>1. saveCall'[r] = c /\ c # Idle
    BY <1>b, <1>c
  <2>2. \A q \in Requests : saveCall'[q] # Idle => q = r
    BY <1>a, <2>1 DEF OneByOne
  <2>3. \A q \in Requests : saveCall'[q] # Idle =>
           \A k \in DOMAIN saveCall'[q].save.payload \ saveCall'[q].todo :
              \/ saveCall'[q].at \in {"found", "missing"} /\ k = saveCall'[q].key
              \/ Stored(saveCall[q].save, k)'
    BY <1>c, <2>1, <2>2 DEF Stored
  <2>4. (Settings!SavedIsStored)'
    BY <2>1 DEF Settings!SavedIsStored
  <2> QED BY <1>a, <2>3, <2>4 DEF SettingsAloneInv
<1>d. ASSUME NEW r \in Requests, saveCall[r] # Idle, saveCall' = [saveCall EXCEPT ![r] = Idle]
      PROVE  \A q \in Requests : saveCall'[q] = Idle
  BY <1>b, <1>d DEF SettingsAloneInv, OneByOne
<1>1. ASSUME NEW r \in Requests, NEW s \in Settings!Save, Settings!settingSave(r, s) PROVE SettingsAloneInv'
  <2>1. PICK c : c = [at |-> "next", save |-> s, todo |-> DOMAIN s.payload,
                      key |-> Null, new |-> {k \in SaveKeys : row[k] = NoRow}]
    OBVIOUS
  <2>2. c \in Settings!Call
    BY <2>1, SaveShape DEF Settings!Call
  <2>3. saveCall' = [saveCall EXCEPT ![r] = c] /\ c.save = s /\ c.todo = DOMAIN s.payload
    BY <1>1, <2>1 DEF Settings!settingSave
  <2> QED BY <1>c, <2>2, <2>3
<1>2. ASSUME NEW r \in Requests, NEW k \in SaveKeys, Settings!skip(r, k) PROVE SettingsAloneInv'
  <2>1. PICK c : c = [saveCall[r] EXCEPT !.todo = saveCall[r].todo \ {k}]
    OBVIOUS
  <2>2. saveCall' = [saveCall EXCEPT ![r] = c] /\ row' = row /\ saveCall[r] # Idle
        /\ Settings!Skipped(saveCall[r], k)
    BY <1>2, <2>1 DEF Settings!skip, SettingsInv, Settings!TypeOK
  <2>3. c \in Settings!Call /\ c.todo = saveCall[r].todo \ {k} /\ c.at = saveCall[r].at
        /\ c.save = saveCall[r].save /\ c.key = saveCall[r].key
    BY <2>1, <2>2, SaveCallShape DEF Settings!Call
  <2>4. \A j \in DOMAIN c.save.payload \ saveCall[r].todo :
           \/ c.at \in {"found", "missing"} /\ j = c.key
           \/ Stored(c.save, j)
    BY <2>2, <2>3 DEF SettingsAloneInv
  <2>5. k \in UploadKeys /\ c.save.payload[k] = Null
    BY <2>2, <2>3 DEF Settings!Skipped
  <2> QED BY <1>c, <2>2, <2>3, <2>4, <2>5 DEF Stored
<1>3. ASSUME NEW r \in Requests, NEW k \in SaveKeys, Settings!find(r, k) PROVE SettingsAloneInv'
  <2>1. PICK c : c = [saveCall[r] EXCEPT !.key = k, !.todo = saveCall[r].todo \ {k},
                                         !.at = IF Settings!Found(saveCall[r], k) THEN "found" ELSE "missing"]
    OBVIOUS
  <2>2. saveCall' = [saveCall EXCEPT ![r] = c] /\ row' = row /\ saveCall[r] # Idle /\ saveCall[r].at = "next"
    BY <1>3, <2>1 DEF Settings!find, SettingsInv, Settings!TypeOK
  <2>3. c \in Settings!Call /\ c.todo = saveCall[r].todo \ {k} /\ c.key = k
        /\ c.save = saveCall[r].save /\ c.at \in {"found", "missing"}
    BY <2>1, <2>2, SaveCallShape DEF Settings!Call
  <2>4. \A j \in DOMAIN c.save.payload \ saveCall[r].todo : Stored(c.save, j)
    BY <2>2, <2>3 DEF SettingsAloneInv
  <2> QED BY <1>c, <2>2, <2>3, <2>4 DEF Stored
<1>4. ASSUME NEW r \in Requests, Settings!write(r) PROVE SettingsAloneInv'
  <2>1. /\ saveCall[r] # Idle /\ saveCall[r].at \in {"found", "missing"}
    BY <1>4 DEF Settings!write
  <2>2. CASE saveCall' = [saveCall EXCEPT ![r] = Idle] /\ last' = Null
    <3>1. \A q \in Requests : saveCall'[q] = Idle
      BY <1>d, <2>1, <2>2
    <3>2. (Settings!SavedIsStored)'
      BY <2>2 DEF Settings!SavedIsStored
    <3> QED BY <1>a, <3>1, <3>2 DEF SettingsAloneInv
  <2>3. CASE /\ row' = [row EXCEPT ![saveCall[r].key] = Settings!Data(saveCall[r])]
             /\ saveCall' = [saveCall EXCEPT ![r].at = "next", ![r].key = Null]
    <3>1. PICK k \in SaveKeys, s \in Settings!Save :
             saveCall[r].key = k /\ saveCall[r].save = s /\ k \in DOMAIN s.payload
      BY <2>1, SaveCallShape, SaveShape DEF SettingsInv
    <3>2. PICK d : d = Settings!Data(saveCall[r])
      OBVIOUS
    <3>3. d \in Settings!Setting /\ d.option_group = s.group /\ d.option_value = s.payload[k]
      <4>1. s.group \in SaveGroups /\ s.payload[k] \in Texts \cup {Null}
        BY <3>1, SaveShape
      <4>2. d = [option_group |-> s.group, option_value |-> s.payload[k],
                 value_type |-> IF k \in UploadKeys THEN Settings!SETTINGS_VALUE_TYPE_MEDIA_URL
                                                       ELSE Settings!SETTINGS_VALUE_TYPE_TEXT]
        BY <3>1, <3>2 DEF Settings!Data
      <4> QED BY <4>1, <4>2 DEF Settings!Setting
    <3>4. PICK c : c = [saveCall[r] EXCEPT !.at = "next", !.key = Null]
      OBVIOUS
    <3>5. row' = [row EXCEPT ![k] = d] /\ saveCall' = [saveCall EXCEPT ![r] = c]
      BY <2>3, <3>1, <3>2, <3>4 DEF SettingsInv, Settings!TypeOK
    <3>6. c \in Settings!Call /\ c.at = "next" /\ c.todo = saveCall[r].todo /\ c.save = s
      BY <2>1, <3>1, <3>4, SaveCallShape DEF Settings!Call
    <3>7. \A j \in SaveKeys : row'[j] = IF j = k THEN d ELSE row[j]
      BY <3>5 DEF SettingsInv, Settings!TypeOK
    <3>8. \A j \in DOMAIN s.payload \ c.todo : j = k \/ Stored(s, j)
      BY <2>1, <3>1, <3>6 DEF SettingsAloneInv
    <3>9. DOMAIN s.payload \subseteq SaveKeys /\ d # NoRow
      BY <1>b, <3>3, SaveShape
    <3>10. \A j \in DOMAIN c.save.payload \ c.todo :
              \/ j \in UploadKeys /\ c.save.payload[j] = Null
              \/ row'[j] # NoRow /\ row'[j].option_group = c.save.group
                                 /\ row'[j].option_value = c.save.payload[j]
      BY <3>3, <3>6, <3>7, <3>8, <3>9 DEF Stored
    <3> QED BY <1>c, <3>5, <3>6, <3>10
  <2> QED BY <1>4, <2>2, <2>3 DEF Settings!write
<1>5. ASSUME NEW r \in Requests, Settings!succeed(r) PROVE SettingsAloneInv'
  <2>1. /\ saveCall[r] # Idle /\ saveCall[r].at = "next" /\ saveCall[r].todo = {} /\ row' = row
        /\ last' = saveCall[r].save /\ saveCall' = [saveCall EXCEPT ![r] = Idle]
    BY <1>5 DEF Settings!succeed
  <2>2. \A k \in DOMAIN last'.payload : Stored(saveCall[r].save, k)
    BY <2>1 DEF SettingsAloneInv
  <2>3. (Settings!SavedIsStored)'
    BY <2>1, <2>2 DEF Settings!SavedIsStored, Stored
  <2> QED BY <1>a, <1>d, <2>1, <2>3 DEF SettingsAloneInv
<1>6. ASSUME NEW r \in Requests, Settings!loseCall(r) PROVE SettingsAloneInv'
  <2>1. saveCall[r] # Idle /\ last' = Null /\ saveCall' = [saveCall EXCEPT ![r] = Idle]
    BY <1>6 DEF Settings!loseCall
  <2>2. (Settings!SavedIsStored)'
    BY <2>1 DEF Settings!SavedIsStored
  <2> QED BY <1>a, <1>d, <2>1, <2>2 DEF SettingsAloneInv
<1>7. CASE UNCHANGED Settings!vars
  BY <1>7 DEF Settings!vars, SettingsAloneInv, OneByOne, Settings!SavedIsStored, Stored
<1> QED BY <1>1, <1>2, <1>3, <1>4, <1>5, <1>6, <1>7 DEF Settings!Next

--------------------------------------------------------------------------------
(* Uploads.  A name belongs to one upload, so that only the call that drew  *)
(* it writes its paths; a call that has answered is gone.                  *)

Allowed(ext) == \E t \in Uploads!FileTypes : ext \in Uploads!allowedExts[t]
Full(c) == Uploads!PathOf(c, "full")
Thumb(c) == Uploads!PathOf(c, "thumb")

UploadCallsInv ==
    \A r \in Requests : uploadCall[r] # None =>
        /\ uploadCall[r].at = "size" <=> uploadCall[r].name = None
        /\ uploadCall[r].at # "size" => origin[uploadCall[r].name] = uploadCall[r].file
        /\ uploadCall[r].dir \in Users =>
              /\ Allowed(uploadCall[r].file.ext)
              /\ uploadCall[r].at # "size" => ~uploadCall[r].file.large
        /\ uploadCall[r].at # "size" => Full(uploadCall[r]) \in DOMAIN disk
        /\ uploadCall[r].at = "thumb" => disk[Full(uploadCall[r])] = "whole"

NamesInv ==
    /\ \A q, r \in Requests :
          uploadCall[q] # None /\ uploadCall[r] # None /\ uploadCall[q].name = uploadCall[r].name
              /\ uploadCall[q].name # None => q = r
    /\ \A p \in DOMAIN disk, r \in Requests :
          uploadCall[r] # None /\ uploadCall[r].name = p.name => p.dir = uploadCall[r].dir

DiskInv ==
    \A p \in DOMAIN disk :
        /\ p.dir \in Users => Allowed(p.ext) /\ ~origin[p.name].large
        /\ p.dir = "admin" /\ p.size = "full" /\ Uploads!isImage(origin[p.name]) =>
              \/ p.name \in failed \cup Uploads!NamesOf(Requests)
              \/ /\ [p EXCEPT !.size = "thumb"] \in DOMAIN disk
                 /\ disk[[p EXCEPT !.size = "thumb"]] = "whole"

AnsweredInv ==
    \A p \in answered :
        /\ p \in DOMAIN disk /\ disk[p] = "whole"
        /\ \A r \in Requests : uploadCall[r] # None => uploadCall[r].name # p.name

UploadsInv == Uploads!TypeOK /\ UploadCallsInv /\ NamesInv /\ DiskInv /\ AnsweredInv

LEMMA InitUploads == Uploads!Init => UploadsInv
BY DEF Uploads!Init, UploadsInv, Uploads!TypeOK, UploadCallsInv, NamesInv, DiskInv, AnsweredInv

LEMMA UploadFields ==
    /\ \A c \in Uploads!Call :
          /\ c.at \in {"size", "full", "thumb"} /\ c.dir \in Users \cup {"admin"}
          /\ c.file \in Uploads!FileUpload /\ c.name \in Names \cup {None}
    /\ \A f \in Uploads!FileUpload : f.ext \in Exts /\ f.large \in BOOLEAN
    /\ \A p \in Uploads!Path : p.dir \in Users \cup {"admin"} /\ p.size \in {"thumb", "full"}
                               /\ p.name \in Names /\ p.ext \in Exts
BY DEF Uploads!Call, Uploads!FileUpload, Uploads!Path, Uploads!imageSizes

LEMMA NamesHeld ==
    \A n : n \in Uploads!NamesOf(Requests) <=>
              n # None /\ \E r \in Requests : uploadCall[r] # None /\ uploadCall[r].name = n
BY DEF Uploads!NamesOf

(* The paths of a call that has its name.                                  *)
LEMMA PathsOfCall ==
    ASSUME NEW c \in Uploads!Call, c.name \in Names
    PROVE  /\ Full(c) \in Uploads!Path /\ Thumb(c) \in Uploads!Path
           /\ Full(c).name = c.name /\ Full(c).dir = c.dir /\ Full(c).ext = c.file.ext /\ Full(c).size = "full"
           /\ Thumb(c).name = c.name /\ Thumb(c).dir = c.dir /\ Thumb(c).ext = c.file.ext
           /\ Thumb(c).size = "thumb"
           /\ \A p \in Uploads!Path : p.name = c.name /\ p.dir = c.dir /\ p.ext = c.file.ext
                                        => [p EXCEPT !.size = "thumb"] = Thumb(c)
BY UploadFields DEF Full, Thumb, Uploads!PathOf, Uploads!Path, Uploads!imageSizes

(* A path that exists has the name of a file that was sent; a call that has *)
(* drawn its name is that of the file.                                     *)
LEMMA NamesAreUsed ==
    ASSUME UploadsInv
    PROVE  /\ \A p \in DOMAIN disk : p \in Uploads!Path /\ p.name \in Names /\ origin[p.name] # None
           /\ \A r \in Requests : uploadCall[r] # None /\ uploadCall[r].name # None
                 => /\ uploadCall[r].name \in Names /\ uploadCall[r].at # "size"
                    /\ origin[uploadCall[r].name] # None /\ origin[uploadCall[r].name] = uploadCall[r].file
           /\ None \notin Names /\ None \notin Uploads!Call /\ None \notin Uploads!FileUpload
           /\ \A r \in Requests : uploadCall[r] # None => uploadCall[r] \in Uploads!Call
<1>1. None \notin Names /\ None \notin Uploads!Call /\ None \notin Uploads!FileUpload
  BY UploadsAssumption DEF UploadsAssumption, Uploads!NoneAssumption
<1>2. \A p \in DOMAIN disk : p \in Uploads!Path /\ p.name \in Names /\ origin[p.name] # None
  BY UploadFields DEF UploadsInv, Uploads!TypeOK
<1>3. \A r \in Requests : uploadCall[r] # None => uploadCall[r] \in Uploads!Call
  BY DEF UploadsInv, Uploads!TypeOK
<1>4. ASSUME NEW r \in Requests, uploadCall[r] # None, uploadCall[r].name # None
      PROVE  /\ uploadCall[r].name \in Names /\ uploadCall[r].at # "size"
             /\ origin[uploadCall[r].name] # None /\ origin[uploadCall[r].name] = uploadCall[r].file
  <2>1. uploadCall[r].name \in Names /\ uploadCall[r].file \in Uploads!FileUpload
    BY <1>3, <1>4, UploadFields
  <2>2. uploadCall[r].at # "size" /\ origin[uploadCall[r].name] = uploadCall[r].file
    BY <1>4 DEF UploadsInv, UploadCallsInv
  <2> QED BY <1>1, <2>1, <2>2
<1> QED BY <1>1, <1>2, <1>3, <1>4

(* A call begins to write under a name that nobody has.                    *)
LEMMA WriteBegins ==
    ASSUME UploadsInv, NEW r \in Requests, uploadCall[r] = None \/ uploadCall[r].name = None,
           NEW c \in Uploads!Call, NEW n \in Names, Uploads!BeginWrite(r, c, n),
           c.dir \in Users => Allowed(c.file.ext) /\ ~c.file.large,
           UNCHANGED <<answered, failed>>, checks' \subseteq Requests
    PROVE  UploadsInv'
<1> DEFINE d == [c EXCEPT !.at = "full", !.name = n]
<1>1. /\ d \in Uploads!Call /\ d.at = "full" /\ d.name = n /\ d.dir = c.dir /\ d.file = c.file
      /\ d.file \in Uploads!FileUpload
  BY UploadFields DEF Uploads!Call
<1>2. PICK P : P = Full(d)
  OBVIOUS
<1>3. /\ origin[n] = None /\ origin' = [origin EXCEPT ![n] = c.file]
      /\ uploadCall' = [uploadCall EXCEPT ![r] = d]
      /\ disk' = [p \in DOMAIN disk \cup {P} |-> IF p = P THEN "partial" ELSE disk[p]]
  BY <1>2 DEF Uploads!BeginWrite, Uploads!Put, Full
<1> HIDE DEF d
<1>4. P \in Uploads!Path /\ P.name = n /\ P.dir = c.dir /\ P.ext = c.file.ext /\ P.size = "full"
  BY <1>1, <1>2, PathsOfCall
<1>5. /\ \A p \in DOMAIN disk : p \in Uploads!Path /\ p.name # n
      /\ \A q \in Requests : uploadCall[q] # None => uploadCall[q].name # n
      /\ d # None /\ n # None /\ c.file # None
  BY <1>1, <1>3, NamesAreUsed
<1>6. /\ \A q \in Requests : uploadCall'[q] = IF q = r THEN d ELSE uploadCall[q]
      /\ \A m \in Names : origin'[m] = IF m = n THEN c.file ELSE origin[m]
      /\ DOMAIN disk' = DOMAIN disk \cup {P} /\ disk'[P] = "partial"
      /\ \A p \in DOMAIN disk : disk'[p] = disk[p] /\ p # P
  BY <1>3, <1>4, <1>5 DEF UploadsInv, Uploads!TypeOK
<1>7. Uploads!TypeOK'
  <2>1. DOMAIN disk' \subseteq Uploads!Path /\ \A p \in DOMAIN disk' : disk'[p] \in {"partial", "whole"}
    BY <1>4, <1>6 DEF UploadsInv, Uploads!TypeOK
  <2>2. \A p \in DOMAIN disk' : origin'[p.name] # None /\ origin'[p.name].ext = p.ext
    BY <1>4, <1>5, <1>6, NamesAreUsed DEF UploadsInv, Uploads!TypeOK
  <2>3. origin' \in [Names -> Uploads!FileUpload \cup {None}] /\ uploadCall' \in [Requests -> Uploads!Call \cup {None}]
    BY <1>1, <1>3 DEF UploadsInv, Uploads!TypeOK
  <2> QED BY <2>1, <2>2, <2>3 DEF UploadsInv, Uploads!TypeOK
<1>8. UploadCallsInv'
  <2>1. ASSUME NEW q \in Requests, uploadCall'[q] # None
        PROVE  /\ uploadCall'[q].at = "size" <=> uploadCall'[q].name = None
               /\ uploadCall'[q].at # "size" => origin'[uploadCall'[q].name] = uploadCall'[q].file
               /\ uploadCall'[q].dir \in Users =>
                     /\ Allowed(uploadCall'[q].file.ext)
                     /\ uploadCall'[q].at # "size" => ~uploadCall'[q].file.large
               /\ uploadCall'[q].at # "size" => Full(uploadCall'[q]) \in DOMAIN disk'
               /\ uploadCall'[q].at = "thumb" => disk'[Full(uploadCall'[q])] = "whole"
    <3>1. CASE q = r
      BY <1>1, <1>2, <1>5, <1>6, <3>1
    <3>2. CASE q # r
      <4>1. uploadCall'[q] = uploadCall[q] /\ uploadCall[q] # None
        BY <1>6, <2>1, <3>2
      <4>2. uploadCall[q].at # "size" => uploadCall[q].name \in Names /\ uploadCall[q].name # n
        BY <1>5, <4>1, NamesAreUsed DEF UploadsInv, UploadCallsInv
      <4>3. /\ uploadCall[q].at # "size" => Full(uploadCall[q]) \in DOMAIN disk
            /\ uploadCall[q].at = "thumb" => disk[Full(uploadCall[q])] = "whole"
            /\ uploadCall[q].at \in {"size", "full", "thumb"}
        BY <4>1, UploadFields, NamesAreUsed DEF UploadsInv, UploadCallsInv
      <4> QED BY <1>6, <4>1, <4>2, <4>3 DEF UploadsInv, UploadCallsInv
    <3> QED BY <3>1, <3>2
  <2> QED BY <2>1 DEF UploadCallsInv, Full, Uploads!PathOf, Allowed
<1>9. NamesInv'
  <2>1. \A p \in DOMAIN disk', q \in Requests :
           uploadCall'[q] # None /\ uploadCall'[q].name = p.name => p.dir = uploadCall'[q].dir
    BY <1>1, <1>4, <1>5, <1>6 DEF UploadsInv, NamesInv
  <2>2. \A q, s \in Requests :
           uploadCall'[q] # None /\ uploadCall'[s] # None /\ uploadCall'[q].name = uploadCall'[s].name
              /\ uploadCall'[q].name # None => q = s
    BY <1>1, <1>5, <1>6 DEF UploadsInv, NamesInv
  <2> QED BY <2>1, <2>2 DEF NamesInv
<1>10. DiskInv'
  <2>1. \A m : m \in failed \cup Uploads!NamesOf(Requests) => m \in failed' \cup (Uploads!NamesOf(Requests))'
    <3>1. \A m : m # None /\ (\E q \in Requests : uploadCall[q] # None /\ uploadCall[q].name = m)
                    => \E q \in Requests : uploadCall'[q] # None /\ uploadCall'[q].name = m
      BY <1>6
    <3> QED BY <3>1 DEF Uploads!NamesOf
  <2>2. n \in (Uploads!NamesOf(Requests))'
    BY <1>1, <1>5, <1>6 DEF Uploads!NamesOf
  <2>3. ASSUME NEW p \in DOMAIN disk
        PROVE  /\ p.dir \in Users => Allowed(p.ext) /\ ~origin'[p.name].large
               /\ p.dir = "admin" /\ p.size = "full" /\ Uploads!isImage(origin'[p.name]) =>
                     \/ p.name \in failed' \cup (Uploads!NamesOf(Requests))'
                     \/ /\ [p EXCEPT !.size = "thumb"] \in DOMAIN disk'
                        /\ disk'[[p EXCEPT !.size = "thumb"]] = "whole"
    <3>1. origin'[p.name] = origin[p.name]
      BY <1>5, <1>6, NamesAreUsed
    <3>2. [p EXCEPT !.size = "thumb"] \in DOMAIN disk => disk'[[p EXCEPT !.size = "thumb"]] = disk[[p EXCEPT !.size = "thumb"]]
      BY <1>6
    <3> QED BY <1>6, <2>1, <3>1, <3>2 DEF UploadsInv, DiskInv
  <2>4. P.dir \in Users => Allowed(P.ext) /\ ~origin'[P.name].large
    BY <1>4, <1>6
  <2> QED BY <1>4, <1>6, <2>2, <2>3, <2>4 DEF DiskInv, Allowed, Uploads!isImage
<1>11. AnsweredInv'
  <2>1. ASSUME NEW p \in answered
        PROVE  /\ p \in DOMAIN disk' /\ disk'[p] = "whole"
               /\ \A q \in Requests : uploadCall'[q] # None => uploadCall'[q].name # p.name
    <3>1. p \in DOMAIN disk /\ disk[p] = "whole" /\ p.name # n
      BY <1>5 DEF UploadsInv, AnsweredInv
    <3> QED BY <1>1, <1>6, <3>1 DEF UploadsInv, AnsweredInv
  <2> QED BY <2>1 DEF AnsweredInv
<1> QED BY <1>7, <1>8, <1>9, <1>10, <1>11 DEF UploadsInv

(* A call with a name writes its own paths, ends or goes on, and leaves the *)
(* paths of other names as they are.                                       *)
LEMMA OwnPathsWritten ==
    ASSUME UploadsInv, NEW r \in Requests, uploadCall[r] # None, uploadCall[r].name \in Names,
           NEW new \in Uploads!Call \cup {None}, uploadCall' = [uploadCall EXCEPT ![r] = new],
           new # None => /\ new.name = uploadCall[r].name /\ new.dir = uploadCall[r].dir
                         /\ new.file = uploadCall[r].file /\ new.at = "thumb"
                         /\ Full(new) \in DOMAIN disk' /\ disk'[Full(new)] = "whole",
           DOMAIN disk \subseteq DOMAIN disk',
           \A p \in DOMAIN disk' : disk'[p] \in {"partial", "whole"},
           \A p \in DOMAIN disk' \ DOMAIN disk : p \in {Full(uploadCall[r]), Thumb(uploadCall[r])},
           \A p \in DOMAIN disk : p.name # uploadCall[r].name => disk'[p] = disk[p],
           UNCHANGED <<origin, checks, failed>>,
           answered \subseteq answered',
           \A p \in answered' \ answered :
              p \in {Full(uploadCall[r]), Thumb(uploadCall[r])} /\ new = None
                  /\ p \in DOMAIN disk' /\ disk'[p] = "whole",
           new = None /\ uploadCall[r].dir = "admin" /\ Uploads!isImage(uploadCall[r].file) =>
              Thumb(uploadCall[r]) \in DOMAIN disk' /\ disk'[Thumb(uploadCall[r])] = "whole"
    PROVE  UploadsInv'
<1>1. PICK c \in Uploads!Call : c = uploadCall[r]
  BY NamesAreUsed
<1>2. /\ c.name \in Names /\ c.name # None /\ origin[c.name] = c.file /\ c.file \in Uploads!FileUpload
      /\ c.file # None /\ c # None /\ c.at # "size"
  BY <1>1, NamesAreUsed, UploadFields
<1>3. /\ Full(c) \in Uploads!Path /\ Thumb(c) \in Uploads!Path
      /\ Full(c).name = c.name /\ Full(c).dir = c.dir /\ Full(c).ext = c.file.ext /\ Full(c).size = "full"
      /\ Thumb(c).name = c.name /\ Thumb(c).dir = c.dir /\ Thumb(c).ext = c.file.ext
      /\ Thumb(c).size = "thumb"
      /\ \A p \in Uploads!Path : p.name = c.name /\ p.dir = c.dir /\ p.ext = c.file.ext
                                   => [p EXCEPT !.size = "thumb"] = Thumb(c)
  BY <1>2, PathsOfCall
<1>4. /\ \A q \in Requests : uploadCall'[q] = IF q = r THEN new ELSE uploadCall[q]
      /\ \A q \in Requests \ {r} : uploadCall[q] # None => uploadCall[q].name # c.name
  <2>1. \A q \in Requests : uploadCall'[q] = IF q = r THEN new ELSE uploadCall[q]
    BY DEF UploadsInv, Uploads!TypeOK
  <2>2. \A q \in Requests \ {r} : uploadCall[q] # None => uploadCall[q].name # c.name
    BY <1>1, <1>2 DEF UploadsInv, NamesInv
  <2> QED BY <2>1, <2>2
<1>5. \A p \in DOMAIN disk' : p \in DOMAIN disk \/ p \in {Full(c), Thumb(c)}
  BY <1>1
<1>6. Uploads!TypeOK'
  <2>1. DOMAIN disk' \subseteq Uploads!Path
    BY <1>3, <1>5, NamesAreUsed
  <2>2. \A p \in DOMAIN disk' : origin[p.name] # None /\ origin[p.name].ext = p.ext
    BY <1>2, <1>3, <1>5 DEF UploadsInv, Uploads!TypeOK
  <2>3. answered' \subseteq Uploads!Path
    BY <1>1, <1>3 DEF UploadsInv, Uploads!TypeOK
  <2>4. uploadCall' \in [Requests -> Uploads!Call \cup {None}]
    BY DEF UploadsInv, Uploads!TypeOK
  <2> QED BY <2>1, <2>2, <2>3, <2>4 DEF UploadsInv, Uploads!TypeOK
<1>7. UploadCallsInv'
  <2>1. ASSUME NEW q \in Requests, uploadCall'[q] # None
        PROVE  /\ uploadCall'[q].at = "size" <=> uploadCall'[q].name = None
               /\ uploadCall'[q].at # "size" => origin'[uploadCall'[q].name] = uploadCall'[q].file
               /\ uploadCall'[q].dir \in Users =>
                     /\ Allowed(uploadCall'[q].file.ext)
                     /\ uploadCall'[q].at # "size" => ~uploadCall'[q].file.large
               /\ uploadCall'[q].at # "size" => Full(uploadCall'[q]) \in DOMAIN disk'
               /\ uploadCall'[q].at = "thumb" => disk'[Full(uploadCall'[q])] = "whole"
    <3>1. CASE q = r
      <4>1. c.dir \in Users => Allowed(c.file.ext) /\ ~c.file.large
        BY <1>1, <1>2 DEF UploadsInv, UploadCallsInv
      <4> QED BY <1>1, <1>2, <1>4, <2>1, <3>1, <4>1
    <3>2. CASE q # r
      <4>1. uploadCall'[q] = uploadCall[q] /\ uploadCall[q] # None
        BY <1>4, <2>1, <3>2
      <4>2. uploadCall[q].at # "size" => /\ uploadCall[q].name \in Names /\ uploadCall[q].name # c.name
                                         /\ Full(uploadCall[q]).name = uploadCall[q].name
        BY <1>4, <3>2, <4>1, NamesAreUsed, PathsOfCall, UploadFields DEF UploadsInv, UploadCallsInv
      <4>3. /\ uploadCall[q].at # "size" => Full(uploadCall[q]) \in DOMAIN disk
            /\ uploadCall[q].at = "thumb" => disk[Full(uploadCall[q])] = "whole"
        BY <4>1 DEF UploadsInv, UploadCallsInv
      <4>4. uploadCall[q].at = "thumb" => disk'[Full(uploadCall[q])] = "whole"
        BY <1>1, <4>2, <4>3
      <4> QED BY <4>1, <4>3, <4>4 DEF UploadsInv, UploadCallsInv
    <3> QED BY <3>1, <3>2
  <2> QED BY <2>1 DEF UploadCallsInv, Full, Uploads!PathOf, Allowed
<1>8. NamesInv'
  <2>1. \A p \in DOMAIN disk', q \in Requests :
           uploadCall'[q] # None /\ uploadCall'[q].name = p.name => p.dir = uploadCall'[q].dir
    BY <1>1, <1>3, <1>4, <1>5 DEF UploadsInv, NamesInv
  <2>2. \A q, s \in Requests :
           uploadCall'[q] # None /\ uploadCall'[s] # None /\ uploadCall'[q].name = uploadCall'[s].name
              /\ uploadCall'[q].name # None => q = s
    BY <1>1, <1>4 DEF UploadsInv, NamesInv
  <2> QED BY <2>1, <2>2 DEF NamesInv
<1>9. DiskInv'
  <2>1. ASSUME NEW m, m # c.name \/ new # None, m \in failed \cup Uploads!NamesOf(Requests)
        PROVE  m \in failed' \cup (Uploads!NamesOf(Requests))'
    <3>1. m \in failed \/ (m # None /\ \E q \in Requests : uploadCall[q] # None /\ uploadCall[q].name = m)
      BY <2>1, NamesHeld
    <3>2. m \in failed \/ (m # None /\ \E q \in Requests : uploadCall'[q] # None /\ uploadCall'[q].name = m)
      BY <1>1, <1>4, <2>1, <3>1
    <3> QED BY <3>2 DEF Uploads!NamesOf
  <2>2. new # None => c.name \in (Uploads!NamesOf(Requests))'
    BY <1>1, <1>2, <1>4 DEF Uploads!NamesOf
  <2>3. ASSUME NEW p \in DOMAIN disk', p.name = c.name
        PROVE  /\ p.dir \in Users => Allowed(p.ext) /\ ~origin[p.name].large
               /\ p.dir = "admin" /\ p.size = "full" /\ Uploads!isImage(origin[p.name]) =>
                     \/ p.name \in (Uploads!NamesOf(Requests))'
                     \/ /\ [p EXCEPT !.size = "thumb"] \in DOMAIN disk'
                        /\ disk'[[p EXCEPT !.size = "thumb"]] = "whole"
    <3>1. p \in Uploads!Path /\ p.dir = c.dir /\ p.ext = c.file.ext
      <4>1. p \in DOMAIN disk => p.dir = c.dir /\ p.ext = c.file.ext
        BY <1>1, <1>2, <2>3 DEF UploadsInv, NamesInv, Uploads!TypeOK
      <4> QED BY <1>3, <1>5, <1>6, <4>1, NamesAreUsed
    <3>2. c.dir \in Users => Allowed(c.file.ext) /\ ~c.file.large
      BY <1>1, <1>2 DEF UploadsInv, UploadCallsInv
    <3>3. [p EXCEPT !.size = "thumb"] = Thumb(c)
      BY <1>3, <2>3, <3>1
    <3> QED BY <1>1, <1>2, <2>2, <2>3, <3>1, <3>2, <3>3
  <2>4. ASSUME NEW p \in DOMAIN disk', p.name # c.name
        PROVE  /\ p.dir \in Users => Allowed(p.ext) /\ ~origin[p.name].large
               /\ p.dir = "admin" /\ p.size = "full" /\ Uploads!isImage(origin[p.name]) =>
                     \/ p.name \in failed' \cup (Uploads!NamesOf(Requests))'
                     \/ /\ [p EXCEPT !.size = "thumb"] \in DOMAIN disk'
                        /\ disk'[[p EXCEPT !.size = "thumb"]] = "whole"
    <3>1. p \in DOMAIN disk /\ p \in Uploads!Path
      BY <1>3, <1>5, <2>4, NamesAreUsed
    <3>2. [p EXCEPT !.size = "thumb"].name = p.name
      BY <3>1 DEF Uploads!Path
    <3>3. [p EXCEPT !.size = "thumb"] \in DOMAIN disk =>
             /\ [p EXCEPT !.size = "thumb"] \in DOMAIN disk'
             /\ disk'[[p EXCEPT !.size = "thumb"]] = disk[[p EXCEPT !.size = "thumb"]]
      BY <1>1, <2>4, <3>2
    <3> QED BY <2>1, <2>4, <3>1, <3>3 DEF UploadsInv, DiskInv
  <2> QED BY <2>3, <2>4 DEF DiskInv, Allowed, Uploads!isImage
<1>10. AnsweredInv'
  <2>1. ASSUME NEW p \in answered
        PROVE  /\ p \in DOMAIN disk' /\ disk'[p] = "whole"
               /\ \A q \in Requests : uploadCall'[q] # None => uploadCall'[q].name # p.name
    <3>1. p \in DOMAIN disk /\ disk[p] = "whole" /\ p.name # c.name
      BY <1>1 DEF UploadsInv, AnsweredInv
    <3> QED BY <1>1, <1>4, <3>1 DEF UploadsInv, AnsweredInv
  <2>2. ASSUME NEW p \in answered' \ answered
        PROVE  /\ p \in DOMAIN disk' /\ disk'[p] = "whole"
               /\ \A q \in Requests : uploadCall'[q] # None => uploadCall'[q].name # p.name
    <3>1. p.name = c.name /\ new = None /\ p \in DOMAIN disk' /\ disk'[p] = "whole"
      BY <1>1, <1>3
    <3> QED BY <1>4, <3>1
  <2> QED BY <2>1, <2>2 DEF AnsweredInv
<1> QED BY <1>6, <1>7, <1>8, <1>9, <1>10 DEF UploadsInv

(* Calls end without a file, and their names are counted as failed.        *)
LEMMA CallsEnd ==
    ASSUME UploadsInv, NEW R \in SUBSET Requests,
           uploadCall' = [r \in Requests |-> IF r \in R THEN None ELSE uploadCall[r]],
           failed' = failed \cup Uploads!NamesOf(R), checks' \subseteq checks,
           UNCHANGED <<disk, origin, answered>>
    PROVE  UploadsInv'
<1>1. Uploads!TypeOK'
  <2>1. Uploads!NamesOf(R) \subseteq Names
    BY NamesAreUsed DEF Uploads!NamesOf
  <2> QED BY <2>1 DEF UploadsInv, Uploads!TypeOK
<1>2. \A r \in Requests : uploadCall'[r] # None => uploadCall'[r] = uploadCall[r] /\ uploadCall[r] # None
  OBVIOUS
<1>3. \A n : n \in failed \cup Uploads!NamesOf(Requests) => n \in failed' \cup (Uploads!NamesOf(Requests))'
  <2>1. \A n : n \in Uploads!NamesOf(R) <=> n # None /\ \E r \in R : uploadCall[r] # None /\ uploadCall[r].name = n
    BY DEF Uploads!NamesOf
  <2>2. \A n : n # None /\ (\E r \in Requests \ R : uploadCall[r] # None /\ uploadCall[r].name = n)
                  => n \in (Uploads!NamesOf(Requests))'
    BY DEF Uploads!NamesOf
  <2> QED BY <2>1, <2>2, NamesHeld
<1>4. UploadCallsInv'
  BY <1>2 DEF UploadsInv, UploadCallsInv, Full, Uploads!PathOf, Allowed
<1>5. NamesInv' /\ AnsweredInv'
  BY <1>2 DEF UploadsInv, NamesInv, AnsweredInv
<1>6. DiskInv'
  BY <1>3 DEF UploadsInv, DiskInv, Allowed, Uploads!isImage
<1> QED BY <1>1, <1>4, <1>5, <1>6 DEF UploadsInv

LEMMA NextUploads == UploadsInv /\ [Uploads!Next]_(Uploads!vars) => UploadsInv'
<1> SUFFICES ASSUME UploadsInv, [Uploads!Next]_(Uploads!vars) PROVE UploadsInv'
  OBVIOUS
<1> USE DEF Uploads!At
<1>a. /\ uploadCall \in [Requests -> Uploads!Call \cup {None}] /\ checks \subseteq Requests
      /\ None \notin Names /\ "admin" \notin Users
  BY UploadsAssumption DEF UploadsAssumption, Uploads!NoneAssumption, Uploads!AdminAssumption,
                           UploadsInv, Uploads!TypeOK
<1>1. ASSUME NEW r \in Requests, NEW u \in Users, NEW f \in Uploads!FileUpload,
             NEW types \in {Uploads!FileTypes, {"image"}}, Uploads!upload(r, u, f, types)
      PROVE  UploadsInv'
  <2>1. PICK c : c = [at |-> "size", dir |-> u, types |-> types, file |-> f, name |-> None]
    OBVIOUS
  <2>2. "image" \in Uploads!FileTypes
    BY DEF Uploads!FileTypes, Uploads!allowedExts
  <2>3. c \in Uploads!Call /\ c.at = "size" /\ c.name = None /\ c.dir = u /\ c.file = f
    BY <2>1, <2>2 DEF Uploads!Call
  <2>4. /\ uploadCall[r] = None /\ uploadCall' = [uploadCall EXCEPT ![r] = c]
        /\ UNCHANGED <<disk, origin, checks, answered, failed>> /\ Uploads!Fits(f, types)
    BY <1>1, <2>1 DEF Uploads!upload
  <2>5. Allowed(f.ext)
    BY <2>2, <2>4 DEF Uploads!Fits, Allowed
  <2>6. \A q \in Requests : uploadCall'[q] = IF q = r THEN c ELSE uploadCall[q]
    BY <1>a, <2>4
  <2>7. Uploads!TypeOK'
    BY <2>3, <2>4 DEF UploadsInv, Uploads!TypeOK
  <2>8. UploadCallsInv'
    BY <2>3, <2>4, <2>5, <2>6 DEF UploadsInv, UploadCallsInv, Full, Uploads!PathOf, Allowed
  <2>9. NamesInv'
    <3>1. \A p \in DOMAIN disk : p.name # None
      BY <1>a, NamesAreUsed
    <3> QED BY <2>3, <2>4, <2>6, <3>1 DEF UploadsInv, NamesInv
  <2>10. AnsweredInv'
    <3>1. \A p \in answered : p.name # None
      BY <1>a, NamesAreUsed DEF UploadsInv, AnsweredInv
    <3> QED BY <2>3, <2>4, <2>6, <3>1 DEF UploadsInv, AnsweredInv
  <2>11. DiskInv'
    <3>1. \A n : n \in Uploads!NamesOf(Requests) => n \in (Uploads!NamesOf(Requests))'
      <4>1. \A n : n # None /\ (\E q \in Requests : uploadCall[q] # None /\ uploadCall[q].name = n)
                      => \E q \in Requests : uploadCall'[q] # None /\ uploadCall'[q].name = n
        BY <2>4, <2>6
      <4> QED BY <4>1, NamesHeld DEF Uploads!NamesOf
    <3> QED BY <2>4, <3>1 DEF UploadsInv, DiskInv, Allowed, Uploads!isImage
  <2> QED BY <2>7, <2>8, <2>9, <2>10, <2>11 DEF UploadsInv
<1>2. ASSUME NEW r \in Requests, NEW f \in Uploads!FileUpload, Uploads!adminUpload(r, f) PROVE UploadsInv'
  <2>1. PICK c : c = [at |-> "full", dir |-> "admin", types |-> Uploads!FileTypes, file |-> f, name |-> None]
    OBVIOUS
  <2>2. PICK n \in Names : Uploads!BeginWrite(r, c, n)
    BY <1>2, <2>1 DEF Uploads!adminUpload
  <2>3. c \in Uploads!Call /\ c.dir = "admin"
    BY <2>1 DEF Uploads!Call
  <2>4. uploadCall[r] = None /\ checks' \subseteq Requests /\ UNCHANGED <<answered, failed>>
    BY <1>a, <1>2 DEF Uploads!adminUpload
  <2> QED BY <1>a, <2>2, <2>3, <2>4, WriteBegins
<1>3. ASSUME NEW r \in Requests, Uploads!validateSize(r) PROVE UploadsInv'
  <2>1. /\ uploadCall[r] # None /\ uploadCall[r].at = "size" /\ uploadCall[r].name = None
        /\ uploadCall[r] \in Uploads!Call /\ UNCHANGED <<checks, answered, failed>>
    BY <1>3, NamesAreUsed DEF Uploads!validateSize, UploadsInv, UploadCallsInv
  <2>2. CASE uploadCall[r].file.large
    <3>1. uploadCall' = [q \in Requests |-> IF q \in {r} THEN None ELSE uploadCall[q]]
      BY <1>a, <1>3, <2>2 DEF Uploads!validateSize
    <3>2. Uploads!NamesOf({r}) = {}
      BY <2>1 DEF Uploads!NamesOf
    <3>3. failed' = failed \cup Uploads!NamesOf({r}) /\ UNCHANGED <<disk, origin>>
      BY <1>3, <2>2, <3>2 DEF Uploads!validateSize
    <3> QED BY <2>1, <3>1, <3>3, CallsEnd
  <2>3. CASE ~uploadCall[r].file.large
    <3>1. PICK n \in Names : Uploads!BeginWrite(r, uploadCall[r], n)
      BY <1>3, <2>3 DEF Uploads!validateSize
    <3>2. uploadCall[r].dir \in Users => Allowed(uploadCall[r].file.ext)
      BY <2>1 DEF UploadsInv, UploadCallsInv
    <3> QED BY <1>a, <2>1, <2>3, <3>1, <3>2, WriteBegins
  <2> QED BY <2>2, <2>3
<1>4. ASSUME NEW r \in Requests, Uploads!saveFile(r) PROVE UploadsInv'
  <2>1. PICK c \in Uploads!Call : c = uploadCall[r]
    BY <1>4, NamesAreUsed DEF Uploads!saveFile
  <2>2. /\ uploadCall[r] # None /\ c.at = "full" /\ c.name \in Names /\ Full(c) \in DOMAIN disk
        /\ UNCHANGED <<origin, checks, failed>>
    BY <1>4, <2>1, NamesAreUsed DEF Uploads!saveFile, UploadsInv, UploadCallsInv
  <2>3. /\ Full(c).name = c.name /\ Thumb(c).name = c.name /\ Full(c) # Thumb(c)
    BY <2>1, <2>2, PathsOfCall
  <2>4. CASE c.dir = "admin" /\ Uploads!isImage(c.file)
    <3>1. PICK d : d = [c EXCEPT !.at = "thumb"]
      OBVIOUS
    <3>2. /\ d \in Uploads!Call /\ d.at = "thumb" /\ d.name = c.name /\ d.dir = c.dir /\ d.file = c.file
          /\ Full(d) = Full(c)
      BY <3>1 DEF Uploads!Call, Full, Uploads!PathOf
    <3>3. /\ disk' = [p \in DOMAIN disk \cup {Thumb(c)} |->
                         IF p = Full(c) THEN "whole" ELSE IF p = Thumb(c) THEN "partial" ELSE disk[p]]
          /\ uploadCall' = [uploadCall EXCEPT ![r] = d] /\ answered' = answered
      BY <1>4, <2>1, <2>4, <3>1 DEF Uploads!saveFile, UploadsInv, Uploads!TypeOK, Full, Thumb
    <3>4. \A p \in DOMAIN disk : disk[p] \in {"partial", "whole"}
      BY DEF UploadsInv, Uploads!TypeOK
    <3>5. d # None
      BY <3>2, NamesAreUsed
    <3> QED BY <2>1, <2>2, <2>3, <3>2, <3>3, <3>4, <3>5, OwnPathsWritten
  <2>5. CASE ~(c.dir = "admin" /\ Uploads!isImage(c.file))
    <3>1. /\ disk' = [p \in DOMAIN disk \cup {Full(c)} |-> IF p = Full(c) THEN "whole" ELSE disk[p]]
          /\ uploadCall' = [uploadCall EXCEPT ![r] = None] /\ answered' = answered \cup {Full(c)}
      BY <1>4, <2>1, <2>5 DEF Uploads!saveFile, Uploads!Put, Full
    <3>4. \A p \in DOMAIN disk : disk[p] \in {"partial", "whole"}
      BY DEF UploadsInv, Uploads!TypeOK
    <3> QED BY <2>1, <2>2, <2>3, <2>5, <3>1, <3>4, OwnPathsWritten
  <2> QED BY <2>4, <2>5
<1>5. ASSUME NEW r \in Requests, Uploads!resizeAndSave(r) PROVE UploadsInv'
  <2>1. PICK c \in Uploads!Call : c = uploadCall[r]
    BY <1>5, NamesAreUsed DEF Uploads!resizeAndSave
  <2>2. /\ uploadCall[r] # None /\ c.at = "thumb" /\ c.name \in Names
        /\ Full(c) \in DOMAIN disk /\ disk[Full(c)] = "whole" /\ UNCHANGED <<origin, checks, failed>>
    BY <1>5, <2>1, NamesAreUsed DEF Uploads!resizeAndSave, UploadsInv, UploadCallsInv
  <2>3. /\ Full(c).name = c.name /\ Thumb(c).name = c.name
    BY <2>1, <2>2, PathsOfCall
  <2>4. /\ disk' = [p \in DOMAIN disk \cup {Thumb(c)} |-> IF p = Thumb(c) THEN "whole" ELSE disk[p]]
        /\ uploadCall' = [uploadCall EXCEPT ![r] = None]
        /\ answered' = answered \cup {Full(c), Thumb(c)}
    BY <1>5, <2>1 DEF Uploads!resizeAndSave, Uploads!Put, Full, Thumb
  <2>5. \A p \in DOMAIN disk : disk[p] \in {"partial", "whole"}
    BY DEF UploadsInv, Uploads!TypeOK
  <2> QED BY <2>1, <2>2, <2>3, <2>4, <2>5, OwnPathsWritten
<1>6. ASSUME NEW r \in Requests, Uploads!failCall(r) PROVE UploadsInv'
  <2>1. uploadCall' = [q \in Requests |-> IF q \in {r} THEN None ELSE uploadCall[q]]
    BY <1>a, <1>6 DEF Uploads!failCall
  <2> QED BY <1>6, <2>1, CallsEnd DEF Uploads!failCall
<1>7. ASSUME NEW r \in Requests, Uploads!rejectCheck(r) PROVE UploadsInv'
  <2>1. CASE checks' = checks \ {r} /\ UNCHANGED <<uploadCall, failed>>
    <3>1. uploadCall' = [q \in Requests |-> IF q \in {} THEN None ELSE uploadCall[q]]
      BY <1>a, <2>1
    <3>2. Uploads!NamesOf({}) = {}
      BY DEF Uploads!NamesOf
    <3> QED BY <1>7, <2>1, <3>1, <3>2, CallsEnd DEF Uploads!rejectCheck
  <2>2. CASE /\ checks' = {} /\ uploadCall' = [s \in Requests |-> None]
             /\ failed' = failed \cup Uploads!NamesOf(Requests)
    <3>1. uploadCall' = [q \in Requests |-> IF q \in Requests THEN None ELSE uploadCall[q]]
      BY <2>2
    <3> QED BY <1>7, <2>2, <3>1, CallsEnd DEF Uploads!rejectCheck
  <2> QED BY <1>7, <2>1, <2>2 DEF Uploads!rejectCheck
<1>8. CASE UNCHANGED Uploads!vars
  BY <1>8 DEF Uploads!vars, UploadsInv, Uploads!TypeOK, UploadCallsInv, NamesInv, DiskInv, AnsweredInv,
              Full, Uploads!PathOf, Allowed, Uploads!isImage, Uploads!NamesOf
<1> QED BY <1>1, <1>2, <1>3, <1>4, <1>5, <1>6, <1>7, <1>8 DEF Uploads!Next

(* A class has the extension it is found by. *)
LEMMA TypesFit ==
    \A ext : /\ Allowed(ext) => Uploads!type(ext) # None
             /\ Uploads!type(ext) = "image" => ext \in Uploads!allowedExts.image
<1> SUFFICES ASSUME NEW ext
             PROVE  /\ Allowed(ext) => Uploads!type(ext) # None
                    /\ Uploads!type(ext) = "image" => ext \in Uploads!allowedExts.image
  OBVIOUS
<1>1. None \notin Uploads!FileTypes /\ "image" \in Uploads!FileTypes
  BY UploadsAssumption DEF UploadsAssumption, Uploads!NoneAssumption, Uploads!FileTypes, Uploads!allowedExts
<1>2. CASE Allowed(ext)
  <2>1. Uploads!type(ext) = CHOOSE t \in Uploads!FileTypes : ext \in Uploads!allowedExts[t]
    BY <1>2 DEF Uploads!type, Allowed
  <2>2. Uploads!type(ext) \in Uploads!FileTypes /\ ext \in Uploads!allowedExts[Uploads!type(ext)]
    BY <1>2, <2>1 DEF Allowed
  <2>3. Uploads!allowedExts["image"] = Uploads!allowedExts.image
    OBVIOUS
  <2> QED BY <1>1, <2>2, <2>3
<1>3. CASE ~Allowed(ext)
  BY <1>1, <1>3 DEF Uploads!type, Allowed
<1> QED BY <1>2, <1>3

LEMMA UploadsSound ==
    UploadsInv => Uploads!AnsweredFilesAreWhole /\ Uploads!AdminVariantsExist /\ Uploads!UserListAnswers
<1> SUFFICES ASSUME UploadsInv
             PROVE  Uploads!AnsweredFilesAreWhole /\ Uploads!AdminVariantsExist /\ Uploads!UserListAnswers
  OBVIOUS
<1>1. Uploads!AnsweredFilesAreWhole
  BY DEF UploadsInv, AnsweredInv, Uploads!AnsweredFilesAreWhole
<1>2. Uploads!UserListAnswers
  <2>1. \A p \in DOMAIN disk : p.dir \in Users => Uploads!type(p.ext) # None /\ ~origin[p.name].large
    BY TypesFit DEF UploadsInv, DiskInv
  <2> QED BY <2>1 DEF Uploads!UserListAnswers, Uploads!FileObjects
<1>3. Uploads!AdminVariantsExist
  <2>1. ASSUME NEW p \in DOMAIN disk, p.dir = "admin", p.size = "full", Uploads!type(p.ext) = "image",
               origin[p.name].mime \in Uploads!allowedMimes.image
        PROVE  \/ p.name \in failed \cup Uploads!NamesOf(Requests)
               \/ /\ [p EXCEPT !.size = "thumb"] \in DOMAIN disk
                  /\ disk[[p EXCEPT !.size = "thumb"]] = "whole"
    <3>1. origin[p.name].ext = p.ext /\ p.ext \in Uploads!allowedExts.image
      BY <2>1, TypesFit DEF UploadsInv, Uploads!TypeOK
    <3> QED BY <2>1, <3>1 DEF UploadsInv, DiskInv, Uploads!isImage
  <2>2. ASSUME NEW f \in Uploads!FileObjects("admin"), NEW size \in f.variants,
               f.path.name \notin failed \cup Uploads!NamesOf(Requests),
               origin[f.path.name].mime \in Uploads!allowedMimes.image
        PROVE  LET p == [f.path EXCEPT !.size = size] IN p \in DOMAIN disk /\ disk[p] = "whole"
    <3>1. PICK q \in DOMAIN disk :
             /\ q.dir = "admin" /\ q.size = "full" /\ f.path = q
             /\ f.variants = IF Uploads!type(q.ext) = "image" THEN Uploads!imageSizes ELSE {}
      BY DEF Uploads!FileObjects
    <3>2. Uploads!type(q.ext) = "image" /\ size = "thumb"
      BY <3>1 DEF Uploads!imageSizes
    <3> QED BY <2>1, <2>2, <3>1, <3>2
  <2>3. \A f \in Uploads!FileObjects("admin") : \A size : [f.path EXCEPT !.size = size].name = f.path.name
    BY NamesAreUsed DEF Uploads!FileObjects, Uploads!Path
  <2> QED BY <2>2, <2>3 DEF Uploads!AdminVariantsExist
<1> QED BY <1>1, <1>2, <1>3


--------------------------------------------------------------------------------
(* Mails.  A mail carries the code of its call.  The stored code is that of *)
(* the last call, so that of somebody whose last mail overlapped no other   *)
(* only the mail with the stored code can be on its way, and nothing comes  *)
(* after it.  Of the settings, a key that is sure has at most one save that *)
(* has yet to write it, which is the last that asked for it; once it has    *)
(* written, the row has what it asked for.                                 *)

SaveTypes ==
    /\ setting \in Mails!Settings /\ asked \in Mails!Settings
    /\ DOMAIN save = Requests
    /\ \A c \in Requests : DOMAIN save[c] \subseteq Mails!Keys
    /\ \A c \in Requests : \E f \in Mails!Settings : \A k \in DOMAIN save[c] : save[c][k] = f[k]
    /\ unsure \subseteq Mails!Keys /\ saves \in 0..MaxSaves

SureInv ==
    \A k \in Mails!Keys \ unsure :
        /\ \A c, d \in Requests : k \in DOMAIN save[c] /\ k \in DOMAIN save[d] => c = d
        /\ \A c \in Requests : k \in DOMAIN save[c] => save[c][k] = asked[k]
        /\ (\A c \in Requests : k \notin DOMAIN save[c]) => setting[k] = asked[k]

SavesInv == SaveTypes /\ SureInv

MailTypes ==
    /\ code \in [People -> Requests \cup {Null}]
    /\ mail \in [Requests -> Mails!Mail]
    /\ inbox \in [People -> Requests \cup {Null}]
    /\ mailsOverlapped \subseteq People

MailCallsInv ==
    \A s \in Requests : mail[s].at # "idle" => mail[s].to \in People /\ mail[s].code = s

WaitersInv ==
    \A p \in People \ mailsOverlapped :
        /\ \A s \in Requests : Mails!OnItsWay(s) /\ mail[s].to = p => code[p] = s
        /\ code[p] # Null /\ mail[code[p]].at = "delivered" => inbox[p] = code[p]

CodesInv == \A p \in People : code[p] # Null => mail[code[p]].at # "idle" /\ mail[code[p]].to = p

DeliveryInv == MailTypes /\ MailCallsInv /\ WaitersInv /\ CodesInv

MailsInv == SavesInv /\ DeliveryInv

LEMMA KeysOfMails == Mails!Keys = {"mail_driver", "mail_host", "mail_password"}
BY DEF Mails!Keys

(* The settings of a mail are a record, and a value for each key makes one. *)
LEMMA SettingsOfMails ==
    ASSUME NEW f
    PROVE  /\ f \in Mails!Settings =>
                 \A k \in Mails!Keys : f[k] \in Texts \cup Mails!Drivers \cup {Null}
           /\ f \in Mails!Settings =>
                 f["mail_driver"] \in Mails!Drivers \cup {Null} /\ f["mail_host"] \in Texts \cup {Null}
                 /\ f["mail_password"] \in Texts \cup {Null} /\ f = [k \in Mails!Keys |-> f[k]]
           /\ f = [k \in Mails!Keys |-> f[k]] /\ f["mail_driver"] \in Mails!Drivers \cup {Null}
                 /\ f["mail_host"] \in Texts \cup {Null} /\ f["mail_password"] \in Texts \cup {Null}
              => f \in Mails!Settings
BY KeysOfMails DEF Mails!Settings

(* Settings that have each key from one of two are settings. *)
LEMMA SettingsMix ==
    ASSUME NEW f \in Mails!Settings, NEW g \in Mails!Settings, NEW h,
           h = [k \in Mails!Keys |-> h[k]], \A k \in Mails!Keys : h[k] = f[k] \/ h[k] = g[k]
    PROVE  h \in Mails!Settings
<1>1. f["mail_driver"] \in Mails!Drivers \cup {Null} /\ f["mail_host"] \in Texts \cup {Null}
      /\ f["mail_password"] \in Texts \cup {Null}
  BY SettingsOfMails
<1>2. g["mail_driver"] \in Mails!Drivers \cup {Null} /\ g["mail_host"] \in Texts \cup {Null}
      /\ g["mail_password"] \in Texts \cup {Null}
  BY SettingsOfMails
<1>3. h["mail_driver"] \in Mails!Drivers \cup {Null} /\ h["mail_host"] \in Texts \cup {Null}
      /\ h["mail_password"] \in Texts \cup {Null}
  BY <1>1, <1>2, KeysOfMails
<1> QED BY <1>3, SettingsOfMails

LEMMA MailConfigIsConfig ==
    ASSUME NEW f \in Mails!Settings PROVE Mails!mailConfig(f) \in Mails!Config
<1>1. PICK c : c = Mails!mailConfig(f)
  OBVIOUS
<1>2. c = [k \in Mails!Keys |-> IF f[k] = Null THEN Mails!environment[k] ELSE f[k]]
  BY <1>1 DEF Mails!mailConfig
<1>3. /\ Mails!environment["mail_driver"] = "smtp" /\ Mails!environment["mail_host"] = env
      /\ Mails!environment["mail_password"] = env
  BY DEF Mails!environment
<1>4. c["mail_driver"] \in Mails!Drivers
  BY <1>2, <1>3, SettingsOfMails, KeysOfMails DEF Mails!Drivers
<1>5. c["mail_host"] \in Texts \cup {env} /\ c["mail_password"] \in Texts \cup {env}
  BY <1>2, <1>3, SettingsOfMails, KeysOfMails
<1> QED BY <1>1, <1>2, <1>4, <1>5, KeysOfMails DEF Mails!Config

LEMMA InitMails == Mails!Init => MailsInv
<1> SUFFICES ASSUME Mails!Init PROVE MailsInv
  OBVIOUS
<1>1. setting \in Mails!Settings /\ asked = setting
  BY SettingsOfMails, KeysOfMails DEF Mails!Init
<1>2. MaxSaves \in Nat
  BY MailsAssumption DEF MailsAssumption, Mails!BoundsAssumption
<1>3. DOMAIN save = Requests /\ \A c \in Requests : DOMAIN save[c] = {}
  BY DEF Mails!Init, Mails!Nothing
<1>4. SavesInv
  BY <1>1, <1>2, <1>3 DEF Mails!Init, SavesInv, SaveTypes, SureInv
<1>5. MailTypes
  BY DEF Mails!Init, MailTypes, Mails!Mail
<1> QED BY <1>4, <1>5 DEF Mails!Init, MailsInv, DeliveryInv, MailCallsInv, WaitersInv, CodesInv, Mails!OnItsWay

LEMMA NextSaves == SavesInv /\ [Mails!Next]_(Mails!vars) => SavesInv'
<1> SUFFICES ASSUME SavesInv, [Mails!Next]_(Mails!vars) PROVE SavesInv'
  OBVIOUS
<1>a. /\ setting \in Mails!Settings /\ asked \in Mails!Settings /\ DOMAIN save = Requests
      /\ setting = [j \in Mails!Keys |-> setting[j]] /\ asked = [j \in Mails!Keys |-> asked[j]]
      /\ \A c \in Requests : DOMAIN save[c] \subseteq Mails!Keys
      /\ unsure \subseteq Mails!Keys /\ saves \in 0..MaxSaves
  BY SettingsOfMails DEF SavesInv, SaveTypes
<1>b. \A c \in Requests : \E f \in Mails!Settings : \A k \in DOMAIN save[c] : save[c][k] = f[k]
  BY DEF SavesInv, SaveTypes
<1>c. \A c \in Requests : \A k \in DOMAIN save[c] : k \in Mails!Pending
  BY DEF Mails!Pending
(* Saves that stop, with what they have yet to write. *)
<1>d. ASSUME NEW S \in SUBSET Requests, DOMAIN save' = Requests,
             \A c \in Requests : IF c \in S THEN DOMAIN save'[c] = {} ELSE save'[c] = save[c],
             \A k \in unsure' : k \in Mails!Keys, unsure \subseteq unsure',
             \A c \in S : DOMAIN save[c] \subseteq unsure',
             UNCHANGED <<setting, asked, saves>>
      PROVE  SavesInv'
  <2>1. \A c \in Requests : DOMAIN save'[c] \subseteq DOMAIN save[c] /\ \A k \in DOMAIN save'[c] : save'[c][k] = save[c][k]
    BY <1>d
  <2>2. SaveTypes'
    BY <1>a, <1>b, <1>d, <2>1 DEF SaveTypes
  <2>3. SureInv'
    <3> SUFFICES ASSUME NEW k \in Mails!Keys \ unsure'
                 PROVE  /\ \A c, d \in Requests : k \in DOMAIN save'[c] /\ k \in DOMAIN save'[d] => c = d
                        /\ \A c \in Requests : k \in DOMAIN save'[c] => save'[c][k] = asked[k]
                        /\ (\A c \in Requests : k \notin DOMAIN save'[c]) => setting[k] = asked[k]
      BY <1>d DEF SureInv
    <3>1. \A c \in Requests : k \in DOMAIN save'[c] <=> k \in DOMAIN save[c]
      BY <1>d, <2>1
    <3>2. k \in Mails!Keys \ unsure
      BY <1>d
    <3> QED BY <2>1, <3>1, <3>2 DEF SavesInv, SureInv
  <2> QED BY <2>2, <2>3 DEF SavesInv
<1>1. ASSUME NEW c \in Requests, NEW payload \in Mails!Settings, NEW given \in SUBSET Mails!Keys,
             Mails!beginSave(c, given, payload)
      PROVE  SavesInv'
  <2>1. /\ DOMAIN save[c] = {} /\ setting' = setting
        /\ save' = [save EXCEPT ![c] = [k \in given |-> payload[k]]]
        /\ asked' = [k \in Mails!Keys |-> IF k \in given THEN payload[k] ELSE asked[k]]
        /\ unsure' = (unsure \ given) \cup (given \cap Mails!Pending)
    BY <1>1 DEF Mails!beginSave
  <2>2. DOMAIN save' = Requests /\ \A d \in Requests : save'[d] = IF d = c THEN [k \in given |-> payload[k]] ELSE save[d]
    BY <1>a, <2>1
  <2>3. asked' \in Mails!Settings
    <3>1. PICK h : h = asked'
      OBVIOUS
    <3>2. h = [k \in Mails!Keys |-> h[k]] /\ \A k \in Mails!Keys : h[k] = payload[k] \/ h[k] = asked[k]
      BY <2>1, <3>1
    <3> QED BY <1>a, <3>1, <3>2, SettingsMix
  <2>4. saves' \in 0..MaxSaves
    BY <1>1, <1>a, MailsAssumption DEF Mails!beginSave, MailsAssumption, Mails!BoundsAssumption
  <2>5. \A d \in Requests : DOMAIN save'[d] \subseteq Mails!Keys
    BY <1>a, <2>2
  <2>6. \A d \in Requests : \E f \in Mails!Settings : \A k \in DOMAIN save'[d] : save'[d][k] = f[k]
    <3>1. \A k \in DOMAIN save'[c] : save'[c][k] = payload[k]
      BY <2>2
    <3> QED BY <1>b, <2>2, <3>1
  <2>7. SaveTypes'
    BY <1>a, <2>1, <2>2, <2>3, <2>4, <2>5, <2>6 DEF SaveTypes
  <2>8. SureInv'
    <3> SUFFICES ASSUME NEW k \in Mails!Keys \ unsure'
                 PROVE  /\ \A d, e \in Requests : k \in DOMAIN save'[d] /\ k \in DOMAIN save'[e] => d = e
                        /\ \A d \in Requests : k \in DOMAIN save'[d] => save'[d][k] = asked'[k]
                        /\ (\A d \in Requests : k \notin DOMAIN save'[d]) => setting'[k] = asked'[k]
      BY DEF SureInv
    <3>1. CASE k \in given
      <4>1. \A d \in Requests : k \notin DOMAIN save[d]
        BY <1>c, <2>1, <3>1
      <4>2. k \in DOMAIN save'[c] /\ save'[c][k] = payload[k] /\ asked'[k] = payload[k]
        BY <2>1, <2>2, <3>1
      <4>3. \A d \in Requests : k \in DOMAIN save'[d] => d = c
        BY <2>2, <4>1
      <4> QED BY <4>2, <4>3
    <3>2. CASE k \notin given
      <4>1. k \in Mails!Keys \ unsure /\ asked'[k] = asked[k]
        BY <2>1, <3>2
      <4>2. \A d \in Requests : /\ k \in DOMAIN save'[d] <=> k \in DOMAIN save[d]
                                /\ k \in DOMAIN save[d] => save'[d][k] = save[d][k]
        BY <2>1, <2>2, <3>2
      <4> QED BY <2>1, <4>1, <4>2 DEF SavesInv, SureInv
    <3> QED BY <3>1, <3>2
  <2> QED BY <2>7, <2>8 DEF SavesInv
<1>2. ASSUME NEW c \in Requests, NEW k \in Mails!Keys, Mails!insertOrUpdateSettings(c, k) PROVE SavesInv'
  <2>1. /\ k \in DOMAIN save[c] /\ setting' = [setting EXCEPT ![k] = save[c][k]]
        /\ save' = [save EXCEPT ![c] = [j \in DOMAIN save[c] \ {k} |-> save[c][j]]]
        /\ UNCHANGED <<asked, unsure, saves>>
    BY <1>2 DEF Mails!insertOrUpdateSettings, Mails!Written
  <2>2. DOMAIN save' = Requests
        /\ \A d \in Requests : save'[d] = IF d = c THEN [j \in DOMAIN save[c] \ {k} |-> save[c][j]] ELSE save[d]
    BY <1>a, <2>1
  <2>3. \A d \in Requests : /\ DOMAIN save'[d] = IF d = c THEN DOMAIN save[c] \ {k} ELSE DOMAIN save[d]
                            /\ \A j \in DOMAIN save'[d] : save'[d][j] = save[d][j]
    BY <2>2
  <2>4. \A j \in Mails!Keys : setting'[j] = IF j = k THEN save[c][k] ELSE setting[j]
    BY <1>a, <2>1
  <2>5. setting' \in Mails!Settings
    <3>1. PICK f \in Mails!Settings : save[c][k] = f[k]
      BY <1>b, <2>1
    <3>2. PICK h : h = setting'
      OBVIOUS
    <3>3. h = [j \in Mails!Keys |-> h[j]]
      BY <1>a, <2>1, <3>2
    <3>4. \A j \in Mails!Keys : h[j] = f[j] \/ h[j] = setting[j]
      BY <2>4, <3>1, <3>2
    <3> QED BY <1>a, <3>2, <3>3, <3>4, SettingsMix
  <2>6. \A d \in Requests : \E f \in Mails!Settings : \A j \in DOMAIN save'[d] : save'[d][j] = f[j]
    BY <1>b, <2>3
  <2>7. SaveTypes'
    BY <1>a, <2>1, <2>2, <2>3, <2>5, <2>6 DEF SaveTypes
  <2>8. SureInv'
    <3> SUFFICES ASSUME NEW j \in Mails!Keys \ unsure
                 PROVE  /\ \A d, e \in Requests : j \in DOMAIN save'[d] /\ j \in DOMAIN save'[e] => d = e
                        /\ \A d \in Requests : j \in DOMAIN save'[d] => save'[d][j] = asked[j]
                        /\ (\A d \in Requests : j \notin DOMAIN save'[d]) => setting'[j] = asked[j]
      BY <2>1 DEF SureInv
    <3>0. /\ \A d, e \in Requests : j \in DOMAIN save[d] /\ j \in DOMAIN save[e] => d = e
          /\ \A d \in Requests : j \in DOMAIN save[d] => save[d][j] = asked[j]
          /\ (\A d \in Requests : j \notin DOMAIN save[d]) => setting[j] = asked[j]
      BY DEF SavesInv, SureInv
    <3>1. CASE j = k
      BY <2>1, <2>3, <2>4, <3>0, <3>1
    <3>2. CASE j # k
      BY <2>3, <2>4, <3>0, <3>2
    <3> QED BY <3>1, <3>2
  <2> QED BY <2>7, <2>8 DEF SavesInv
<1>3. ASSUME NEW c \in Requests, Mails!failSave(c) PROVE SavesInv'
  <2>1. /\ save' = [save EXCEPT ![c] = Mails!Nothing] /\ unsure' = unsure \cup DOMAIN save[c]
        /\ UNCHANGED <<setting, asked, saves>> /\ DOMAIN Mails!Nothing = {}
    BY <1>3 DEF Mails!failSave, Mails!Nothing
  <2>2. PICK S \in SUBSET Requests : S = {c}
    OBVIOUS
  <2>3. DOMAIN save' = Requests /\ \A d \in Requests : IF d \in S THEN DOMAIN save'[d] = {} ELSE save'[d] = save[d]
    BY <1>a, <2>1, <2>2
  <2>4. unsure \subseteq unsure' /\ (\A k \in unsure' : k \in Mails!Keys) /\ \A d \in S : DOMAIN save[d] \subseteq unsure'
    BY <1>a, <2>1, <2>2
  <2> QED BY <1>d, <2>1, <2>3, <2>4
<1>4. ASSUME NEW s \in Requests, Mails!failMail(s) PROVE SavesInv'
  <2>1. CASE UNCHANGED <<save, unsure>>
    BY <1>4, <2>1 DEF Mails!failMail, SavesInv, SaveTypes, SureInv
  <2>2. CASE save' = [c \in Requests |-> Mails!Nothing] /\ unsure' = unsure \cup Mails!Pending
    <3>1. UNCHANGED <<setting, asked, saves>> /\ DOMAIN Mails!Nothing = {}
      BY <1>4 DEF Mails!failMail, Mails!Nothing
    <3>2. \A k \in Mails!Pending : k \in Mails!Keys
      BY <1>a DEF Mails!Pending
    <3>3. PICK S \in SUBSET Requests : S = Requests
      OBVIOUS
    <3>4. DOMAIN save' = Requests /\ \A d \in Requests : IF d \in S THEN DOMAIN save'[d] = {} ELSE save'[d] = save[d]
      BY <2>2, <3>1, <3>3
    <3>5. unsure \subseteq unsure' /\ (\A k \in unsure' : k \in Mails!Keys) /\ \A d \in S : DOMAIN save[d] \subseteq unsure'
      BY <1>a, <1>c, <2>2, <3>2
    <3> QED BY <1>d, <3>1, <3>4, <3>5
  <2> QED BY <1>4, <2>1, <2>2 DEF Mails!failMail
<1>5. CASE \/ UNCHANGED Mails!vars
           \/ \E s \in Requests : Mails!Deliver(s) \/ \E p \in People : Mails!sendCode(s, p)
  <2>1. UNCHANGED <<setting, save, asked, unsure, saves>>
    BY <1>5 DEF Mails!vars, Mails!Deliver, Mails!toMail, Mails!getSettingsGroup, Mails!resolveTransport,
                Mails!sendMail, Mails!sendCode, Mails!SettingsKept
  <2> QED BY <2>1 DEF SavesInv, SaveTypes, SureInv
<1> QED BY <1>1, <1>2, <1>3, <1>4, <1>5 DEF Mails!Next

(* What a step of one mail leaves to be shown of it. *)
LEMMA MailMoves ==
    ASSUME DeliveryInv, NEW s \in Requests, NEW m \in Mails!Mail, mail[s].at # "idle",
           mail' = [mail EXCEPT ![s] = m], m.to = mail[s].to, m.code = mail[s].code, m.at # "idle",
           Mails!OnItsWay(s),
           inbox' = IF m.at = "delivered" THEN [inbox EXCEPT ![m.to] = s] ELSE inbox,
           UNCHANGED <<code, mailsOverlapped>>
    PROVE  DeliveryInv'
<1>1. mail \in [Requests -> Mails!Mail] /\ m.to \in People
  BY DEF DeliveryInv, MailTypes, MailCallsInv
<1>2. \A t \in Requests : mail'[t] = IF t = s THEN m ELSE mail[t]
  BY <1>1
<1>3. inbox' \in [People -> Requests \cup {Null}]
  BY <1>1 DEF DeliveryInv, MailTypes
<1>4. MailTypes'
  BY <1>1, <1>3 DEF DeliveryInv, MailTypes
<1>6. MailCallsInv'
  BY <1>1, <1>2 DEF DeliveryInv, MailCallsInv
<1>7. CodesInv'
  <2>1. \A p \in People : code[p] # Null => code[p] \in Requests
    BY DEF DeliveryInv, MailTypes
  <2> QED BY <1>2, <2>1 DEF DeliveryInv, CodesInv
<1>8. WaitersInv'
  <2>1. \A p \in People : code[p] # Null => code[p] \in Requests
    BY DEF DeliveryInv, MailTypes
  <2>2. ASSUME NEW p \in People \ mailsOverlapped, NEW t \in Requests,
               (Mails!OnItsWay(t))', mail'[t].to = p
        PROVE  code'[p] = t
    BY <1>2, <2>2 DEF DeliveryInv, WaitersInv, Mails!OnItsWay
  <2>3. ASSUME NEW p \in People \ mailsOverlapped, code'[p] # Null, mail'[code'[p]].at = "delivered"
        PROVE  inbox'[p] = code'[p]
    <3>1. PICK t \in Requests : code[p] = t /\ code'[p] = t /\ mail[t].to = p
      BY <2>1, <2>3 DEF DeliveryInv, CodesInv
    <3>2. CASE t = s
      BY <1>2, <2>3, <3>1, <3>2 DEF DeliveryInv, MailTypes
    <3>3. CASE t # s
      <4>1. inbox[p] = t
        BY <1>2, <2>3, <3>1, <3>3 DEF DeliveryInv, WaitersInv
      <4>2. m.to # p
        BY <3>1, <3>3 DEF DeliveryInv, WaitersInv
      <4> QED BY <3>1, <4>1, <4>2 DEF DeliveryInv, MailTypes
    <3> QED BY <3>2, <3>3
  <2> QED BY <2>2, <2>3 DEF WaitersInv
<1> QED BY <1>4, <1>6, <1>7, <1>8 DEF DeliveryInv

(* Mails that fail, one or all that are on their way, end. *)
LEMMA MailsFail ==
    ASSUME DeliveryInv, NEW S \in SUBSET Requests,
           mail' = [s \in Requests |-> IF s \in S THEN [mail[s] EXCEPT !.at = "failed"] ELSE mail[s]],
           \A s \in S : mail[s].at # "idle",
           UNCHANGED <<code, inbox, mailsOverlapped>>
    PROVE  DeliveryInv'
<1>1. \A s \in Requests : mail[s] \in Mails!Mail
  BY DEF DeliveryInv, MailTypes
<1>2. \A s \in Requests :
         /\ mail'[s] \in Mails!Mail /\ mail'[s].to = mail[s].to /\ mail'[s].code = mail[s].code
         /\ mail'[s].at = IF s \in S THEN "failed" ELSE mail[s].at
  BY <1>1 DEF Mails!Mail
<1>3. MailTypes'
  BY <1>2 DEF DeliveryInv, MailTypes
<1>5. MailCallsInv'
  BY <1>2 DEF DeliveryInv, MailCallsInv
<1>6. \A p \in People : code[p] # Null => code[p] \in Requests
  BY DEF DeliveryInv, MailTypes
<1>7. CodesInv'
  BY <1>2, <1>6 DEF DeliveryInv, CodesInv
<1>8. WaitersInv'
  BY <1>2, <1>6 DEF DeliveryInv, WaitersInv, Mails!OnItsWay
<1> QED BY <1>3, <1>5, <1>7, <1>8 DEF DeliveryInv

LEMMA NextDeliveries == MailsInv /\ [Mails!Next]_(Mails!vars) => DeliveryInv'
<1> SUFFICES ASSUME MailsInv, [Mails!Next]_(Mails!vars) PROVE DeliveryInv'
  OBVIOUS
<1> USE DEF Mails!PeopleKept, Mails!SettingsKept
<1>a. /\ mail \in [Requests -> Mails!Mail] /\ code \in [People -> Requests \cup {Null}]
      /\ setting \in Mails!Settings /\ DeliveryInv
  BY DEF MailsInv, SavesInv, SaveTypes, DeliveryInv, MailTypes
(* The steps of a save leave codes and mails alone. *)
<1>1. CASE \/ UNCHANGED Mails!vars
           \/ \E c \in Requests :
                 \/ \E payload \in Mails!Settings, given \in SUBSET Mails!Keys : Mails!beginSave(c, given, payload)
                 \/ (\E k \in Mails!Keys : Mails!insertOrUpdateSettings(c, k)) \/ Mails!failSave(c)
  <2>1. UNCHANGED <<code, mail, inbox, mailsOverlapped>>
    BY <1>1 DEF Mails!vars, Mails!beginSave, Mails!insertOrUpdateSettings, Mails!failSave
  <2> QED BY <1>a, <2>1 DEF DeliveryInv, MailTypes, MailCallsInv, WaitersInv, CodesInv, Mails!OnItsWay
<1>4. ASSUME NEW s \in Requests, NEW p \in People, Mails!sendCode(s, p) PROVE DeliveryInv'
  <2>1. PICK m : m = [mail[s] EXCEPT !.at = "template", !.to = p, !.code = s]
    OBVIOUS
  <2>2. /\ m \in Mails!Mail /\ m.at = "template" /\ m.to = p /\ m.code = s
    BY <1>a, <2>1 DEF Mails!Mail
  <2>3. /\ mail' = [mail EXCEPT ![s] = m] /\ mail[s].at = "idle" /\ code' = [code EXCEPT ![p] = s]
        /\ UNCHANGED inbox
        /\ mailsOverlapped' = IF \E t \in Requests : Mails!OnItsWay(t) /\ mail[t].to = p
                              THEN mailsOverlapped \cup {p} ELSE mailsOverlapped \ {p}
    BY <1>4, <1>a, <2>1 DEF Mails!sendCode
  <2>4. \A t \in Requests : mail'[t] = IF t = s THEN m ELSE mail[t]
    BY <1>a, <2>3
  <2>5. \A q \in People : code'[q] = IF q = p THEN s ELSE code[q]
    BY <1>a, <2>3
  <2>6. MailTypes'
    BY <1>a, <2>2, <2>3 DEF DeliveryInv, MailTypes
  <2>8. MailCallsInv'
    BY <1>a, <2>2, <2>4 DEF DeliveryInv, MailCallsInv
  <2>9. CodesInv'
    BY <1>a, <2>2, <2>3, <2>4, <2>5 DEF DeliveryInv, CodesInv
  <2>10. WaitersInv'
    <3>1. \A q \in People \ mailsOverlapped' : q # p => q \notin mailsOverlapped
      BY <2>3
    <3>2. ASSUME NEW q \in People \ mailsOverlapped', NEW t \in Requests,
                 (Mails!OnItsWay(t))', mail'[t].to = q
          PROVE  code'[q] = t
      <4>1. CASE t = s
        BY <2>2, <2>4, <2>5, <3>2, <4>1
      <4>2. CASE t # s
        <5>1. Mails!OnItsWay(t) /\ mail[t].to = q
          BY <2>4, <3>2, <4>2 DEF Mails!OnItsWay
        <5>2. q # p
          BY <2>3, <3>2, <5>1
        <5> QED BY <1>a, <2>5, <3>1, <5>1, <5>2 DEF DeliveryInv, WaitersInv
      <4> QED BY <4>1, <4>2
    <3>3. ASSUME NEW q \in People \ mailsOverlapped', code'[q] # Null, mail'[code'[q]].at = "delivered"
          PROVE  inbox'[q] = code'[q]
      <4>1. q # p
        BY <2>2, <2>4, <2>5, <3>3
      <4>2. code'[q] = code[q] /\ code[q] \in Requests
        BY <1>a, <2>5, <3>3, <4>1
      <4>3. mail[code[q]].at = "delivered"
        BY <2>2, <2>4, <3>3, <4>2
      <4> QED BY <1>a, <2>3, <3>1, <3>3, <4>1, <4>2, <4>3 DEF DeliveryInv, WaitersInv
    <3> QED BY <3>2, <3>3 DEF WaitersInv
  <2> QED BY <2>6, <2>8, <2>9, <2>10 DEF DeliveryInv
<1>5. ASSUME NEW s \in Requests, Mails!toMail(s) PROVE DeliveryInv'
  <2>1. PICK m : m = [mail[s] EXCEPT !.at = "settings"]
    OBVIOUS
  <2>2. /\ m \in Mails!Mail /\ m.at = "settings" /\ m.to = mail[s].to /\ m.code = mail[s].code
    BY <1>a, <2>1 DEF Mails!Mail
  <2>3. mail' = [mail EXCEPT ![s] = m] /\ Mails!OnItsWay(s) /\ mail[s].at # "idle"
    BY <1>5, <1>a, <2>1 DEF Mails!toMail, Mails!Step, Mails!OnItsWay
  <2>4. UNCHANGED <<code, inbox, mailsOverlapped>>
    BY <1>5 DEF Mails!toMail
  <2> QED BY <2>2, <2>3, <2>4, <1>a, MailMoves
<1>6. ASSUME NEW s \in Requests, Mails!getSettingsGroup(s) PROVE DeliveryInv'
  <2>2. PICK config \in Mails!Config : config = Mails!mailConfig(setting)
    BY <1>a, MailConfigIsConfig
  <2>3. PICK m : m = [mail[s] EXCEPT !.at = "transport", !.config = config]
    OBVIOUS
  <2>4. /\ m \in Mails!Mail /\ m.at = "transport" /\ m.to = mail[s].to /\ m.code = mail[s].code
    BY <1>a, <2>2, <2>3 DEF Mails!Mail
  <2>5. mail' = [mail EXCEPT ![s] = m] /\ Mails!OnItsWay(s) /\ mail[s].at # "idle"
    BY <1>6, <1>a, <2>2, <2>3 DEF Mails!getSettingsGroup, Mails!OnItsWay
  <2>7. UNCHANGED <<code, inbox, mailsOverlapped>>
    BY <1>6 DEF Mails!getSettingsGroup
  <2> QED BY <1>a, <2>4, <2>5, <2>7, MailMoves
<1>7. ASSUME NEW s \in Requests, Mails!resolveTransport(s) PROVE DeliveryInv'
  <2>1. PICK at \in {"sending", "failed"} : mail' = [mail EXCEPT ![s].at = at]
    BY <1>7 DEF Mails!resolveTransport, Mails!Step
  <2>2. PICK m : m = [mail[s] EXCEPT !.at = at]
    OBVIOUS
  <2>3. /\ m \in Mails!Mail /\ m.at = at /\ m.to = mail[s].to /\ m.code = mail[s].code
    BY <1>a, <2>2 DEF Mails!Mail
  <2>4. mail' = [mail EXCEPT ![s] = m] /\ Mails!OnItsWay(s) /\ mail[s].at # "idle"
    BY <1>7, <1>a, <2>1, <2>2 DEF Mails!resolveTransport, Mails!Step, Mails!OnItsWay
  <2>5. UNCHANGED <<code, inbox, mailsOverlapped>>
    BY <1>7 DEF Mails!resolveTransport
  <2>6. m.at # "idle" /\ m.at # "delivered"
    BY <2>1, <2>3
  <2> QED BY <1>a, <2>3, <2>4, <2>5, <2>6, MailMoves
<1>8. ASSUME NEW s \in Requests, Mails!sendMail(s) PROVE DeliveryInv'
  <2>1. PICK m : m = [mail[s] EXCEPT !.at = "delivered"]
    OBVIOUS
  <2>2. /\ m \in Mails!Mail /\ m.at = "delivered" /\ m.to = mail[s].to /\ m.code = mail[s].code
    BY <1>a, <2>1 DEF Mails!Mail
  <2>3. mail' = [mail EXCEPT ![s] = m] /\ Mails!OnItsWay(s) /\ mail[s].at # "idle"
    BY <1>8, <1>a, <2>1 DEF Mails!sendMail, Mails!Step, Mails!OnItsWay
  <2>4. inbox' = [inbox EXCEPT ![m.to] = s] /\ UNCHANGED <<code, mailsOverlapped>>
    BY <1>8, <2>2 DEF Mails!sendMail
  <2> QED BY <2>2, <2>3, <2>4, <1>a, MailMoves
<1>9. ASSUME NEW s \in Requests, Mails!failMail(s) PROVE DeliveryInv'
  <2>1. UNCHANGED <<code, inbox, mailsOverlapped>> /\ mail[s].at # "idle"
    BY <1>9 DEF Mails!failMail, Mails!OnItsWay
  <2>2. CASE mail' = [mail EXCEPT ![s].at = "failed"]
    <3>1. PICK S \in SUBSET Requests : S = {s}
      OBVIOUS
    <3>2. mail' = [t \in Requests |-> IF t \in S THEN [mail[t] EXCEPT !.at = "failed"] ELSE mail[t]]
      BY <1>a, <2>2, <3>1
    <3> QED BY <2>1, <2>2, <3>1, <3>2, <1>a, MailsFail
  <2>3. CASE mail' = [t \in Requests |-> IF Mails!OnItsWay(t) THEN [mail[t] EXCEPT !.at = "failed"] ELSE mail[t]]
    <3>1. PICK S \in SUBSET Requests : S = {t \in Requests : Mails!OnItsWay(t)}
      OBVIOUS
    <3>2. mail' = [t \in Requests |-> IF t \in S THEN [mail[t] EXCEPT !.at = "failed"] ELSE mail[t]]
      BY <2>3, <3>1
    <3>3. \A t \in S : mail[t].at # "idle"
      BY <3>1 DEF Mails!OnItsWay
    <3> QED BY <2>1, <2>3, <3>2, <3>3, <1>a, MailsFail
  <2> QED BY <1>9, <2>2, <2>3 DEF Mails!failMail
<1> QED BY <1>1, <1>4, <1>5, <1>6, <1>7, <1>8, <1>9 DEF Mails!Next, Mails!Deliver

LEMMA NextMails == MailsInv /\ [Mails!Next]_(Mails!vars) => MailsInv'
BY NextSaves, NextDeliveries DEF MailsInv

LEMMA MailsSoundness == MailsInv => Mails!TypeOK /\ Mails!LastMailHasTheCode
<1>1. ASSUME MailsInv, NEW p \in People \ mailsOverlapped, code[p] # Null, mail[code[p]].at = "delivered"
      PROVE  mail[inbox[p]].code = code[p]
  BY <1>1 DEF MailsInv, DeliveryInv, WaitersInv, MailCallsInv, MailTypes
<1>2. MailsInv => Mails!TypeOK
  BY DEF MailsInv, SavesInv, SaveTypes, DeliveryInv, MailTypes, Mails!TypeOK
<1> QED BY <1>1, <1>2 DEF Mails!LastMailHasTheCode

LEMMA ConfigSound == ASSUME MailsInv PROVE Mails!ConfigAsAsked
<1> SUFFICES ASSUME NEW s \in Requests, Mails!getSettingsGroup(s),
                    NEW k \in Mails!Keys \ (unsure \cup Mails!Pending)
             PROVE  mail'[s].config[k] = IF asked[k] = Null THEN Mails!environment[k] ELSE asked[k]
  BY DEF Mails!ConfigAsAsked
<1>1. \A c \in Requests : k \notin DOMAIN save[c]
  BY DEF Mails!Pending
<1>2. setting[k] = asked[k]
  BY <1>1 DEF MailsInv, SavesInv, SureInv
<1>3. PICK config : config = Mails!mailConfig(setting)
  OBVIOUS
<1>4. mail[s] \in Mails!Mail /\ mail \in [Requests -> Mails!Mail]
  BY DEF MailsInv, DeliveryInv, MailTypes
<1>5. mail'[s] = [mail[s] EXCEPT !.at = "transport", !.config = config]
  BY <1>3, <1>4 DEF Mails!getSettingsGroup
<1>6. mail'[s].config = config
  BY <1>4, <1>5 DEF Mails!Mail
<1> QED BY <1>2, <1>3, <1>6 DEF Mails!mailConfig

(* The run bounds what overlaps; here any number of saves of the settings   *)
(* overlap, stop and run beside any number of mails: every mail reads, of a *)
(* key that no save has yet to write and whose last save was undisturbed,   *)
(* what that save asked for, and no later mail of somebody who waited for   *)
(* the mails before has an older code.                                     *)
THEOREM MailsUnderAllSaves ==
    Mails!Spec => Mails!ConfigIsAsAsked /\ []Mails!LastMailHasTheCode
<1>1. MailsInv /\ [Mails!Next]_(Mails!vars) => [Mails!ConfigAsAsked]_(Mails!vars)
  BY ConfigSound
<1>2. MailsInv => Mails!LastMailHasTheCode
  BY MailsSoundness
<1> QED BY <1>1, <1>2, InitMails, NextMails, PTL DEF Mails!Spec, Mails!ConfigIsAsAsked

--------------------------------------------------------------------------------
(* Log files.  Whatever is written is put behind the content of a file, and *)
(* carries the day whose file takes it.                                    *)

FilesInv(files) ==
    /\ DOMAIN files \subseteq Logs!LogFile
    /\ \A f \in DOMAIN files : files[f] \in Seq(Logs!Entry \cup {Logs!DeployText})
    /\ logChannel = "daily" =>
          /\ "debug.log" \notin DOMAIN files
          /\ \A d \in Logs!Days : Logs!datedFile[d] \in DOMAIN files =>
                \A i \in DOMAIN files[Logs!datedFile[d]] : files[Logs!datedFile[d]][i].day = d

LogsInv == FilesInv(file) /\ logChannel \in {"single", "daily"} /\ day \in Logs!Days

Extends(s, t) == Len(s) <= Len(t) /\ \A i \in 1..Len(s) : t[i] = s[i]

(* No file of `files` is gone or shorter, but for the one of `except`. *)
Grown(files, grown, except) ==
    \A f \in DOMAIN files \ except : f \in DOMAIN grown /\ Extends(files[f], grown[f])

Entries == {<<>>} \cup {<<e>> : e \in {x \in Logs!Entry : x.day = day}}

LEMMA LogNames ==
    /\ Logs!Days = {1, 2}
    /\ Logs!datedFile[1] = "1_debug.log" /\ Logs!datedFile[2] = "2_debug.log"
    /\ Logs!LogFile = {"debug.log", "mail.log", "deploy.log", "1_debug.log", "2_debug.log"}
BY DEF Logs!Days, Logs!datedFile, Logs!LogFile

LEMMA ExtendsIsPrefix ==
    ASSUME NEW S, NEW s \in Seq(S), NEW t \in Seq(S), Extends(s, t) PROVE Logs!IsPrefix(s, t)
<1>1. Len(s) \in Nat /\ Len(t) \in Nat /\ Len(s) <= Len(t)
  BY DEF Extends
<1>2. SubSeq(s, 1, Len(s)) = [i \in 1..Len(s) |-> s[i]] /\ SubSeq(t, 1, Len(s)) = [i \in 1..Len(s) |-> t[i]]
  BY <1>1
<1>3. SubSeq(s, 1, Len(s)) = SubSeq(t, 1, Len(s))
  BY <1>2 DEF Extends
<1> QED BY <1>1, <1>3 DEF Logs!IsPrefix

(* An append to the file of a message, or to that of the logger's own errors. *)
LEMMA Appended ==
    ASSUME NEW files, FilesInv(files), logChannel \in {"single", "daily"}, day \in Logs!Days,
           NEW f \in {Logs!debugLog, "mail.log"}, NEW entry \in Entries
    PROVE  LET grown == Logs!Put(files, f, Logs!Content(files, f) \o entry)
           IN  FilesInv(grown) /\ Grown(files, grown, {})
<1> DEFINE old == Logs!Content(files, f)
<1> DEFINE S == Logs!Entry \cup {Logs!DeployText}
<1>1. old \in Seq(S)
  BY DEF FilesInv, Logs!Content
<1>2. entry = <<>> \/ \E e \in Logs!Entry : e.day = day /\ entry = <<e>>
  BY DEF Entries
<1>3. PICK new : new = old \o entry
  OBVIOUS
<1>4. /\ new \in Seq(S) /\ Extends(old, new)
      /\ \A i \in 1..Len(new) : i \in 1..Len(old) \/ new[i].day = day
  <2>1. CASE entry = <<>>
    BY <1>1, <1>3, <2>1 DEF Extends
  <2>2. CASE \E e \in Logs!Entry : e.day = day /\ entry = <<e>>
    <3>1. PICK e \in Logs!Entry : e.day = day /\ entry = <<e>>
      BY <2>2
    <3>2. new = Append(old, e)
      BY <1>1, <1>3, <3>1
    <3>3. e \in S
      OBVIOUS
    <3> HIDE DEF S, old
    <3>4. Len(new) = Len(old) + 1 /\ new[Len(old) + 1] = e /\ \A i \in 1..Len(old) : new[i] = old[i]
      BY <1>1, <3>2, <3>3
    <3>5. new \in Seq(S)
      BY <1>1, <3>2, <3>3
    <3>6. Len(old) \in Nat
      BY <1>1
    <3> QED BY <3>1, <3>4, <3>5, <3>6 DEF Extends
  <2> QED BY <1>2, <2>1, <2>2
<1> HIDE DEF old
<1>5. PICK grown : grown = [g \in DOMAIN files \cup {f} |-> IF g = f THEN new ELSE files[g]]
  OBVIOUS
<1>6. Logs!Put(files, f, Logs!Content(files, f) \o entry) = grown
  BY <1>3, <1>5 DEF Logs!Put, old
<1>7. f \in DOMAIN files => files[f] = old
  BY DEF old, Logs!Content
<1>8. f \notin DOMAIN files => old = <<>>
  BY DEF old, Logs!Content
<1>9. f \in Logs!LogFile /\ (logChannel = "daily" => f \in {Logs!datedFile[day], "mail.log"})
  BY LogNames DEF Logs!debugLog
<1>10. DOMAIN grown \subseteq Logs!LogFile /\ \A g \in DOMAIN grown : grown[g] \in Seq(S)
  BY <1>4, <1>5, <1>9 DEF FilesInv
<1>11. ASSUME logChannel = "daily" PROVE "debug.log" \notin DOMAIN grown
  BY <1>5, <1>9, <1>11, LogNames DEF FilesInv
<1>12. ASSUME logChannel = "daily", NEW d \in Logs!Days, Logs!datedFile[d] \in DOMAIN grown,
              NEW i \in DOMAIN grown[Logs!datedFile[d]]
       PROVE  grown[Logs!datedFile[d]][i].day = d
  <2>1. CASE Logs!datedFile[d] = f
    <3>1. d = day
      BY <1>9, <1>12, <2>1, LogNames
    <3>2. grown[Logs!datedFile[d]] = new /\ i \in 1..Len(new)
      BY <1>4, <1>5, <1>12, <2>1
    <3>3. i \in 1..Len(old) => f \in DOMAIN files /\ i \in DOMAIN files[f] /\ new[i] = files[f][i]
      BY <1>1, <1>4, <1>7, <1>8 DEF Extends
    <3> QED BY <1>4, <1>12, <2>1, <3>1, <3>2, <3>3 DEF FilesInv
  <2>2. CASE Logs!datedFile[d] # f
    BY <1>5, <1>12, <2>2 DEF FilesInv
  <2> QED BY <2>1, <2>2
<1>13. Grown(files, grown, {})
  <2>1. ASSUME NEW g \in DOMAIN files PROVE g \in DOMAIN grown /\ Extends(files[g], grown[g])
    <3>1. Len(files[g]) \in Nat
      BY DEF FilesInv
    <3> QED BY <1>4, <1>5, <1>7, <3>1 DEF Extends
  <2> QED BY <2>1 DEF Grown
<1> QED BY <1>6, <1>10, <1>11, <1>12, <1>13 DEF FilesInv

LEMMA GrownTwice ==
    ASSUME NEW a, NEW b, NEW c, NEW except, FilesInv(a), Grown(a, b, except), Grown(b, c, {})
    PROVE  Grown(a, c, except)
<1> SUFFICES ASSUME NEW f \in DOMAIN a \ except PROVE f \in DOMAIN c /\ Extends(a[f], c[f])
  BY DEF Grown
<1>1. f \in DOMAIN b /\ Extends(a[f], b[f]) /\ f \in DOMAIN c /\ Extends(b[f], c[f])
  BY DEF Grown
<1>2. Len(a[f]) \in Nat
  BY DEF FilesInv
<1> QED BY <1>1, <1>2 DEF Extends

(* What a message leaves of the files, and what a stopped append does.     *)
LEMMA MessageLogged ==
    ASSUME NEW files, FilesInv(files), logChannel \in {"single", "daily"}, day \in Logs!Days,
           NEW logFile \in {"debug.log", "mail.log"}, NEW of \in {"message", "error"},
           NEW new \in Logs!Logged(files, logFile, of)
    PROVE  FilesInv(new) /\ Grown(files, new, {})
<1>1. PICK f \in {Logs!debugLog, "mail.log"} : f = Logs!FileOf(logFile)
  BY DEF Logs!FileOf
<1>2. <<[of |-> of, day |-> day, part |-> "whole"]>> \in Entries
  BY DEF Entries, Logs!Entry, Logs!Part
<1>3. CASE new = Logs!Put(files, f, Logs!Content(files, f) \o <<[of |-> of, day |-> day, part |-> "whole"]>>)
  BY <1>2, <1>3, Appended
<1>4. CASE \E entry \in Logs!Written(of, Logs!Part \ {"whole"}) :
              new \in Logs!logCatch(Logs!Put(files, f, Logs!Content(files, f) \o entry))
  <2>1. PICK entry \in Logs!Written(of, Logs!Part \ {"whole"}) :
              new \in Logs!logCatch(Logs!Put(files, f, Logs!Content(files, f) \o entry))
    BY <1>4
  <2>2. PICK mid : mid = Logs!Put(files, f, Logs!Content(files, f) \o entry)
    OBVIOUS
  <2>3. entry \in Entries
    BY DEF Entries, Logs!Written, Logs!Entry
  <2>4. FilesInv(mid) /\ Grown(files, mid, {})
    BY <2>2, <2>3, Appended
  <2>5. PICK error \in Logs!Written("error", Logs!Part) :
           new = Logs!Put(mid, Logs!debugLog, Logs!Content(mid, Logs!debugLog) \o error)
    BY <2>1, <2>2 DEF Logs!logCatch
  <2>6. error \in Entries
    BY DEF Entries, Logs!Written, Logs!Entry
  <2>7. FilesInv(new) /\ Grown(mid, new, {})
    BY <2>4, <2>5, <2>6, Appended
  <2> QED BY <2>4, <2>7, GrownTwice
<1> QED BY <1>1, <1>3, <1>4 DEF Logs!Logged

(* A file is emptied. *)
LEMMA Emptied ==
    ASSUME NEW files, FilesInv(files), NEW f \in DOMAIN files
    PROVE  FilesInv(Logs!Put(files, f, <<>>)) /\ Grown(files, Logs!Put(files, f, <<>>), {f})
<1>1. PICK new : new = Logs!Put(files, f, <<>>)
  OBVIOUS
<1>2. new = [g \in DOMAIN files |-> IF g = f THEN <<>> ELSE files[g]]
  BY <1>1 DEF Logs!Put
<1>3. DOMAIN new = DOMAIN files
  BY <1>2
<1>4. \A g \in DOMAIN files : new[g] = IF g = f THEN <<>> ELSE files[g]
  BY <1>2
<1>5. \A g \in DOMAIN new : new[g] \in Seq(Logs!Entry \cup {Logs!DeployText})
  <2>1. <<>> \in Seq(Logs!Entry \cup {Logs!DeployText})
    OBVIOUS
  <2> QED BY <1>3, <1>4, <2>1 DEF FilesInv
<1>6. FilesInv(new)
  BY <1>3, <1>4, <1>5 DEF FilesInv
<1>7. Grown(files, new, {f})
  <2>1. \A g \in DOMAIN files : Len(files[g]) \in Nat
    BY DEF FilesInv
  <2> QED BY <1>3, <1>4, <2>1 DEF Grown, Extends
<1> QED BY <1>1, <1>6, <1>7

LEMMA InitLogs == Logs!Init => LogsInv
<1> SUFFICES ASSUME Logs!Init PROVE LogsInv
  OBVIOUS
<1>1. file["deploy.log"] = <<Logs!DeployText>> /\ DOMAIN file = {"deploy.log"}
  BY DEF Logs!Init
<1>2. <<Logs!DeployText>> \in Seq(Logs!Entry \cup {Logs!DeployText})
  OBVIOUS
<1>3. FilesInv(file)
  BY <1>1, <1>2, LogNames DEF FilesInv
<1> QED BY <1>3, LogNames DEF Logs!Init, LogsInv

(* What each step does to the files: a view empties only a file that does   *)
(* not parse, and that of the deployment never.                            *)
LEMMA StepOfFiles ==
    ASSUME LogsInv, [Logs!Next]_(Logs!vars)
    PROVE  /\ LogsInv'
           /\ \E except \in SUBSET DOMAIN file :
                 /\ Grown(file, file', except)
                 /\ \A f \in except :
                       \/ f # "deploy.log" /\ ~Logs!Parses(file[f])
                       \/ Logs!cleanFile(f) \/ Logs!deleteFile(f)
<1> DEFINE Lost(except) == \A f \in except : \/ f # "deploy.log" /\ ~Logs!Parses(file[f])
                                            \/ Logs!cleanFile(f) \/ Logs!deleteFile(f)
<1> DEFINE Goal == LogsInv' /\ \E except \in SUBSET DOMAIN file : Grown(file, file', except) /\ Lost(except)
<1> SUFFICES Goal
  OBVIOUS
<1>a. FilesInv(file) /\ logChannel \in {"single", "daily"} /\ day \in Logs!Days
  BY DEF LogsInv
<1>b. ASSUME NEW new, file' = new, FilesInv(new), UNCHANGED logChannel, day' \in Logs!Days PROVE LogsInv'
  BY <1>a, <1>b DEF LogsInv, FilesInv
<1>c. ASSUME NEW new, file' = new, FilesInv(new), UNCHANGED logChannel, day' \in Logs!Days, Grown(file, new, {})
      PROVE  Goal
  BY <1>b, <1>c
<1>1. ASSUME NEW logFile \in {"debug.log", "mail.log"}, Logs!stop(logFile) PROVE Goal
  <2>1. PICK f \in {Logs!debugLog, "mail.log"} : f = Logs!FileOf(logFile)
    BY DEF Logs!FileOf
  <2>2. PICK entry \in Logs!Written("message", Logs!Part) :
           file' = Logs!Put(file, f, Logs!Content(file, f) \o entry)
    BY <1>1, <2>1 DEF Logs!stop
  <2>3. entry \in Entries
    BY <1>a DEF Entries, Logs!Written, Logs!Entry
  <2>4. PICK new : new = Logs!Put(file, f, Logs!Content(file, f) \o entry)
    OBVIOUS
  <2>5. FilesInv(new) /\ Grown(file, new, {})
    BY <1>a, <2>3, <2>4, Appended
  <2> QED BY <1>1, <1>a, <1>c, <2>2, <2>4, <2>5 DEF Logs!stop
<1>2. ASSUME NEW logFile \in {"debug.log", "mail.log"}, NEW kind, Logs!log(kind, logFile) PROVE Goal
  <2>1. PICK new \in Logs!Logged(file, logFile, "message") : file' = new
    BY <1>2 DEF Logs!log
  <2>2. FilesInv(new) /\ Grown(file, new, {})
    BY <1>a, MessageLogged
  <2> QED BY <1>2, <1>a, <1>c, <2>1, <2>2 DEF Logs!log
<1>3. ASSUME NEW f \in Logs!LogFile, Logs!getLogs(f) PROVE Goal
  <2>1. f \in DOMAIN file /\ f # "deploy.log" /\ ~Logs!Parses(file[f]) /\ UNCHANGED <<logChannel, day>>
    BY <1>3 DEF Logs!getLogs
  <2>2. PICK mid : mid = Logs!Put(file, f, <<>>)
    OBVIOUS
  <2>3. FilesInv(mid) /\ Grown(file, mid, {f})
    BY <1>a, <2>1, <2>2, Emptied
  <2>4. PICK new \in Logs!Logged(mid, "debug.log", "error") : file' = new
    BY <1>3, <2>2 DEF Logs!getLogs
  <2>5. FilesInv(new) /\ Grown(mid, new, {})
    BY <1>a, <2>3, MessageLogged
  <2>6. Grown(file, file', {f})
    BY <1>a, <2>3, <2>4, <2>5, GrownTwice
  <2>7. Lost({f})
    BY <2>1
  <2>8. LogsInv'
    BY <1>a, <1>b, <2>1, <2>4, <2>5
  <2> QED BY <2>1, <2>6, <2>7, <2>8
<1>4. ASSUME NEW f \in Logs!LogFile, Logs!cleanFile(f) PROVE Goal
  <2>1. f \in DOMAIN file /\ file' = Logs!Put(file, f, <<>>) /\ UNCHANGED <<logChannel, day>>
    BY <1>4 DEF Logs!cleanFile
  <2>2. PICK new : new = Logs!Put(file, f, <<>>)
    OBVIOUS
  <2>3. FilesInv(new) /\ Grown(file, new, {f})
    BY <1>a, <2>1, <2>2, Emptied
  <2>4. Lost({f})
    BY <1>4
  <2>5. LogsInv'
    BY <1>a, <1>b, <2>1, <2>2, <2>3
  <2> QED BY <2>1, <2>2, <2>3, <2>4, <2>5
<1>5. ASSUME NEW f \in Logs!LogFile, Logs!deleteFile(f) PROVE Goal
  <2>1. PICK new : new = [g \in DOMAIN file \ {f} |-> file[g]]
    OBVIOUS
  <2>2. f \in DOMAIN file /\ file' = new /\ UNCHANGED <<logChannel, day>>
    BY <1>5, <2>1 DEF Logs!deleteFile
  <2>3. FilesInv(new)
    BY <1>a, <2>1 DEF FilesInv
  <2>4. Grown(file, new, {f})
    <3>1. \A g \in DOMAIN file : Len(file[g]) \in Nat
      BY <1>a DEF FilesInv
    <3> QED BY <2>1, <3>1 DEF Grown, Extends
  <2>5. Lost({f})
    BY <1>5
  <2>6. LogsInv'
    BY <1>a, <1>b, <2>2, <2>3
  <2> QED BY <2>2, <2>4, <2>5, <2>6
<1>d. Grown(file, file, {})
  <2>1. \A g \in DOMAIN file : Len(file[g]) \in Nat
    BY <1>a DEF FilesInv
  <2> QED BY <2>1 DEF Grown, Extends
<1>6. ASSUME Logs!NextDay PROVE Goal
  <2>1. day' \in Logs!Days /\ file' = file /\ logChannel' = logChannel
    BY <1>6 DEF Logs!NextDay
  <2> QED BY <1>a, <1>c, <1>d, <2>1
<1>7. CASE UNCHANGED Logs!vars
  BY <1>7, <1>a, <1>c, <1>d DEF Logs!vars
<1> HIDE DEF Goal
<1> QED BY <1>1, <1>2, <1>3, <1>4, <1>5, <1>6, <1>7 DEF Logs!Next

LEMMA LogsSound ==
    ASSUME LogsInv PROVE Logs!TypeOK /\ Logs!EntriesAreInTheirDay
<1>1. Logs!TypeOK
  BY DEF LogsInv, FilesInv, Logs!TypeOK
<1>2. ASSUME logChannel = "daily", NEW d \in Logs!Days, NEW i \in DOMAIN Logs!Content(file, Logs!datedFile[d])
      PROVE  file[Logs!datedFile[d]][i].day = d
  BY <1>2 DEF LogsInv, FilesInv, Logs!Content
<1> QED BY <1>1, <1>2 DEF LogsInv, FilesInv, Logs!EntriesAreInTheirDay

LEMMA LossSound ==
    ASSUME LogsInv, [Logs!Next]_(Logs!vars) PROVE Logs!LossNeedsBrokenEntry
<1>1. LogsInv' /\ \E except \in SUBSET DOMAIN file :
                 /\ Grown(file, file', except)
                 /\ \A f \in except :
                       \/ f # "deploy.log" /\ ~Logs!Parses(file[f])
                       \/ Logs!cleanFile(f) \/ Logs!deleteFile(f)
  BY StepOfFiles
<1>2. PICK except \in SUBSET DOMAIN file :
                 /\ Grown(file, file', except)
                 /\ \A f \in except :
                       \/ f # "deploy.log" /\ ~Logs!Parses(file[f])
                       \/ Logs!cleanFile(f) \/ Logs!deleteFile(f)
  BY <1>1
<1>3. ASSUME NEW f \in DOMAIN file, f \notin except
      PROVE  f \in DOMAIN file' /\ Logs!IsPrefix(file[f], file'[f])
  <2>1. f \in DOMAIN file' /\ Extends(file[f], file'[f])
    BY <1>2, <1>3 DEF Grown
  <2>2. /\ file[f] \in Seq(Logs!Entry \cup {Logs!DeployText})
        /\ file'[f] \in Seq(Logs!Entry \cup {Logs!DeployText})
    BY <1>1, <2>1 DEF LogsInv, FilesInv
  <2> QED BY <2>1, <2>2, ExtendsIsPrefix
<1>4. \A f \in DOMAIN file : ~Logs!Parses(file[f]) => \E i \in DOMAIN file[f] : file[f][i].part # "whole"
  BY DEF Logs!Parses
<1> QED BY <1>2, <1>3, <1>4 DEF Logs!LossNeedsBrokenEntry

--------------------------------------------------------------------------------
(* Seeding.  The three tables of settings that are kept by hand agree: no   *)
(* key is an input of two groups, a key is seeded into the group whose     *)
(* input has it, and the media are the image keys.                         *)

LEMMA GroupsOfSeeding ==
    /\ Seeding!Groups = {"application_settings", "general_settings", "email_settings", "logo_settings",
                         "footer_settings", "homepage_settings", "social_settings"}
    /\ DOMAIN Seeding!SeededOthers =
          {"application_settings", "general_settings", "email_settings", "logo_settings", "social_settings"}
    /\ \A g \in DOMAIN Seeding!SeededOthers : Seeding!SeededOthers[g] = Seeding!Inputs[g]
    /\ Seeding!SeededHomepage \subseteq Seeding!Inputs["homepage_settings"]
BY DEF Seeding!Groups, Seeding!Inputs, Seeding!SeededOthers, Seeding!SeededHomepage

LEMMA MediaAgree ==
    /\ Seeding!SeededMedia = Seeding!imageSlugList
    /\ Seeding!imageSlugList = Seeding!HomepageUploads \cup Seeding!logoSettingsInput
BY DEF Seeding!SeededMedia, Seeding!imageSlugList, Seeding!HomepageUploads, Seeding!logoSettingsInput

LEMMA InputsAreDisjoint ==
    \A g, h \in Seeding!Groups : \A k \in Seeding!Inputs[g] : k \in Seeding!Inputs[h] => g = h
<1>1. /\ Seeding!Inputs["application_settings"] = Seeding!ApplicationSettingsInput
      /\ Seeding!Inputs["general_settings"] = Seeding!generalSettingsInput
      /\ Seeding!Inputs["email_settings"] = Seeding!mailSettingsInput
      /\ Seeding!Inputs["logo_settings"] = Seeding!logoSettingsInput
      /\ Seeding!Inputs["footer_settings"] = Seeding!UsefulLinkSettingsInput
      /\ Seeding!Inputs["homepage_settings"] = Seeding!HomepageSettingsInput
      /\ Seeding!Inputs["social_settings"] = Seeding!socialSettingsInput
  BY DEF Seeding!Inputs
<1>2. \A k \in Seeding!ApplicationSettingsInput :
         k \notin Seeding!generalSettingsInput \cup Seeding!mailSettingsInput \cup Seeding!logoSettingsInput
                  \cup Seeding!UsefulLinkSettingsInput \cup Seeding!socialSettingsInput
                  \cup Seeding!HomepageSettingsInput
  BY DEF Seeding!ApplicationSettingsInput, Seeding!generalSettingsInput, Seeding!mailSettingsInput,
         Seeding!logoSettingsInput, Seeding!UsefulLinkSettingsInput, Seeding!socialSettingsInput,
         Seeding!HomepageSettingsInput, Seeding!HomepageUploads
<1>3. \A k \in Seeding!generalSettingsInput :
         k \notin Seeding!mailSettingsInput \cup Seeding!logoSettingsInput
                  \cup Seeding!UsefulLinkSettingsInput \cup Seeding!socialSettingsInput
                  \cup Seeding!HomepageSettingsInput
  BY DEF Seeding!generalSettingsInput, Seeding!mailSettingsInput,
         Seeding!logoSettingsInput, Seeding!UsefulLinkSettingsInput, Seeding!socialSettingsInput,
         Seeding!HomepageSettingsInput, Seeding!HomepageUploads
<1>4. \A k \in Seeding!mailSettingsInput :
         k \notin Seeding!logoSettingsInput \cup Seeding!UsefulLinkSettingsInput
                  \cup Seeding!socialSettingsInput \cup Seeding!HomepageSettingsInput
  BY DEF Seeding!mailSettingsInput,
         Seeding!logoSettingsInput, Seeding!UsefulLinkSettingsInput, Seeding!socialSettingsInput,
         Seeding!HomepageSettingsInput, Seeding!HomepageUploads
<1>5. \A k \in Seeding!logoSettingsInput :
         k \notin Seeding!UsefulLinkSettingsInput \cup Seeding!socialSettingsInput
                  \cup Seeding!HomepageSettingsInput
  BY DEF Seeding!logoSettingsInput, Seeding!UsefulLinkSettingsInput, Seeding!socialSettingsInput,
         Seeding!HomepageSettingsInput, Seeding!HomepageUploads
<1>6. \A k \in Seeding!UsefulLinkSettingsInput :
         k \notin Seeding!socialSettingsInput \cup Seeding!HomepageSettingsInput
  BY DEF Seeding!UsefulLinkSettingsInput, Seeding!socialSettingsInput,
         Seeding!HomepageSettingsInput, Seeding!HomepageUploads
<1>7. \A k \in Seeding!socialSettingsInput : k \notin Seeding!HomepageSettingsInput
  BY DEF Seeding!socialSettingsInput, Seeding!HomepageSettingsInput, Seeding!HomepageUploads
<1> QED BY <1>1, <1>2, <1>3, <1>4, <1>5, <1>6, <1>7, GroupsOfSeeding

RowIsRight(k, d) ==
    /\ d \in Seeding!Setting
    /\ k \in Seeding!Inputs[d.option_group]
    /\ d.media <=> k \in Seeding!imageSlugList

LEMMA SeedsAreRight ==
    ASSUME NEW k \in DOMAIN Seeding!SeededSettings PROVE RowIsRight(k, Seeding!SeededSettings[k])
<1>1. PICK d : d = Seeding!SeededSettings[k]
  OBVIOUS
<1>2. k \in Seeding!SeededHomepage \/ \E g \in DOMAIN Seeding!SeededOthers : k \in Seeding!SeededOthers[g]
  BY DEF Seeding!SeededSettings
<1>3. PICK g : g = IF k \in Seeding!SeededHomepage THEN "homepage_settings"
                   ELSE CHOOSE h \in DOMAIN Seeding!SeededOthers : k \in Seeding!SeededOthers[h]
  OBVIOUS
<1>4. k \notin Seeding!SeededHomepage => g \in DOMAIN Seeding!SeededOthers /\ k \in Seeding!SeededOthers[g]
  BY <1>2, <1>3
<1>5. g \in Seeding!Groups /\ k \in Seeding!Inputs[g]
  BY <1>3, <1>4, GroupsOfSeeding
<1>6. d = [option_group |-> g, media |-> k \in Seeding!SeededMedia, value |-> "seeded"]
  BY <1>1, <1>3 DEF Seeding!SeededSettings
<1>7. d \in Seeding!Setting /\ d.option_group = g
  <2>1. PICK media \in BOOLEAN : media = (k \in Seeding!SeededMedia)
    <3>1. (k \in Seeding!SeededMedia) \in BOOLEAN
      BY SMT
    <3> QED BY <3>1, Zenon
  <2>2. d = [option_group |-> g, media |-> media, value |-> "seeded"]
    BY <1>6, <2>1, Zenon
  <2> QED BY <1>5, <2>2 DEF Seeding!Setting, Seeding!Origin
<1>8. d.media <=> k \in Seeding!imageSlugList
  BY <1>6, MediaAgree, Zenon
<1> QED BY <1>1, <1>5, <1>7, <1>8 DEF RowIsRight

(* While staff have not created, renamed or deleted a blockchain, the       *)
(* seeded ones are at three ids in a row or not at all, and the tokens,     *)
(* which name the first three, are seeded only if those are the ids.        *)
Block(base) ==
    \A i \in 1..MaxId :
        chains[i] = IF i \in base..(base + 2) THEN Seeding!SeededChain(i - base + 1) ELSE NoRow

Arranged ==
    \/ \A i \in 1..MaxId : chains[i] = NoRow
    \/ \E base \in 1..(MaxId - 2) :
          Block(base) /\ (base # 1 => \A t \in Seeding!PaymentTokens : tokens[t] # "seeded")

SeedingInv ==
    /\ Seeding!TypeOK
    /\ \A k \in Seeding!Keys : settings[k] # NoRow => RowIsRight(k, settings[k])
    /\ \A i \in nextId..MaxId : chains[i] = NoRow
    /\ \A t \in Seeding!PaymentTokens : tokens[t] # NoRow => chains[t.blockchain_id] # NoRow
    /\ ~rearranged => Arranged

LEMMA SeedBounds == MaxId \in Nat /\ MaxId >= 3 /\ MaxEdits \in Nat
BY SeedingAssumption DEF SeedingAssumption, Seeding!BoundsAssumption

LEMMA SeedNames ==
    /\ Seeding!SeededNetworks[1] = "rinkeby" /\ Seeding!SeededNetworks[2] = "mumbai"
    /\ Seeding!SeededNetworks[3] = "bsctestnet"
    /\ \A i \in 1..3 : Seeding!SeededChain(i) \in Seeding!Blockchain /\ Seeding!SeededChain(i) # NoRow
    /\ \A i \in 1..3 : Seeding!SeededChain(i).slug = Seeding!SeededNetworks[i]
<1>1. /\ Seeding!SeededNetworks[1] = "rinkeby" /\ Seeding!SeededNetworks[2] = "mumbai"
      /\ Seeding!SeededNetworks[3] = "bsctestnet" /\ DOMAIN Seeding!SeededNetworks = 1..3
  BY DEF Seeding!SeededNetworks
<1>2. \A i \in 1..3 : Seeding!SeededNetworks[i] \in Networks
  BY <1>1, SeedingAssumption DEF SeedingAssumption, Seeding!NetworksAssumption
<1>3. \A c \in Seeding!Blockchain : c # NoRow
  BY SeedingAssumption DEF SeedingAssumption, Seeding!NetworksAssumption
<1>4. \A i \in 1..3 : /\ Seeding!SeededChain(i) \in Seeding!Blockchain
                      /\ Seeding!SeededChain(i).slug = Seeding!SeededNetworks[i]
  BY <1>2 DEF Seeding!SeededChain, Seeding!Blockchain
<1> QED BY <1>1, <1>3, <1>4

LEMMA InitSeeding == Seeding!Init => SeedingInv
<1> SUFFICES ASSUME Seeding!Init PROVE SeedingInv
  OBVIOUS
<1>1. nextId \in 1..MaxId + 1 /\ edits \in 0..MaxEdits
  BY SeedBounds DEF Seeding!Init
<1>2. settings \in [Seeding!Keys -> Seeding!Setting \cup {NoRow}]
      /\ tokens \in [Seeding!PaymentTokens -> Seeding!Origin \cup {NoRow}]
  BY DEF Seeding!Init
<1>3. chains \in [1..MaxId -> Seeding!Blockchain \cup {NoRow}]
  BY DEF Seeding!Init
<1>4. Seeding!TypeOK
  BY <1>1, <1>2, <1>3 DEF Seeding!Init, Seeding!TypeOK
<1>5. \A i \in 1..MaxId : chains[i] = NoRow
  BY DEF Seeding!Init
<1>6. \A i \in nextId..MaxId : chains[i] = NoRow
  BY <1>5, SeedBounds DEF Seeding!Init
<1>7. (\A k \in Seeding!Keys : settings[k] = NoRow) /\ \A t \in Seeding!PaymentTokens : tokens[t] = NoRow
  BY DEF Seeding!Init
<1> QED BY <1>4, <1>5, <1>6, <1>7, Zenon DEF SeedingInv, Arranged

LEMMA TokensNeedTheFirstIds ==
    /\ Seeding!PaymentTokens # {}
    /\ \A t \in Seeding!PaymentTokens : t.blockchain_id \in 1..3
    /\ \A i \in 1..3 : \E t \in Seeding!PaymentTokens : t.blockchain_id = i
    /\ \A t \in Seeding!PaymentTokens : t.token_symbol \in DOMAIN Seeding!TokenNetwork =>
          Seeding!SeededNetworks[t.blockchain_id] = Seeding!TokenNetwork[t.token_symbol]
<1>1. /\ \A t \in [blockchain_id: {1}, token_symbol: {"ETH", "WETH", "DKFT20"}] :
            t.blockchain_id = 1 /\ t.token_symbol \in {"ETH", "WETH", "DKFT20"}
      /\ \A t \in [blockchain_id: {2}, token_symbol: {"MATIC", "WMATIC", "DKFT20"}] :
            t.blockchain_id = 2 /\ t.token_symbol \in {"MATIC", "WMATIC", "DKFT20"}
      /\ \A t \in [blockchain_id: {3}, token_symbol: {"BNB", "WBNB", "DKFT20"}] :
            t.blockchain_id = 3 /\ t.token_symbol \in {"BNB", "WBNB", "DKFT20"}
  OBVIOUS
<1>2. /\ [blockchain_id |-> 1, token_symbol |-> "ETH"] \in Seeding!PaymentTokens
      /\ [blockchain_id |-> 2, token_symbol |-> "MATIC"] \in Seeding!PaymentTokens
      /\ [blockchain_id |-> 3, token_symbol |-> "BNB"] \in Seeding!PaymentTokens
  BY DEF Seeding!PaymentTokens
<1>3. \A i \in 1..3 : \E t \in Seeding!PaymentTokens : t.blockchain_id = i
  <2>1. \E t \in Seeding!PaymentTokens : t.blockchain_id = 1
    BY <1>2
  <2>2. \E t \in Seeding!PaymentTokens : t.blockchain_id = 2
    BY <1>2
  <2>3. \E t \in Seeding!PaymentTokens : t.blockchain_id = 3
    BY <1>2
  <2> QED BY <2>1, <2>2, <2>3
<1>4. \A t \in Seeding!PaymentTokens : t.blockchain_id \in 1..3
  BY <1>1 DEF Seeding!PaymentTokens
<1>5. \A t \in Seeding!PaymentTokens : t.token_symbol \in DOMAIN Seeding!TokenNetwork =>
          Seeding!SeededNetworks[t.blockchain_id] = Seeding!TokenNetwork[t.token_symbol]
  <2>1. /\ DOMAIN Seeding!TokenNetwork = {"ETH", "WETH", "MATIC", "WMATIC", "BNB", "WBNB"}
        /\ Seeding!TokenNetwork["ETH"] = "rinkeby" /\ Seeding!TokenNetwork["WETH"] = "rinkeby"
        /\ Seeding!TokenNetwork["MATIC"] = "mumbai" /\ Seeding!TokenNetwork["WMATIC"] = "mumbai"
        /\ Seeding!TokenNetwork["BNB"] = "bsctestnet" /\ Seeding!TokenNetwork["WBNB"] = "bsctestnet"
    BY DEF Seeding!TokenNetwork
  <2> QED BY <1>1, <2>1, SeedNames DEF Seeding!PaymentTokens
<1> QED BY <1>2, <1>3, <1>4, <1>5

LEMMA NoRowIsNoOrigin == "seeded" # NoRow /\ "saved" # NoRow
BY SeedingAssumption DEF SeedingAssumption, Seeding!NetworksAssumption, Seeding!Origin

LEMMA SeedingSound ==
    SeedingInv => /\ Seeding!EveryKeyCanBeSaved /\ Seeding!MediaRowsAreUploads
                  /\ Seeding!TokensAreOnTheirChain
<1> SUFFICES ASSUME SeedingInv PROVE /\ Seeding!EveryKeyCanBeSaved /\ Seeding!MediaRowsAreUploads
                                     /\ Seeding!TokensAreOnTheirChain
  OBVIOUS
<1>1. Seeding!EveryKeyCanBeSaved
  <2>1. ASSUME NEW g \in Seeding!Groups, NEW k \in Seeding!Inputs[g], settings[k] # NoRow
        PROVE  settings[k].option_group = g
    <3>1. k \in Seeding!Keys
      BY DEF Seeding!Keys, Seeding!Groups
    <3>2. settings[k].option_group \in Seeding!Groups /\ k \in Seeding!Inputs[settings[k].option_group]
      BY <2>1, <3>1 DEF SeedingInv, RowIsRight, Seeding!Setting
    <3> QED BY <3>2, InputsAreDisjoint
  <2> QED BY <2>1 DEF Seeding!EveryKeyCanBeSaved
<1>2. Seeding!MediaRowsAreUploads
  BY MediaAgree, Zenon DEF SeedingInv, RowIsRight, Seeding!MediaRowsAreUploads
<1>3. ASSUME ~rearranged, NEW t \in Seeding!PaymentTokens, tokens[t] = "seeded",
             t.token_symbol \in DOMAIN Seeding!TokenNetwork
      PROVE  /\ chains[t.blockchain_id] # NoRow
             /\ chains[t.blockchain_id].slug = Seeding!TokenNetwork[t.token_symbol]
  <2>1. t.blockchain_id \in 1..3 /\ t.blockchain_id \in 1..MaxId
    BY TokensNeedTheFirstIds, SeedBounds
  <2>2. chains[t.blockchain_id] # NoRow
    BY <1>3, NoRowIsNoOrigin DEF SeedingInv
  <2>3. Block(1)
    BY <1>3, <2>1, <2>2 DEF SeedingInv, Arranged
  <2>4. chains[t.blockchain_id] = Seeding!SeededChain(t.blockchain_id - 1 + 1)
    BY <2>1, <2>3 DEF Block
  <2>5. t.blockchain_id - 1 + 1 = t.blockchain_id
    BY <2>1
  <2>6. chains[t.blockchain_id].slug = Seeding!SeededNetworks[t.blockchain_id]
    BY <2>1, <2>4, <2>5, SeedNames
  <2> QED BY <1>3, <2>2, <2>6, TokensNeedTheFirstIds
<1> QED BY <1>1, <1>2, <1>3 DEF Seeding!TokensAreOnTheirChain

(* A step that leaves chains, tokens and the sequence alone. *)
LEMMA SettingsOfSeeding ==
    ASSUME SeedingInv, UNCHANGED <<chains, tokens, nextId, rearranged>>,
           main' \in {"off", "staffs", "settings", "blockchains", "tokens", "exit 0"},
           admin' \in Seeding!Origin \cup {NoRow}, edits' \in 0..MaxEdits,
           NEW new \in [Seeding!Keys -> Seeding!Setting \cup {NoRow}], settings' = new,
           \A k \in Seeding!Keys : new[k] # NoRow => RowIsRight(k, new[k])
    PROVE  SeedingInv'
<1>1. Seeding!TypeOK'
  BY DEF SeedingInv, Seeding!TypeOK
<1>2. (\A k \in Seeding!Keys : settings[k] # NoRow => RowIsRight(k, settings[k]))'
  BY DEF RowIsRight
<1> QED BY <1>1, <1>2 DEF SeedingInv, Arranged, Block

LEMMA FirstIdOfBlock ==
    ASSUME NEW base \in 1..(MaxId - 2), Block(base), base # 1 PROVE chains[1] = NoRow
<1>1. 1 \in 1..MaxId /\ 1 \notin base..(base + 2)
  BY SeedBounds
<1> QED BY <1>1, Zenon DEF Block

(* A step that changes tokens only: each that has a row has its blockchain, *)
(* and one is seeded only if it was or if the ids are the first three.     *)
LEMMA TokensOfSeeding ==
    ASSUME SeedingInv, UNCHANGED <<admin, settings, chains, nextId, rearranged>>,
           main' \in {"off", "staffs", "settings", "blockchains", "tokens", "exit 0"},
           edits' \in 0..MaxEdits,
           tokens' \in [Seeding!PaymentTokens -> Seeding!Origin \cup {NoRow}],
           \A t \in Seeding!PaymentTokens : tokens'[t] # NoRow => chains[t.blockchain_id] # NoRow,
           \A t \in Seeding!PaymentTokens : tokens'[t] = "seeded" => tokens[t] = "seeded" \/ chains[1] # NoRow
    PROVE  SeedingInv'
<1>1. Seeding!TypeOK'
  BY DEF SeedingInv, Seeding!TypeOK
<1>2. ASSUME ~rearranged PROVE Arranged'
  <2>1. CASE \A i \in 1..MaxId : chains[i] = NoRow
    BY <2>1 DEF Arranged
  <2>2. ASSUME NEW base \in 1..(MaxId - 2), Block(base),
               base # 1 => \A t \in Seeding!PaymentTokens : tokens[t] # "seeded"
        PROVE  Arranged'
    <3>1. base # 1 => chains[1] = NoRow
      BY <2>2, FirstIdOfBlock
    <3>2. base # 1 => \A t \in Seeding!PaymentTokens : tokens'[t] # "seeded"
      BY <2>2, <3>1
    <3>3. Block(base)'
      BY <2>2 DEF Block
    <3> QED BY <3>2, <3>3 DEF Arranged
  <2> QED BY <1>2, <2>1, <2>2 DEF SeedingInv, Arranged
<1> QED BY <1>1, <1>2 DEF SeedingInv, RowIsRight

LEMMA SeededChains ==
    ASSUME SeedingInv, Seeding!seedBlockchain
    PROVE  /\ chains' \in [1..MaxId -> Seeding!Blockchain \cup {NoRow}]
           /\ \A i \in 1..MaxId : chains[i] # NoRow => chains'[i] = chains[i]
           /\ \A i \in nextId'..MaxId : chains'[i] = NoRow
           /\ ~rearranged => Arranged'
<1>a. /\ nextId \in 1..MaxId + 1 /\ nextId + 2 <= MaxId /\ nextId' = nextId + 3 /\ tokens' = tokens
      /\ chains \in [1..MaxId -> Seeding!Blockchain \cup {NoRow}]
      /\ chains' = [i \in 1..MaxId |->
            IF i \in nextId..nextId + 2 /\ ~Seeding!Collides(i, Seeding!SeededChain(i - nextId + 1))
              THEN Seeding!SeededChain(i - nextId + 1) ELSE chains[i]]
  BY DEF Seeding!seedBlockchain, SeedingInv, Seeding!TypeOK
<1>b. \A i \in nextId..nextId + 2 : i - nextId + 1 \in 1..3 /\ i \in nextId..MaxId
  BY <1>a, SeedBounds
<1>c. \A i \in nextId..MaxId : chains[i] = NoRow
  BY DEF SeedingInv
<1>d. \A i \in 1..MaxId :
         chains'[i] = IF i \in nextId..nextId + 2 /\ ~Seeding!Collides(i, Seeding!SeededChain(i - nextId + 1))
                        THEN Seeding!SeededChain(i - nextId + 1) ELSE chains[i]
  BY <1>a
<1>1. chains' \in [1..MaxId -> Seeding!Blockchain \cup {NoRow}]
  BY <1>a, <1>b, SeedNames
<1>2. \A i \in 1..MaxId : chains[i] # NoRow => chains'[i] = chains[i]
  BY <1>b, <1>c, <1>d
<1>3. \A i \in nextId'..MaxId : chains'[i] = NoRow
  BY <1>a, <1>c, <1>d, SeedBounds
<1>4. ASSUME ~rearranged PROVE Arranged'
  <2>1. CASE \A i \in 1..MaxId : chains[i] = NoRow
    <3>1. \A i, n \in 1..MaxId : ~Seeding!Collides(i, Seeding!SeededChain(n))
      BY <2>1 DEF Seeding!Collides
    <3>2. 1..3 \subseteq 1..MaxId
      BY SeedBounds
    <3>3. \A i \in 1..MaxId : chains'[i] = IF i \in nextId..nextId + 2
                                              THEN Seeding!SeededChain(i - nextId + 1) ELSE NoRow
      BY <1>b, <1>d, <2>1, <3>1, <3>2
    <3>4. \A t \in Seeding!PaymentTokens : tokens'[t] # "seeded"
      BY <1>a, <2>1, <3>2, TokensNeedTheFirstIds, NoRowIsNoOrigin DEF SeedingInv
    <3>5. PICK base \in 1..(MaxId - 2) : base = nextId
      BY <1>a, SeedBounds
    <3>6. Block(base)'
      BY <3>3, <3>5 DEF Block
    <3> QED BY <3>4, <3>6 DEF Arranged
  <2>2. ASSUME NEW base \in 1..(MaxId - 2), Block(base),
               base # 1 => \A t \in Seeding!PaymentTokens : tokens[t] # "seeded"
        PROVE  Arranged'
    <3>1. \A n \in 1..3 : /\ base + n - 1 \in 1..MaxId /\ base + n - 1 \in base..(base + 2)
                          /\ base + n - 1 - base + 1 = n
      BY SeedBounds
    <3>2. \A n \in 1..3 : chains[base + n - 1] = Seeding!SeededChain(n)
      BY <2>2, <3>1 DEF Block
    <3>3. ASSUME NEW i \in nextId..nextId + 2
          PROVE  Seeding!Collides(i, Seeding!SeededChain(i - nextId + 1))
      <4>1. PICK n \in 1..3 : n = i - nextId + 1
        BY <1>b
      <4>2. chains[base + n - 1] # NoRow /\ chains[base + n - 1].slug = Seeding!SeededChain(n).slug
        BY <3>2, SeedNames
      <4>3. base + n - 1 \in 1..MaxId \ {i}
        BY <1>b, <1>c, <3>1, <4>2
      <4> QED BY <4>1, <4>2, <4>3 DEF Seeding!Collides
    <3>4. \A i \in 1..MaxId : chains'[i] = chains[i]
      BY <1>d, <3>3
    <3>5. chains' = chains
      BY <1>a, <1>1, <3>4
    <3>6. Block(base)'
      BY <2>2, <3>5 DEF Block
    <3> QED BY <1>a, <2>2, <3>6 DEF Arranged
  <2> QED BY <1>4, <2>1, <2>2 DEF SeedingInv, Arranged
<1> QED BY <1>1, <1>2, <1>3, <1>4

LEMMA NextSeeding == SeedingInv /\ [Seeding!Next]_(Seeding!vars) => SeedingInv'
<1> SUFFICES ASSUME SeedingInv, [Seeding!Next]_(Seeding!vars) PROVE SeedingInv'
  OBVIOUS
<1>a. /\ settings \in [Seeding!Keys -> Seeding!Setting \cup {NoRow}]
      /\ \A k \in Seeding!Keys : settings[k] # NoRow => RowIsRight(k, settings[k])
      /\ main \in {"off", "staffs", "settings", "blockchains", "tokens", "exit 0"}
      /\ admin \in Seeding!Origin \cup {NoRow} /\ edits \in 0..MaxEdits
      /\ chains \in [1..MaxId -> Seeding!Blockchain \cup {NoRow}] /\ nextId \in 1..MaxId + 1
      /\ tokens \in [Seeding!PaymentTokens -> Seeding!Origin \cup {NoRow}] /\ rearranged \in BOOLEAN
      /\ \A t \in Seeding!PaymentTokens : tokens[t] # NoRow => chains[t.blockchain_id] # NoRow
  BY DEF SeedingInv, Seeding!TypeOK
<1>t. \A t \in Seeding!PaymentTokens : t.blockchain_id \in 1..MaxId
  BY TokensNeedTheFirstIds, SeedBounds
<1>b. MaxId \in Int /\ nextId \in Int /\ 1 <= nextId /\ nextId <= MaxId + 1 /\ MaxEdits \in Int
  <2>1. nextId \in 1..MaxId + 1
    BY <1>a
  <2> QED BY <2>1, SeedBounds
<1>c. ASSUME Seeding!Edit PROVE edits' \in 0..MaxEdits
  <2>1. edits \in 0..MaxEdits
    BY <1>a
  <2> QED BY <1>b, <1>c, <2>1 DEF Seeding!Edit
<1>1. CASE Seeding!start
  BY <1>1, <1>a, SettingsOfSeeding DEF Seeding!start
<1>2. CASE Seeding!seedStaffs
  BY <1>2, <1>a, SettingsOfSeeding DEF Seeding!seedStaffs, Seeding!Origin
<1>3. CASE Seeding!settingsSeeder
  <2>1. PICK new : new = [k \in Seeding!Keys |-> IF settings[k] = NoRow /\ k \in DOMAIN Seeding!SeededSettings
                                                   THEN Seeding!SeededSettings[k] ELSE settings[k]]
    OBVIOUS
  <2>2. \A k \in Seeding!Keys : \/ new[k] = settings[k]
                                \/ k \in DOMAIN Seeding!SeededSettings /\ new[k] = Seeding!SeededSettings[k]
    BY <2>1
  <2>3. \A k \in Seeding!Keys : new[k] # NoRow => RowIsRight(k, new[k])
    BY <1>a, <2>2, SeedsAreRight
  <2>4. new \in [Seeding!Keys -> Seeding!Setting \cup {NoRow}]
    BY <2>1, <2>3 DEF RowIsRight
  <2>5. settings' = new /\ main' \in {"blockchains", "exit 0"}
        /\ UNCHANGED <<admin, chains, nextId, tokens, edits, rearranged>>
    BY <1>3, <2>1 DEF Seeding!settingsSeeder
  <2> QED BY <1>a, <2>3, <2>4, <2>5, SettingsOfSeeding
<1>4. CASE Seeding!seedBlockchain
  <2>1. nextId + 2 <= MaxId /\ nextId' = nextId + 3 /\ main' = "tokens"
        /\ UNCHANGED <<admin, settings, tokens, edits, rearranged>>
    BY <1>4 DEF Seeding!seedBlockchain
  <2>2. nextId \in 1..(MaxId - 2) /\ nextId' \in 1..MaxId + 1
    BY <1>b, <2>1
  <2>3. Seeding!TypeOK'
    BY <1>4, <1>a, <2>1, <2>2, SeededChains DEF Seeding!TypeOK
  <2>4. (\A t \in Seeding!PaymentTokens : tokens[t] # NoRow => chains[t.blockchain_id] # NoRow)'
    BY <1>4, <1>a, <1>t, <2>1, SeededChains
  <2>5. (\A k \in Seeding!Keys : settings[k] # NoRow => RowIsRight(k, settings[k]))'
    BY <1>a, <2>1 DEF RowIsRight
  <2>6. (\A i \in nextId..MaxId : chains[i] = NoRow)' /\ (~rearranged' => Arranged')
    BY <1>4, <2>1, SeededChains
  <2> QED BY <2>3, <2>4, <2>5, <2>6 DEF SeedingInv
<1>5. CASE Seeding!seedBlockchainFails
  <2>1. nextId' \in nextId..nextId + 3 /\ nextId' <= MaxId /\ main' = "off"
        /\ UNCHANGED <<admin, settings, chains, tokens, edits, rearranged>>
    BY <1>5 DEF Seeding!seedBlockchainFails
  <2>2. nextId' \in 1..MaxId + 1 /\ \A i \in nextId'..MaxId : i \in nextId..MaxId
    BY <1>b, <2>1
  <2>3. Seeding!TypeOK'
    BY <1>a, <2>1, <2>2 DEF Seeding!TypeOK
  <2> QED BY <2>1, <2>2, <2>3 DEF SeedingInv, Arranged, Block, RowIsRight
<1>6. CASE Seeding!seedPaymentToken
  <2>1. UNCHANGED <<admin, settings, chains, nextId, edits, rearranged>> /\ main' \in {"exit 0", "off"}
    BY <1>6 DEF Seeding!seedPaymentToken
  <2>2. CASE tokens' = tokens
    BY <1>a, <2>1, <2>2, SettingsOfSeeding
  <2>3. CASE /\ \A t \in Seeding!PaymentTokens : tokens[t] = NoRow => chains[t.blockchain_id] # NoRow
             /\ tokens' = [t \in Seeding!PaymentTokens |-> IF tokens[t] = NoRow THEN "seeded" ELSE tokens[t]]
    <3>1. \A t \in Seeding!PaymentTokens : chains[t.blockchain_id] # NoRow
      BY <1>a, <2>3
    <3>2. chains[1] # NoRow
      BY <3>1, TokensNeedTheFirstIds
    <3>3. tokens' \in [Seeding!PaymentTokens -> Seeding!Origin \cup {NoRow}]
      BY <1>a, <2>3 DEF Seeding!Origin
    <3> QED BY <1>a, <2>1, <3>1, <3>2, <3>3, TokensOfSeeding
  <2> QED BY <1>6, <2>2, <2>3 DEF Seeding!seedPaymentToken
<1>7. CASE Seeding!crash
  BY <1>7, <1>a, SettingsOfSeeding DEF Seeding!crash
<1>8. ASSUME NEW g \in Seeding!Groups, NEW k \in Seeding!Inputs[g], Seeding!saveSetting(g, k) PROVE SeedingInv'
  <2>1. PICK media \in BOOLEAN : media = (k \in Seeding!imageSlugList)
    <3>1. (k \in Seeding!imageSlugList) \in BOOLEAN
      BY SMT
    <3> QED BY <3>1, Zenon
  <2>2. PICK d : d = [option_group |-> g, media |-> media, value |-> "saved"]
    OBVIOUS
  <2>3. settings' = [settings EXCEPT ![k] = d]
    <3>1. d = [option_group |-> g, media |-> k \in Seeding!imageSlugList, value |-> "saved"]
      BY <2>1, <2>2, Zenon
    <3>2. settings' = [settings EXCEPT ![k] =
             [option_group |-> g, media |-> k \in Seeding!imageSlugList, value |-> "saved"]]
      BY <1>8, Zenon DEF Seeding!saveSetting
    <3> QED BY <3>1, <3>2, Zenon
  <2>4. RowIsRight(k, d)
    <3>1. d \in Seeding!Setting /\ d.option_group = g /\ d.media = media
      BY <2>2 DEF Seeding!Setting, Seeding!Origin
    <3>2. d.media <=> k \in Seeding!imageSlugList
      BY <2>1, <3>1, Zenon
    <3> QED BY <3>1, <3>2, Zenon DEF RowIsRight
  <2>5. k \in Seeding!Keys
    BY DEF Seeding!Keys, Seeding!Groups
  <2>6. PICK new : new = [settings EXCEPT ![k] = d]
    OBVIOUS
  <2>7. \A j \in Seeding!Keys : new[j] = IF j = k THEN d ELSE settings[j]
    BY <1>a, <2>6
  <2>8. new \in [Seeding!Keys -> Seeding!Setting \cup {NoRow}]
    BY <1>a, <2>4, <2>6 DEF RowIsRight
  <2>9. \A j \in Seeding!Keys : new[j] # NoRow => RowIsRight(j, new[j])
    BY <1>a, <2>4, <2>7
  <2>10. UNCHANGED <<main, admin, chains, nextId, tokens, rearranged>>
    BY <1>8 DEF Seeding!saveSetting
  <2>11. edits' \in 0..MaxEdits
    BY <1>8, <1>c DEF Seeding!saveSetting
  <2> QED BY <1>a, <2>3, <2>6, <2>8, <2>9, <2>10, <2>11, SettingsOfSeeding
<1>9. CASE Seeding!changeAdmin \/ Seeding!loseAdmin
  <2>1. /\ edits' \in 0..MaxEdits /\ admin' \in Seeding!Origin \cup {NoRow}
        /\ UNCHANGED <<main, settings, chains, nextId, tokens, rearranged>>
    BY <1>9, <1>c DEF Seeding!changeAdmin, Seeding!loseAdmin, Seeding!Origin
  <2> QED BY <1>a, <2>1, SettingsOfSeeding
<1>10. ASSUME NEW c \in Seeding!Blockchain, Seeding!createBlockchain(c) PROVE SeedingInv'
  <2>1. /\ nextId <= MaxId /\ chains' = [chains EXCEPT ![nextId] = c] /\ nextId' = nextId + 1
        /\ rearranged' = TRUE /\ UNCHANGED <<main, admin, settings, tokens>>
    BY <1>10 DEF Seeding!createBlockchain
  <2>2. nextId' \in 1..MaxId + 1 /\ nextId \in 1..MaxId /\ \A i \in nextId'..MaxId : i \in nextId..MaxId /\ i # nextId
    BY <1>b, <2>1
  <2>3. Seeding!TypeOK'
    BY <1>10, <1>a, <1>c, <2>1, <2>2 DEF Seeding!TypeOK, Seeding!createBlockchain
  <2>4. \A i \in nextId'..MaxId : chains[i] = NoRow /\ i \in 1..MaxId
    BY <1>b, <2>1, <2>2 DEF SeedingInv
  <2>5. \A i \in nextId'..MaxId : chains'[i] = NoRow
    BY <1>a, <2>1, <2>2, <2>4
  <2>6. c # NoRow /\ \A i \in 1..MaxId : chains'[i] = IF i = nextId THEN c ELSE chains[i]
    BY <1>a, <2>1, SeedingAssumption DEF SeedingAssumption, Seeding!NetworksAssumption
  <2>7. \A t \in Seeding!PaymentTokens : tokens'[t] # NoRow => chains'[t.blockchain_id] # NoRow
    BY <1>a, <1>t, <2>1, <2>6
  <2> QED BY <2>1, <2>3, <2>5, <2>7 DEF SeedingInv, RowIsRight
<1>11. ASSUME NEW c \in Seeding!Blockchain, NEW i \in 1..MaxId, Seeding!updateBlockchain(i, c) PROVE SeedingInv'
  <2>1. /\ chains[i] # NoRow /\ chains' = [chains EXCEPT ![i] = c]
        /\ rearranged' = TRUE /\ UNCHANGED <<main, admin, settings, nextId, tokens>>
    BY <1>11 DEF Seeding!updateBlockchain
  <2>2. Seeding!TypeOK'
    BY <1>11, <1>a, <1>c, <2>1 DEF Seeding!TypeOK, Seeding!updateBlockchain
  <2>3. c # NoRow /\ \A j \in 1..MaxId : chains'[j] = IF j = i THEN c ELSE chains[j]
    BY <1>a, <2>1, SeedingAssumption DEF SeedingAssumption, Seeding!NetworksAssumption
  <2>4. \A j \in nextId'..MaxId : chains[j] = NoRow /\ j \in 1..MaxId
    BY <1>b, <2>1 DEF SeedingInv
  <2>5. \A j \in nextId'..MaxId : chains'[j] = NoRow
    BY <2>1, <2>3, <2>4
  <2>6. \A t \in Seeding!PaymentTokens : tokens'[t] # NoRow => chains'[t.blockchain_id] # NoRow
    BY <1>a, <1>t, <2>1, <2>3
  <2> QED BY <2>1, <2>2, <2>5, <2>6 DEF SeedingInv, RowIsRight
<1>12. ASSUME NEW i \in 1..MaxId, Seeding!deleteBlockchain(i) PROVE SeedingInv'
  <2>1. /\ \A t \in Seeding!PaymentTokens : t.blockchain_id = i => tokens[t] = NoRow
        /\ chains' = [chains EXCEPT ![i] = NoRow]
        /\ rearranged' = TRUE /\ UNCHANGED <<main, admin, settings, tokens, nextId>>
    BY <1>12 DEF Seeding!deleteBlockchain
  <2>2. Seeding!TypeOK'
    BY <1>12, <1>a, <1>c, <2>1 DEF Seeding!TypeOK, Seeding!deleteBlockchain
  <2>3. \A j \in nextId'..MaxId : chains[j] = NoRow /\ j \in 1..MaxId
    BY <1>b, <2>1 DEF SeedingInv
  <2>4. \A j \in 1..MaxId : chains'[j] = IF j = i THEN NoRow ELSE chains[j]
    BY <1>a, <2>1
  <2>5. \A j \in nextId'..MaxId : chains'[j] = NoRow
    BY <2>3, <2>4
  <2>6. \A t \in Seeding!PaymentTokens : tokens'[t] # NoRow => chains'[t.blockchain_id] # NoRow
    BY <1>a, <1>t, <2>1, <2>4
  <2> QED BY <2>1, <2>2, <2>5, <2>6 DEF SeedingInv, RowIsRight
<1>13. ASSUME NEW t \in Seeding!PaymentTokens, Seeding!savePaymentToken(t) \/ Seeding!changePaymentToken(t)
       PROVE SeedingInv'
  <2>1. edits' \in 0..MaxEdits /\ UNCHANGED <<main, admin, settings, chains, nextId, rearranged>>
    BY <1>13, <1>c DEF Seeding!savePaymentToken, Seeding!changePaymentToken
  <2>2. /\ tokens' \in [Seeding!PaymentTokens -> Seeding!Origin \cup {NoRow}]
        /\ \A u \in Seeding!PaymentTokens :
              \/ tokens'[u] = tokens[u] \/ tokens'[u] = NoRow
              \/ u = t /\ tokens'[u] = "saved" /\ chains[t.blockchain_id] # NoRow
    BY <1>13, <1>a DEF Seeding!savePaymentToken, Seeding!changePaymentToken, Seeding!Origin
  <2>3. \A u \in Seeding!PaymentTokens : tokens'[u] # NoRow => chains[u.blockchain_id] # NoRow
    BY <1>a, <2>2
  <2>4. \A u \in Seeding!PaymentTokens : tokens'[u] = "seeded" => tokens[u] = "seeded"
    BY <2>2, NoRowIsNoOrigin
  <2> QED BY <1>a, <2>1, <2>2, <2>3, <2>4, TokensOfSeeding
<1>14. CASE UNCHANGED Seeding!vars
  BY <1>14, <1>a, SettingsOfSeeding DEF Seeding!vars
<1> QED BY <1>1, <1>2, <1>3, <1>4, <1>5, <1>6, <1>7, <1>8, <1>9, <1>10, <1>11, <1>12, <1>13, <1>14
        DEF Seeding!Next, Seeding!Seed

LEMMA RowsKept == SeedingInv /\ [Seeding!Next]_(Seeding!vars) => Seeding!StepKeepsRows
<1> SUFFICES ASSUME SeedingInv, [Seeding!Next]_(Seeding!vars), main' # main PROVE Seeding!StepKeepsRows
  BY DEF Seeding!StepKeepsRows
<1> USE DEF Seeding!Kept
<1>a. DOMAIN chains = 1..MaxId
  BY DEF SeedingInv, Seeding!TypeOK
<1>1. CASE Seeding!start
  BY <1>1 DEF Seeding!start, Seeding!StepKeepsRows
<1>2. CASE Seeding!seedStaffs
  BY <1>2 DEF Seeding!seedStaffs, Seeding!StepKeepsRows
<1>3. CASE Seeding!settingsSeeder
  BY <1>3 DEF Seeding!settingsSeeder, Seeding!StepKeepsRows
<1>4. CASE Seeding!seedBlockchain
  <2>1. UNCHANGED <<admin, settings, tokens>>
    BY <1>4 DEF Seeding!seedBlockchain
  <2> QED BY <1>4, <1>a, <2>1, SeededChains DEF Seeding!StepKeepsRows
<1>5. CASE Seeding!seedBlockchainFails
  BY <1>5 DEF Seeding!seedBlockchainFails, Seeding!StepKeepsRows
<1>6. CASE Seeding!seedPaymentToken
  BY <1>6, <1>a DEF Seeding!seedPaymentToken, Seeding!StepKeepsRows
<1>7. CASE Seeding!crash
  BY <1>7 DEF Seeding!crash, Seeding!StepKeepsRows
<1>8. /\ \A g \in Seeding!Groups : \A k \in Seeding!Inputs[g] : ~Seeding!saveSetting(g, k)
      /\ ~Seeding!changeAdmin /\ ~Seeding!loseAdmin
      /\ \A c \in Seeding!Blockchain : ~Seeding!createBlockchain(c)
      /\ \A c \in Seeding!Blockchain : \A i \in 1..MaxId : ~Seeding!updateBlockchain(i, c)
      /\ \A i \in 1..MaxId : ~Seeding!deleteBlockchain(i)
      /\ \A t \in Seeding!PaymentTokens : ~Seeding!savePaymentToken(t) /\ ~Seeding!changePaymentToken(t)
  BY DEF Seeding!saveSetting, Seeding!changeAdmin, Seeding!loseAdmin, Seeding!createBlockchain,
         Seeding!updateBlockchain, Seeding!deleteBlockchain, Seeding!savePaymentToken,
         Seeding!changePaymentToken
<1> QED BY <1>1, <1>2, <1>3, <1>4, <1>5, <1>6, <1>7, <1>8 DEF Seeding!Next, Seeding!Seed, Seeding!vars

(* The run bounds the edits; here staff save settings, create, rename and   *)
(* delete rows in any order and number, beside a seeding that runs again    *)
(* and again and stops anywhere.                                           *)
THEOREM SeedsUnderAllEdits ==
    Seeding!Spec => /\ Seeding!SeedingKeepsRows
                    /\ []Seeding!EveryKeyCanBeSaved /\ []Seeding!MediaRowsAreUploads
                    /\ []Seeding!TokensAreOnTheirChain
<1>1. SeedingInv /\ [Seeding!Next]_(Seeding!vars) => [Seeding!StepKeepsRows]_(Seeding!vars)
  BY RowsKept
<1> QED BY <1>1, SeedingSound, InitSeeding, NextSeeding, PTL
        DEF Seeding!Spec, Seeding!SeedingKeepsRows

--------------------------------------------------------------------------------
(* Nonces.  As long as no mint with a nonce has failed, every nonce between *)
(* the chain's count and a row's value, or a value that was read of a row, *)
(* is on its way; a row that says 0 tells nothing.  Without an overlap     *)
(* there is one row, no nonce is above it, and who has read it read the    *)
(* value it still has.                                                     *)

OnItsWay(i) == \E n \in Nonces!HasNonce : mint[n].nonce = i /\ mint[n].at \in {"sending", "sent"}

NoFailure == \A m \in Nonces!HasNonce : mint[m].at # "failed"

MintsInv ==
    \A m \in Mints :
        /\ mint[m].at \in {"idle", "counted", "creating", "found"} => mint[m].nonce = None
        /\ mint[m].at \in {"sending", "sent", "confirming", "returned"} => mint[m].nonce # None
        /\ mint[m].at \in {"counted", "creating", "found"} => mint[m].count <= txCount
        /\ mint[m].at = "found" => mint[m].row \in DOMAIN txNonce

CoverInv ==
    NoFailure =>
        /\ \A j \in DOMAIN txNonce : txNonce[j] # 0 => \A i \in txCount..txNonce[j] : OnItsWay(i)
        /\ \A m \in Mints : mint[m].at = "found" /\ mint[m].seen # 0
                               => \A i \in txCount..mint[m].seen : OnItsWay(i)
        /\ \A m \in Nonces!HasNonce : \A i \in txCount..(mint[m].nonce - 1) : OnItsWay(i)

OneRowInv ==
    ~mintsOverlapped =>
        /\ \A m, n \in Mints : Nonces!InGetLatestNonce(m) /\ Nonces!InGetLatestNonce(n) => m = n
        /\ Len(txNonce) <= 1
        /\ \A m \in Mints : mint[m].at = "creating" => txNonce = <<>>
        /\ \A m \in Mints : mint[m].at = "found" => mint[m].row = 1 /\ mint[m].seen = txNonce[1]
        /\ \A m \in Nonces!HasNonce : mint[m].nonce <= txNonce[1]

NoncesInv ==
    Nonces!TypeOK /\ MintsInv /\ CoverInv /\ OneRowInv /\ Nonces!SharedNonceNeedsOverlap

LEMMA InitNonces == Nonces!Init => NoncesInv
<1> SUFFICES ASSUME Nonces!Init PROVE NoncesInv
  OBVIOUS
<1>1. Nonces!HasNonce = {}
  BY DEF Nonces!Init, Nonces!HasNonce
<1>2. \A m \in Mints : mint[m].at = "idle" /\ mint[m].nonce = None
  BY DEF Nonces!Init
<1>3. /\ FirstCount \in Nat /\ MaxOthers \in Nat /\ BLOCK_CONFIRMATION_TO_WAIT \in Nat
  BY NoncesAssumption DEF NoncesAssumption, Nonces!ConstantsAssumption
<1>4. mint \in [Mints -> Nonces!Mint]
  BY <1>3 DEF Nonces!Init, Nonces!Mint
<1>5. txNonce \in Seq(Nat) /\ Len(txNonce) = 0 /\ DOMAIN txNonce = {}
  BY DEF Nonces!Init
<1>6. Nonces!TypeOK
  <2>1. txCount \in Nat /\ others \in 0..MaxOthers
    BY <1>3 DEF Nonces!Init
  <2>2. pool \subseteq Nonces!HasNonce /\ mintsOverlapped \in BOOLEAN
    BY DEF Nonces!Init
  <2> QED BY <1>1, <1>4, <1>5, <2>1, <2>2, Zenon DEF Nonces!TypeOK
<1> QED BY <1>1, <1>2, <1>5, <1>6
        DEF NoncesInv, MintsInv, CoverInv, OneRowInv, Nonces!SharedNonceNeedsOverlap, Nonces!InGetLatestNonce

LEMMA MintShape ==
    ASSUME NoncesInv, NEW m \in Mints
    PROVE  /\ mint[m] \in Nonces!Mint
           /\ mint[m].count \in Nat /\ mint[m].seen \in Nat /\ mint[m].row \in Nat
           /\ mint[m].nonce \in Nat \cup {None} /\ (m \in Nonces!HasNonce <=> mint[m].nonce # None)
           /\ m \in Nonces!HasNonce => mint[m].nonce \in Nat
           /\ mint[m].at \in {"idle", "counted", "creating", "found", "sending", "sent", "confirming",
                              "returned", "failed"}
BY DEF NoncesInv, Nonces!TypeOK, Nonces!Mint, Nonces!HasNonce

(* A step in which no mint gets a nonce or reads one: calls go on, fail or  *)
(* are mined, and blocks are made.                                         *)
Forward(m, at, nextAt) ==
    \/ nextAt = at
    \/ at = "idle" /\ nextAt = "failed"
    \/ at = "sending" /\ nextAt \in {"sent", "failed"}
    \/ at = "sent" /\ nextAt = "failed"
    \/ at = "sent" /\ nextAt = "confirming" /\ mint[m].nonce < txCount'
    \/ at = "confirming" /\ nextAt = "returned"

LEMMA MintsGoOn ==
    ASSUME NoncesInv, txNonce' = txNonce, txCount' \in Nat, txCount <= txCount', others' \in 0..MaxOthers,
           pool' \subseteq Nonces!HasNonce, mintsOverlapped' = mintsOverlapped,
           mint' \in [Mints -> Nonces!Mint],
           \A m \in Mints : /\ mint'[m].nonce = mint[m].nonce /\ mint'[m].count = mint[m].count
                            /\ mint'[m].row = mint[m].row /\ mint'[m].seen = mint[m].seen
                            /\ Forward(m, mint[m].at, mint'[m].at)
    PROVE  NoncesInv'
<1>a. Nonces!TypeOK /\ txCount \in Nat /\ txNonce \in Seq(Nat)
  BY DEF NoncesInv, Nonces!TypeOK
<1>1. Nonces!HasNonce' = Nonces!HasNonce
  BY DEF Nonces!HasNonce
<1>2. Nonces!TypeOK'
  <2>1. mintsOverlapped' \in BOOLEAN
    BY <1>a, Zenon DEF Nonces!TypeOK
  <2>2. \A m \in Nonces!HasNonce' : mint'[m].row \in DOMAIN txNonce'
    BY <1>1, <1>a DEF Nonces!TypeOK, Nonces!HasNonce
  <2>3. pool' \subseteq Nonces!HasNonce' /\ txNonce' \in Seq(Nat)
    BY <1>1, <1>a
  <2> QED BY <2>1, <2>2, <2>3, Zenon DEF Nonces!TypeOK
<1>3. MintsInv'
  <2>1. ASSUME NEW m \in Mints
        PROVE  /\ mint'[m].at \in {"idle", "counted", "creating", "found"} => mint'[m].at = mint[m].at
               /\ mint'[m].at \in {"sending", "sent", "confirming", "returned"}
                     => mint[m].at \in {"sending", "sent", "confirming", "returned"}
    BY DEF Forward
  <2>2. \A m \in Mints : mint[m].count \in Nat
    BY MintShape
  <2> QED BY <1>a, <2>1, <2>2 DEF NoncesInv, MintsInv
<1>4. NoFailure' => NoFailure
  BY <1>1 DEF NoFailure, Forward, Nonces!HasNonce
<1>5. ASSUME NoFailure', NEW i \in Nat, txCount' <= i, OnItsWay(i)
      PROVE  OnItsWay(i)'
  <2>1. PICK n \in Nonces!HasNonce : mint[n].nonce = i /\ mint[n].at \in {"sending", "sent"}
    BY <1>5 DEF OnItsWay
  <2>2. n \in Mints /\ mint'[n].nonce = i /\ mint'[n].at # "failed"
    BY <1>1, <1>5, <2>1 DEF NoFailure, Nonces!HasNonce
  <2>3. ~(mint[n].nonce < txCount')
    BY <1>5, <2>1
  <2>4. mint'[n].at \in {"sending", "sent"}
    BY <2>1, <2>2, <2>3 DEF Forward
  <2> QED BY <1>1, <2>1, <2>2, <2>4 DEF OnItsWay
<1>6. \A v \in Int : \A i \in txCount'..v : i \in txCount..v /\ i \in Nat /\ txCount' <= i
  BY <1>a
<1>7. CoverInv'
  <2> SUFFICES ASSUME NoFailure' PROVE
        (/\ \A j \in DOMAIN txNonce : txNonce[j] # 0 => \A i \in txCount..txNonce[j] : OnItsWay(i)
         /\ \A m \in Mints : mint[m].at = "found" /\ mint[m].seen # 0
                                => \A i \in txCount..mint[m].seen : OnItsWay(i)
         /\ \A m \in Nonces!HasNonce : \A i \in txCount..(mint[m].nonce - 1) : OnItsWay(i))'
    BY DEF CoverInv
  <2>1. ASSUME NEW j \in DOMAIN txNonce, txNonce[j] # 0, NEW i \in txCount'..txNonce[j] PROVE OnItsWay(i)'
    <3>1. txNonce[j] \in Int
      BY <1>a
    <3> QED BY <1>4, <1>5, <1>6, <2>1, <3>1 DEF NoncesInv, CoverInv
  <2>2. ASSUME NEW m \in Mints, mint[m].at = "found", mint[m].seen # 0, NEW i \in txCount'..mint[m].seen
        PROVE  OnItsWay(i)'
    <3>1. mint[m].seen \in Int
      BY MintShape
    <3> QED BY <1>4, <1>5, <1>6, <2>2, <3>1 DEF NoncesInv, CoverInv
  <2>3. ASSUME NEW m \in Nonces!HasNonce, NEW i \in txCount'..(mint[m].nonce - 1) PROVE OnItsWay(i)'
    <3>1. mint[m].nonce - 1 \in Int
      BY MintShape DEF Nonces!HasNonce
    <3> QED BY <1>4, <1>5, <1>6, <2>3, <3>1 DEF NoncesInv, CoverInv
  <2>4. \A m \in Mints : mint'[m].at = "found" => mint[m].at = "found"
    BY DEF Forward
  <2> QED BY <1>1, <2>1, <2>2, <2>3, <2>4 DEF Nonces!HasNonce
<1>8. OneRowInv'
  <2>1. ASSUME NEW m \in Mints
        PROVE  mint'[m].at \in {"counted", "creating", "found"} => mint'[m].at = mint[m].at
    BY DEF Forward
  <2> QED BY <1>1, <2>1 DEF NoncesInv, OneRowInv, Nonces!InGetLatestNonce, Nonces!HasNonce
<1>9. (Nonces!SharedNonceNeedsOverlap)'
  BY <1>1 DEF NoncesInv, Nonces!SharedNonceNeedsOverlap, Nonces!HasNonce
<1> QED BY <1>2, <1>3, <1>7, <1>8, <1>9 DEF NoncesInv

(* A mint goes on in getLatestNonce, without a nonce yet. *)
LEMMA NonceSought ==
    ASSUME NoncesInv, NEW m \in Mints, NEW c \in Nonces!Mint, mint[m].nonce = None, c.nonce = None,
           mint' = [mint EXCEPT ![m] = c], UNCHANGED <<txCount, others, pool>>
    PROVE  /\ Nonces!HasNonce' = Nonces!HasNonce
           /\ \A n \in Mints : mint'[n] = IF n = m THEN c ELSE mint[n]
           /\ NoFailure' = NoFailure
           /\ \A i : OnItsWay(i)' <=> OnItsWay(i)
           /\ (Nonces!SharedNonceNeedsOverlap)' <=>
                (mintsOverlapped' \/ \A k, n \in Nonces!HasNonce :
                     k # n /\ mint[k].nonce = mint[n].nonce => mint[k].nonce = 0)
<1>1. \A n \in Mints : mint'[n] = IF n = m THEN c ELSE mint[n]
  BY DEF NoncesInv, Nonces!TypeOK
<1>2. Nonces!HasNonce' = Nonces!HasNonce
  BY <1>1 DEF Nonces!HasNonce
<1>3. \A n \in Nonces!HasNonce : mint'[n] = mint[n]
  BY <1>1 DEF Nonces!HasNonce
<1>4. NoFailure' = NoFailure
  BY <1>2, <1>3 DEF NoFailure
<1>5. \A i : OnItsWay(i)' <=> OnItsWay(i)
  BY <1>2, <1>3 DEF OnItsWay
<1>6. (Nonces!SharedNonceNeedsOverlap)' <=>
          (mintsOverlapped' \/ \A k, n \in Nonces!HasNonce :
               k # n /\ mint[k].nonce = mint[n].nonce => mint[k].nonce = 0)
  BY <1>2, <1>3 DEF Nonces!SharedNonceNeedsOverlap
<1> QED BY <1>1, <1>2, <1>4, <1>5, <1>6

LEMMA SoughtIsCovered ==
    ASSUME NoncesInv, NEW m \in Mints, NEW c \in Nonces!Mint, mint[m].nonce = None, c.nonce = None,
           mint' = [mint EXCEPT ![m] = c], UNCHANGED <<txCount, others, pool>>,
           c.at \in {"counted", "creating", "found"}, c.count <= txCount,
           txNonce' \in Seq(Nat), DOMAIN txNonce \subseteq DOMAIN txNonce',
           \A j \in DOMAIN txNonce' : txNonce'[j] # 0 => j \in DOMAIN txNonce /\ txNonce'[j] = txNonce[j],
           c.at = "found" => c.row \in DOMAIN txNonce' /\ c.seen = txNonce'[c.row],
           mintsOverlapped' \in BOOLEAN, mintsOverlapped => mintsOverlapped', OneRowInv'
    PROVE  NoncesInv'
<1>1. /\ Nonces!HasNonce' = Nonces!HasNonce
      /\ \A n \in Mints : mint'[n] = IF n = m THEN c ELSE mint[n]
      /\ NoFailure' = NoFailure /\ \A i : OnItsWay(i)' <=> OnItsWay(i)
  BY NonceSought
<1>2. \A n \in Nonces!HasNonce : n \in Mints /\ n # m /\ mint'[n] = mint[n]
  BY <1>1 DEF Nonces!HasNonce
<1>3. Nonces!TypeOK'
  <2>1. \A n \in Nonces!HasNonce' : mint'[n].row \in DOMAIN txNonce'
    BY <1>1, <1>2 DEF NoncesInv, Nonces!TypeOK
  <2>2. pool' \subseteq Nonces!HasNonce' /\ mint' \in [Mints -> Nonces!Mint] /\ txCount' \in Nat
        /\ others' \in 0..MaxOthers
    BY <1>1 DEF NoncesInv, Nonces!TypeOK
  <2> QED BY <2>1, <2>2, Zenon DEF Nonces!TypeOK
<1>4. MintsInv'
  BY <1>1 DEF NoncesInv, MintsInv
<1>5. CoverInv'
  <2> SUFFICES ASSUME NoFailure'
        PROVE  (/\ \A j \in DOMAIN txNonce : txNonce[j] # 0 => \A i \in txCount..txNonce[j] : OnItsWay(i)
                /\ \A n \in Mints : mint[n].at = "found" /\ mint[n].seen # 0
                                       => \A i \in txCount..mint[n].seen : OnItsWay(i)
                /\ \A n \in Nonces!HasNonce : \A i \in txCount..(mint[n].nonce - 1) : OnItsWay(i))'
    BY DEF CoverInv
  <2>1. ASSUME NEW j \in DOMAIN txNonce', txNonce'[j] # 0, NEW i \in txCount..txNonce'[j] PROVE OnItsWay(i)'
    <3>1. OnItsWay(i)
      BY <1>1, <2>1 DEF NoncesInv, CoverInv
    <3> QED BY <1>1, <3>1
  <2>2. ASSUME NEW n \in Mints, mint'[n].at = "found", mint'[n].seen # 0, NEW i \in txCount..mint'[n].seen
        PROVE  OnItsWay(i)'
    <3>1. CASE n = m
      BY <1>1, <2>1, <2>2, <3>1
    <3>2. CASE n # m
      <4>1. OnItsWay(i)
        BY <1>1, <2>2, <3>2 DEF NoncesInv, CoverInv
      <4> QED BY <1>1, <4>1
    <3> QED BY <3>1, <3>2
  <2>3. ASSUME NEW n \in Nonces!HasNonce, NEW i \in txCount..(mint[n].nonce - 1) PROVE OnItsWay(i)'
    <3>1. OnItsWay(i)
      BY <1>1, <2>3 DEF NoncesInv, CoverInv
    <3> QED BY <1>1, <3>1
  <2> QED BY <1>1, <1>2, <2>1, <2>2, <2>3
<1>6. (Nonces!SharedNonceNeedsOverlap)'
  BY NonceSought DEF NoncesInv, Nonces!SharedNonceNeedsOverlap
<1> QED BY <1>3, <1>4, <1>5, <1>6 DEF NoncesInv

LEMMA NonceOneUp ==
    ASSUME NEW seen \in Nat, NEW count \in Nat
    PROVE  /\ Nonces!NextNonce(seen, count) \in Nat
           /\ seen # 0 => Nonces!NextNonce(seen, count) > seen
           /\ \/ Nonces!NextNonce(seen, count) = count
              \/ seen # 0 /\ Nonces!NextNonce(seen, count) = seen + 1
BY DEF Nonces!NextNonce

(* A mint gets its nonce: it is the count, or the next after what was read  *)
(* of the row, and the mint with it is on its way.                         *)
LEMMA NonceGiven ==
    ASSUME NoncesInv, NEW m \in Mints, Nonces!UpdateNonce(m) PROVE NoncesInv'
<1>1. PICK nonce \in Nat : nonce = Nonces!NextNonce(mint[m].seen, mint[m].count)
  BY MintShape, NonceOneUp
<1>2. PICK c : c = [mint[m] EXCEPT !.at = "sending", !.nonce = nonce]
  OBVIOUS
<1>a. /\ txNonce \in Seq(Nat) /\ txCount \in Nat /\ mint \in [Mints -> Nonces!Mint]
      /\ mint[m].at = "found" /\ mint[m].row \in DOMAIN txNonce /\ mint[m].nonce = None
      /\ mint[m].count <= txCount /\ None \notin Nat
  BY NoncesAssumption
  DEF Nonces!UpdateNonce, NoncesInv, Nonces!TypeOK, MintsInv, NoncesAssumption, Nonces!ConstantsAssumption
<1>3. /\ c \in Nonces!Mint /\ c.at = "sending" /\ c.nonce = nonce /\ c.row = mint[m].row
      /\ c.count = mint[m].count /\ c.seen = mint[m].seen
  BY <1>2, <1>a, MintShape DEF Nonces!Mint
<1>4. /\ txNonce' = [txNonce EXCEPT ![mint[m].row] = nonce] /\ mint' = [mint EXCEPT ![m] = c]
      /\ UNCHANGED <<txCount, others, pool, mintsOverlapped>>
  BY <1>1, <1>2, <1>a DEF Nonces!UpdateNonce
<1>5. \A n \in Mints : mint'[n] = IF n = m THEN c ELSE mint[n]
  BY <1>4, <1>a
<1>6. /\ txNonce' \in Seq(Nat) /\ DOMAIN txNonce' = DOMAIN txNonce /\ Len(txNonce') = Len(txNonce)
      /\ \A j \in DOMAIN txNonce : txNonce'[j] = IF j = mint[m].row THEN nonce ELSE txNonce[j]
  BY <1>4, <1>a
<1>7. Nonces!HasNonce' = Nonces!HasNonce \cup {m} /\ m \notin Nonces!HasNonce
  BY <1>3, <1>5, <1>a DEF Nonces!HasNonce
<1>8. \A n \in Nonces!HasNonce : n \in Mints /\ n # m /\ mint'[n] = mint[n]
  BY <1>5, <1>7 DEF Nonces!HasNonce
<1>9. Nonces!TypeOK'
  <2>1. \A n \in Nonces!HasNonce' : mint'[n].row \in DOMAIN txNonce'
    BY <1>3, <1>5, <1>6, <1>7, <1>8, <1>a DEF NoncesInv, Nonces!TypeOK
  <2>2. pool' \subseteq Nonces!HasNonce' /\ mint' \in [Mints -> Nonces!Mint] /\ txCount' \in Nat
        /\ others' \in 0..MaxOthers
    BY <1>3, <1>4, <1>7, <1>a DEF NoncesInv, Nonces!TypeOK
  <2>3. mintsOverlapped' \in BOOLEAN
    BY <1>4, Zenon DEF NoncesInv, Nonces!TypeOK
  <2> QED BY <1>6, <2>1, <2>2, <2>3, Zenon DEF Nonces!TypeOK
<1>10. MintsInv'
  <2>1. \A n \in Mints : n # m => mint'[n] = mint[n]
    BY <1>5
  <2>2. nonce # None
    BY <1>a
  <2> QED BY <1>3, <1>4, <1>5, <1>6, <2>1, <2>2 DEF NoncesInv, MintsInv
<1>11. NoFailure' => NoFailure
  BY <1>7, <1>8 DEF NoFailure
<1>12. (\A i : OnItsWay(i) => OnItsWay(i)') /\ OnItsWay(nonce)'
  <2>1. \A i : OnItsWay(i) => OnItsWay(i)'
    BY <1>7, <1>8 DEF OnItsWay
  <2>2. m \in Nonces!HasNonce' /\ mint'[m].nonce = nonce /\ mint'[m].at = "sending"
    BY <1>3, <1>5, <1>7
  <2> QED BY <2>1, <2>2 DEF OnItsWay
<1>13. CoverInv'
  <2> SUFFICES ASSUME NoFailure'
        PROVE  (/\ \A j \in DOMAIN txNonce : txNonce[j] # 0 => \A i \in txCount..txNonce[j] : OnItsWay(i)
                /\ \A n \in Mints : mint[n].at = "found" /\ mint[n].seen # 0
                                       => \A i \in txCount..mint[n].seen : OnItsWay(i)
                /\ \A n \in Nonces!HasNonce : \A i \in txCount..(mint[n].nonce - 1) : OnItsWay(i))'
    BY DEF CoverInv
  <2>1. ASSUME NEW i \in txCount..nonce PROVE OnItsWay(i)'
    <3>1. CASE i = nonce
      BY <1>12, <3>1
    <3>2. CASE i # nonce
      <4>1. mint[m].seen \in Nat /\ mint[m].count \in Nat
        BY MintShape
      <4>2. mint[m].seen # 0 /\ nonce = mint[m].seen + 1
        <5>1. nonce = mint[m].count \/ (mint[m].seen # 0 /\ nonce = mint[m].seen + 1)
          BY <1>1, <4>1, NonceOneUp
        <5>2. nonce # mint[m].count
          BY <1>a, <3>2, <4>1
        <5> QED BY <5>1, <5>2
      <4>3. i \in txCount..mint[m].seen
        BY <1>a, <3>2, <4>1, <4>2
      <4>4. OnItsWay(i)
        BY <1>11, <1>a, <4>2, <4>3 DEF NoncesInv, CoverInv
      <4> QED BY <1>12, <4>4
    <3> QED BY <3>1, <3>2
  <2>2. ASSUME NEW j \in DOMAIN txNonce, txNonce'[j] # 0, NEW i \in txCount..txNonce'[j] PROVE OnItsWay(i)'
    <3>1. CASE j = mint[m].row
      BY <1>6, <2>1, <2>2, <3>1
    <3>2. CASE j # mint[m].row
      <4>1. OnItsWay(i)
        BY <1>6, <1>11, <2>2, <3>2 DEF NoncesInv, CoverInv
      <4> QED BY <1>12, <4>1
    <3> QED BY <3>1, <3>2
  <2>3. ASSUME NEW n \in Mints, mint'[n].at = "found", mint'[n].seen # 0, NEW i \in txCount..mint'[n].seen
        PROVE  OnItsWay(i)'
    <3>1. n # m /\ mint'[n] = mint[n]
      BY <1>3, <1>5, <2>3
    <3>2. OnItsWay(i)
      BY <1>11, <2>3, <3>1 DEF NoncesInv, CoverInv
    <3> QED BY <1>12, <3>2
  <2>4. ASSUME NEW n \in Nonces!HasNonce', NEW i \in txCount..(mint'[n].nonce - 1) PROVE OnItsWay(i)'
    <3>1. CASE n = m
      <4>1. i \in txCount..nonce
        BY <1>3, <1>5, <1>a, <2>4, <3>1
      <4> QED BY <2>1, <4>1
    <3>2. CASE n # m
      <4>1. n \in Nonces!HasNonce /\ mint'[n] = mint[n]
        BY <1>7, <1>8, <3>2
      <4>2. OnItsWay(i)
        BY <1>11, <2>4, <4>1 DEF NoncesInv, CoverInv
      <4> QED BY <1>12, <4>2
    <3> QED BY <3>1, <3>2
  <2> QED BY <1>4, <1>6, <2>2, <2>3, <2>4
<1>14. ASSUME ~mintsOverlapped, NEW n \in Nonces!HasNonce
       PROVE  mint[n].nonce <= mint[m].seen /\ (mint[m].seen # 0 => mint[n].nonce < nonce)
  <2>1. mint[n].nonce \in Nat /\ mint[m].seen \in Nat /\ mint[m].count \in Nat
    BY <1>8, MintShape
  <2>2. mint[n].nonce <= mint[m].seen
    BY <1>14, <1>a DEF NoncesInv, OneRowInv
  <2>3. mint[m].seen # 0 => nonce > mint[m].seen
    BY <1>1, <2>1, NonceOneUp
  <2> QED BY <2>1, <2>2, <2>3
<1>15. OneRowInv'
  <2>1. ASSUME ~mintsOverlapped PROVE \A n \in Nonces!HasNonce' : mint'[n].nonce <= txNonce'[1]
    <3>1. mint[m].row = 1 /\ txNonce'[1] = nonce
      BY <1>6, <1>a, <2>1 DEF NoncesInv, OneRowInv
    <3>2. \A n \in Nonces!HasNonce : mint[n].nonce <= nonce
      <4>1. \A n \in Nonces!HasNonce : mint[n].nonce \in Nat
        BY <1>8, MintShape
      <4>2. mint[m].seen \in Nat
        BY MintShape
      <4> QED BY <1>14, <2>1, <4>1, <4>2
    <3> QED BY <1>3, <1>5, <1>7, <1>8, <3>1, <3>2
  <2>2. \A n \in Mints : mint'[n].at \in {"counted", "creating", "found"} => n # m /\ mint'[n] = mint[n]
    BY <1>3, <1>5
  <2>3. ASSUME ~mintsOverlapped, NEW n \in Mints, n # m, mint[n].at \in {"counted", "creating", "found"}
        PROVE  FALSE
    BY <1>a, <2>3 DEF NoncesInv, OneRowInv, Nonces!InGetLatestNonce
  <2> QED BY <1>4, <1>6, <2>1, <2>2, <2>3 DEF NoncesInv, OneRowInv, Nonces!InGetLatestNonce
<1>16. (Nonces!SharedNonceNeedsOverlap)'
  <2> SUFFICES ASSUME ~mintsOverlapped, NEW k \in Nonces!HasNonce', NEW n \in Nonces!HasNonce',
                      k # n, mint'[k].nonce = mint'[n].nonce
               PROVE  mint'[k].nonce = 0
    BY <1>4 DEF Nonces!SharedNonceNeedsOverlap
  <2>1. CASE k # m /\ n # m
    BY <1>7, <1>8, <2>1 DEF NoncesInv, Nonces!SharedNonceNeedsOverlap
  <2>2. ASSUME NEW l \in Nonces!HasNonce, mint[l].nonce = nonce PROVE nonce = 0
    <3>1. mint[l].nonce \in Nat /\ mint[m].seen \in Nat
      BY <1>8, MintShape
    <3> QED BY <1>14, <2>2, <3>1
  <2> QED BY <1>3, <1>5, <1>7, <1>8, <2>1, <2>2
<1> QED BY <1>9, <1>10, <1>13, <1>15, <1>16 DEF NoncesInv

(* Blocks count confirmations and change nothing else of a call. *)
LEMMA ConfirmedCalls ==
    ASSUME NoncesInv, NEW n \in Mints
    PROVE  LET c == Nonces!Confirmed(mint)[n]
           IN  /\ c \in Nonces!Mint /\ c.at = mint[n].at /\ c.nonce = mint[n].nonce
               /\ c.count = mint[n].count /\ c.row = mint[n].row /\ c.seen = mint[n].seen
<1>1. PICK c : c = Nonces!Confirmed(mint)[n]
  OBVIOUS
<1>2. BLOCK_CONFIRMATION_TO_WAIT \in Nat
  BY NoncesAssumption DEF NoncesAssumption, Nonces!ConstantsAssumption
<1>3. CASE mint[n].at = "confirming"
  <2>1. mint[n] \in Nonces!Mint /\ mint[n].confirmations \in 0..BLOCK_CONFIRMATION_TO_WAIT
    BY MintShape DEF Nonces!Mint
  <2>2. PICK k : k = IF mint[n].confirmations < BLOCK_CONFIRMATION_TO_WAIT
                     THEN mint[n].confirmations + 1 ELSE mint[n].confirmations
    OBVIOUS
  <2>3. k \in 0..BLOCK_CONFIRMATION_TO_WAIT
    BY <1>2, <2>1, <2>2
  <2>4. c = [mint[n] EXCEPT !.confirmations = k]
    BY <1>1, <1>3, <2>2 DEF Nonces!Confirmed
  <2> QED BY <1>1, <2>1, <2>3, <2>4 DEF Nonces!Mint
<1>4. CASE mint[n].at # "confirming"
  BY <1>1, <1>4, MintShape DEF Nonces!Confirmed
<1> QED BY <1>3, <1>4

LEMMA NextNonces == NoncesInv /\ [Nonces!Next]_(Nonces!vars) => NoncesInv'
<1> SUFFICES ASSUME NoncesInv, [Nonces!Next]_(Nonces!vars) PROVE NoncesInv'
  OBVIOUS
<1>a. /\ txNonce \in Seq(Nat) /\ txCount \in Nat /\ mint \in [Mints -> Nonces!Mint]
      /\ others \in 0..MaxOthers /\ pool \subseteq Nonces!HasNonce
      /\ None \notin Nat /\ BLOCK_CONFIRMATION_TO_WAIT \in Nat /\ MaxOthers \in Nat
  BY NoncesAssumption DEF NoncesInv, Nonces!TypeOK, NoncesAssumption, Nonces!ConstantsAssumption
(* One call goes on, and no block is made. *)
<1>b. ASSUME NEW m \in Mints,
             NEW at \in {"sent", "failed", "returned"}, mint' = [mint EXCEPT ![m].at = at],
             Forward(m, mint[m].at, at), UNCHANGED <<txNonce, txCount, others, mintsOverlapped>>,
             pool' \subseteq Nonces!HasNonce
      PROVE  NoncesInv'
  <2>1. PICK c : c = [mint[m] EXCEPT !.at = at]
    OBVIOUS
  <2>2. /\ c \in Nonces!Mint /\ c.at = at /\ c.nonce = mint[m].nonce /\ c.count = mint[m].count
        /\ c.row = mint[m].row /\ c.seen = mint[m].seen
    BY <2>1, MintShape DEF Nonces!Mint
  <2>3. mint' \in [Mints -> Nonces!Mint] /\ \A n \in Mints : mint'[n] = IF n = m THEN c ELSE mint[n]
    BY <1>a, <1>b, <2>1, <2>2
  <2>4. \A n \in Mints : /\ mint'[n].nonce = mint[n].nonce /\ mint'[n].count = mint[n].count
                         /\ mint'[n].row = mint[n].row /\ mint'[n].seen = mint[n].seen
                         /\ Forward(n, mint[n].at, mint'[n].at)
    BY <1>b, <2>2, <2>3 DEF Forward
  <2> QED BY <1>a, <1>b, <2>3, <2>4, MintsGoOn
(* A block is made. *)
<1>c. ASSUME txNonce' = txNonce, txCount' \in {txCount, txCount + 1}, others' \in 0..MaxOthers,
             pool' \subseteq Nonces!HasNonce, mintsOverlapped' = mintsOverlapped, mint' = Nonces!Confirmed(mint)
      PROVE  NoncesInv'
  <2>1. mint' \in [Mints -> Nonces!Mint]
    <3>1. mint' = [n \in Mints |-> Nonces!Confirmed(mint)[n]]
      BY <1>c DEF Nonces!Confirmed
    <3> QED BY <3>1, ConfirmedCalls
  <2>2. \A n \in Mints : /\ mint'[n].nonce = mint[n].nonce /\ mint'[n].count = mint[n].count
                         /\ mint'[n].row = mint[n].row /\ mint'[n].seen = mint[n].seen
                         /\ Forward(n, mint[n].at, mint'[n].at)
    BY <1>c, ConfirmedCalls DEF Forward
  <2>3. txCount' \in Nat /\ txCount <= txCount'
    BY <1>a, <1>c
  <2> QED BY <1>c, <2>1, <2>2, <2>3, MintsGoOn
<1>1. ASSUME NEW m \in Mints, Nonces!RefuseGas(m) PROVE NoncesInv'
  BY <1>1, <1>a, <1>b DEF Nonces!RefuseGas, Forward
<1>2. ASSUME NEW m \in Mints, Nonces!CountTransactions(m) PROVE NoncesInv'
  <2>1. PICK c : c = [mint[m] EXCEPT !.at = "counted", !.count = txCount]
    OBVIOUS
  <2>2. mint[m].nonce = None
    BY <1>2 DEF Nonces!CountTransactions, NoncesInv, MintsInv
  <2>3. c \in Nonces!Mint /\ c.at = "counted" /\ c.count = txCount /\ c.nonce = None
    BY <1>a, <2>1, <2>2, MintShape DEF Nonces!Mint
  <2>4. /\ mint' = [mint EXCEPT ![m] = c] /\ UNCHANGED <<txNonce, txCount, others, pool>>
        /\ mintsOverlapped' = (mintsOverlapped \/ \E n \in Mints : Nonces!InGetLatestNonce(n))
    BY <1>2, <1>a, <2>1 DEF Nonces!CountTransactions
  <2>5. mintsOverlapped' \in BOOLEAN /\ (mintsOverlapped => mintsOverlapped')
    BY <2>4, Zenon DEF NoncesInv, Nonces!TypeOK
  <2>6. \A n \in Mints : mint'[n] = IF n = m THEN c ELSE mint[n]
    BY <1>a, <2>4
  <2>7. OneRowInv'
    <3>1. Nonces!HasNonce' = Nonces!HasNonce /\ \A n \in Nonces!HasNonce : mint'[n] = mint[n]
      BY <2>2, <2>3, <2>6 DEF Nonces!HasNonce
    <3>2. ~mintsOverlapped' => ~mintsOverlapped /\ \A n \in Mints : ~Nonces!InGetLatestNonce(n)
      BY <2>4, Zenon
    <3> QED BY <2>3, <2>4, <2>6, <3>1, <3>2 DEF NoncesInv, OneRowInv, Nonces!InGetLatestNonce
  <2>8. UNCHANGED <<txNonce, txCount, others, pool>>
    BY <2>4
  <2>9. c.count <= txCount /\ c.at \in {"counted", "creating", "found"} /\ c.at # "found"
    BY <1>a, <2>3
  <2> QED BY <1>a, <2>2, <2>3, <2>4, <2>5, <2>7, <2>8, <2>9, SoughtIsCovered
<1>3. ASSUME NEW m \in Mints, Nonces!FindNonce(m) PROVE NoncesInv'
  <2>1. /\ mint[m].at = "counted" /\ mint[m].nonce = None /\ mint[m].count <= txCount
        /\ UNCHANGED <<txNonce, txCount, others, pool, mintsOverlapped>>
    BY <1>3 DEF Nonces!FindNonce, NoncesInv, MintsInv
  <2>2. PICK c \in Nonces!Mint :
           /\ mint' = [mint EXCEPT ![m] = c] /\ c.nonce = None /\ c.count = mint[m].count
           /\ \/ c.at = "creating" /\ txNonce = <<>>
              \/ c.at = "found" /\ c.row \in DOMAIN txNonce /\ c.seen = txNonce[c.row]
    <3>1. CASE txNonce = <<>>
      <4>1. PICK c : c = [mint[m] EXCEPT !.at = "creating"]
        OBVIOUS
      <4>2. c \in Nonces!Mint /\ c.at = "creating" /\ c.nonce = None /\ c.count = mint[m].count
        BY <2>1, <4>1, MintShape DEF Nonces!Mint
      <4>3. mint' = [mint EXCEPT ![m] = c]
        BY <1>3, <1>a, <3>1, <4>1 DEF Nonces!FindNonce
      <4> QED BY <3>1, <4>2, <4>3
    <3>2. CASE txNonce # <<>>
      <4>1. PICK i \in DOMAIN txNonce :
               mint' = [mint EXCEPT ![m].at = "found", ![m].row = i, ![m].seen = txNonce[i]]
        BY <1>3, <3>2 DEF Nonces!FindNonce
      <4>2. PICK c : c = [mint[m] EXCEPT !.at = "found", !.row = i, !.seen = txNonce[i]]
        OBVIOUS
      <4>3. txNonce[i] \in Nat /\ i \in Nat
        BY <1>a
      <4>4. /\ c \in Nonces!Mint /\ c.at = "found" /\ c.nonce = None /\ c.count = mint[m].count
            /\ c.row = i /\ c.seen = txNonce[i]
        BY <2>1, <4>2, <4>3, MintShape DEF Nonces!Mint
      <4>5. mint' = [mint EXCEPT ![m] = c]
        BY <1>a, <4>1, <4>2
      <4> QED BY <4>4, <4>5
    <3> QED BY <3>1, <3>2
  <2>3. \A n \in Mints : mint'[n] = IF n = m THEN c ELSE mint[n]
    BY <1>a, <2>2
  <2>4. mintsOverlapped' \in BOOLEAN
    BY <2>1, Zenon DEF NoncesInv, Nonces!TypeOK
  <2>5. OneRowInv'
    <3>1. Nonces!HasNonce' = Nonces!HasNonce /\ \A n \in Nonces!HasNonce : mint'[n] = mint[n]
      BY <2>1, <2>2, <2>3 DEF Nonces!HasNonce
    <3>2. \A n \in Mints : (Nonces!InGetLatestNonce(n))' => Nonces!InGetLatestNonce(n)
      BY <2>1, <2>3 DEF Nonces!InGetLatestNonce
    <3>3. Len(txNonce) <= 1 => \A i \in DOMAIN txNonce : i = 1
      BY <1>a
    <3> QED BY <2>1, <2>2, <2>3, <3>1, <3>2, <3>3 DEF NoncesInv, OneRowInv
  <2> QED BY <1>a, <2>1, <2>2, <2>4, <2>5, SoughtIsCovered
<1>4. ASSUME NEW m \in Mints, Nonces!CreateNonce(m) PROVE NoncesInv'
  <2>1. /\ mint[m].at = "creating" /\ mint[m].nonce = None /\ mint[m].count <= txCount
        /\ txNonce' = Append(txNonce, 0) /\ UNCHANGED <<txCount, others, pool, mintsOverlapped>>
    BY <1>4 DEF Nonces!CreateNonce, NoncesInv, MintsInv
  <2>2. /\ txNonce' \in Seq(Nat) /\ Len(txNonce') = Len(txNonce) + 1 /\ Len(txNonce) \in Nat
        /\ txNonce'[Len(txNonce')] = 0 /\ \A j \in DOMAIN txNonce : j \in DOMAIN txNonce' /\ txNonce'[j] = txNonce[j]
        /\ \A j \in DOMAIN txNonce' : j = Len(txNonce') \/ j \in DOMAIN txNonce
        /\ Len(txNonce') \in DOMAIN txNonce'
    BY <1>a, <2>1
  <2>3. PICK c : c = [mint[m] EXCEPT !.at = "found", !.row = Len(txNonce'), !.seen = 0]
    OBVIOUS
  <2>a. Len(txNonce') \in Nat
    BY <2>2
  <2>4. /\ c \in Nonces!Mint /\ c.at = "found" /\ c.row = Len(txNonce') /\ c.seen = 0
        /\ c.nonce = None /\ c.count = mint[m].count
    <3>1. PICK k \in Nat : k = Len(txNonce')
      BY <2>a
    <3>2. c = [mint[m] EXCEPT !.at = "found", !.row = k, !.seen = 0]
      BY <2>3, <3>1
    <3>3. /\ c \in Nonces!Mint /\ c.at = "found" /\ c.row = k /\ c.seen = 0
          /\ c.nonce = mint[m].nonce /\ c.count = mint[m].count
      BY <3>2, MintShape DEF Nonces!Mint
    <3> QED BY <2>1, <3>1, <3>3
  <2>5. mint' = [mint EXCEPT ![m] = c]
    BY <1>4, <1>a, <2>3 DEF Nonces!CreateNonce
  <2>6. \A n \in Mints : mint'[n] = IF n = m THEN c ELSE mint[n]
    BY <1>a, <2>5
  <2>7. mintsOverlapped' \in BOOLEAN
    BY <2>1, Zenon DEF NoncesInv, Nonces!TypeOK
  <2>8. OneRowInv'
    <3>1. Nonces!HasNonce' = Nonces!HasNonce /\ \A n \in Nonces!HasNonce : mint'[n] = mint[n] /\ mint[n].row \in DOMAIN txNonce
      BY <2>1, <2>4, <2>6 DEF Nonces!HasNonce, NoncesInv, Nonces!TypeOK
    <3>2. \A n \in Mints : (Nonces!InGetLatestNonce(n))' => Nonces!InGetLatestNonce(n)
      BY <2>1, <2>6 DEF Nonces!InGetLatestNonce
    <3>3. ASSUME ~mintsOverlapped
          PROVE  /\ txNonce = <<>> /\ Len(txNonce') = 1 /\ Nonces!HasNonce = {}
                 /\ \A n \in Mints : n # m => ~Nonces!InGetLatestNonce(n)
      <4>1. txNonce = <<>>
        BY <2>1, <3>3 DEF NoncesInv, OneRowInv
      <4>2. DOMAIN txNonce = {} /\ Len(txNonce) = 0
        BY <4>1
      <4>3. Nonces!InGetLatestNonce(m)
        BY <2>1 DEF Nonces!InGetLatestNonce
      <4> QED BY <2>2, <3>1, <3>3, <4>1, <4>2, <4>3 DEF NoncesInv, OneRowInv
    <3> QED BY <2>1, <2>2, <2>4, <2>6, <3>1, <3>2, <3>3 DEF OneRowInv, Nonces!InGetLatestNonce
  <2> QED BY <1>a, <2>1, <2>2, <2>4, <2>5, <2>7, <2>8, SoughtIsCovered
<1>5. ASSUME NEW m \in Mints, Nonces!UpdateNonce(m) PROVE NoncesInv'
  BY <1>5, NonceGiven
<1>6. ASSUME NEW m \in Mints, Nonces!SendTransaction(m) PROVE NoncesInv'
  <2>1. mint[m].at = "sending" /\ m \in Nonces!HasNonce /\ UNCHANGED <<txNonce, txCount, others, mintsOverlapped>>
    BY <1>6 DEF Nonces!SendTransaction, NoncesInv, MintsInv, Nonces!HasNonce
  <2>2. PICK at \in {"sent", "failed"} : mint' = [mint EXCEPT ![m].at = at]
    BY <1>6 DEF Nonces!SendTransaction
  <2>3. pool' \subseteq Nonces!HasNonce
    BY <1>6, <1>a, <2>1 DEF Nonces!SendTransaction
  <2> QED BY <1>b, <2>1, <2>2, <2>3 DEF Forward
<1>7. ASSUME NEW m \in Mints, Nonces!WaitForTxConfirmed(m) PROVE NoncesInv'
  BY <1>7, <1>a, <1>b DEF Nonces!WaitForTxConfirmed, Forward
<1>8. ASSUME NEW m \in Mints, Nonces!GiveUpWaiting(m) PROVE NoncesInv'
  BY <1>8, <1>a, <1>b DEF Nonces!GiveUpWaiting, Forward
<1>9. ASSUME NEW m \in Mints, Nonces!MineMint(m) PROVE NoncesInv'
  <2>1. /\ m \in pool /\ mint[m].nonce = txCount /\ pool' = pool \ {m} /\ txCount' = txCount + 1
        /\ UNCHANGED <<txNonce, others, mintsOverlapped>>
    BY <1>9 DEF Nonces!MineMint
  <2>2. PICK calls : calls = Nonces!Confirmed(mint)
    OBVIOUS
  <2>3. calls \in [Mints -> Nonces!Mint]
    <3>1. calls = [n \in Mints |-> Nonces!Confirmed(mint)[n]]
      BY <2>2 DEF Nonces!Confirmed
    <3> QED BY <3>1, ConfirmedCalls
  <2>4. \A n \in Mints : /\ calls[n].at = mint[n].at /\ calls[n].nonce = mint[n].nonce
                         /\ calls[n].count = mint[n].count /\ calls[n].row = mint[n].row
                         /\ calls[n].seen = mint[n].seen
    BY <2>2, ConfirmedCalls
  <2>5. PICK c : c = [calls[m] EXCEPT !.at = IF calls[m].at = "sent" THEN "confirming" ELSE calls[m].at]
    OBVIOUS
  <2>6. mint' = [calls EXCEPT ![m] = c]
    BY <1>9, <2>2, <2>3, <2>5 DEF Nonces!MineMint
  <2>7. /\ c \in Nonces!Mint /\ c.nonce = mint[m].nonce /\ c.count = mint[m].count
        /\ c.row = mint[m].row /\ c.seen = mint[m].seen
        /\ c.at = IF mint[m].at = "sent" THEN "confirming" ELSE mint[m].at
    BY <2>3, <2>4, <2>5, MintShape DEF Nonces!Mint
  <2>8. mint' \in [Mints -> Nonces!Mint] /\ \A n \in Mints : mint'[n] = IF n = m THEN c ELSE calls[n]
    BY <2>3, <2>6, <2>7
  <2>9. \A n \in Mints : /\ mint'[n].nonce = mint[n].nonce /\ mint'[n].count = mint[n].count
                         /\ mint'[n].row = mint[n].row /\ mint'[n].seen = mint[n].seen
                         /\ Forward(n, mint[n].at, mint'[n].at)
    <3>1. mint[m].nonce < txCount'
      BY <1>a, <2>1
    <3> QED BY <2>4, <2>7, <2>8, <3>1 DEF Forward
  <2>10. txCount' \in Nat /\ txCount <= txCount' /\ pool' \subseteq Nonces!HasNonce
    BY <1>a, <2>1
  <2> QED BY <1>a, <2>1, <2>8, <2>9, <2>10, MintsGoOn
<1>10. CASE Nonces!MineOther
  <2>1. others' \in 0..MaxOthers /\ txCount' = txCount + 1 /\ mint' = Nonces!Confirmed(mint)
        /\ UNCHANGED <<txNonce, pool, mintsOverlapped>>
    BY <1>10, <1>a DEF Nonces!MineOther
  <2> QED BY <1>a, <1>c, <2>1
<1>11. CASE Nonces!MineEmpty
  BY <1>11, <1>a, <1>c DEF Nonces!MineEmpty
<1>12. CASE UNCHANGED Nonces!vars
  <2>1. UNCHANGED <<txNonce, txCount, others, pool, mint, mintsOverlapped>>
    BY <1>12 DEF Nonces!vars
  <2>2. \A m \in Mints : Forward(m, mint[m].at, mint'[m].at)
    BY <2>1 DEF Forward
  <2> QED BY <1>a, <2>1, <2>2, MintsGoOn
<1> QED BY <1>1, <1>2, <1>3, <1>4, <1>5, <1>6, <1>7, <1>8, <1>9, <1>10, <1>11, <1>12
        DEF Nonces!Next, Nonces!Serve

LEMMA NoncesSoundness ==
    NoncesInv => Nonces!TypeOK /\ Nonces!SharedNonceNeedsOverlap /\ Nonces!NoGapWithoutFailure
BY DEF NoncesInv, CoverInv, NoFailure, OnItsWay, Nonces!NoGapWithoutFailure

--------------------------------------------------------------------------------
(* All parts. *)

ServicesInv ==
    /\ part \in {"settings", "settings one by one", "seeding ids", "seeding settings",
                 "uploads", "logs", "mails", "mail settings", "nonces"}
    /\ part \in {"settings", "settings one by one"} => SettingsInv
    /\ part = "settings one by one" => SettingsAloneInv
    /\ part \in {"seeding ids", "seeding settings"} => SeedingInv
    /\ part = "uploads" => UploadsInv
    /\ part = "logs" => LogsInv
    /\ part \in {"mails", "mail settings"} => MailsInv
    /\ part = "nonces" => NoncesInv

LEMMA InitServices == Init => ServicesInv
BY InitSettings, InitSettingsAlone, InitSeeding, InitUploads, InitLogs, InitMails, InitNonces
DEF Init, ServicesInv

(* What a step of the whole is for the part that moves. *)
LEMMA PartSteps ==
    ASSUME ServicesInv, [Next]_vars
    PROVE  /\ part' = part
           /\ part \in {"settings", "settings one by one"} => [Settings!Next]_(Settings!vars)
           /\ part = "settings one by one" => [Settings!Next /\ OneByOne']_(Settings!vars)
           /\ part \in {"seeding ids", "seeding settings"} => [Seeding!Next]_(Seeding!vars)
           /\ part = "uploads" => [Uploads!Next]_(Uploads!vars)
           /\ part = "logs" => [Logs!Next]_(Logs!vars)
           /\ part \in {"mails", "mail settings"} => [Mails!Next]_(Mails!vars)
           /\ part = "nonces" => [Nonces!Next]_(Nonces!vars)
<1>1. CASE UNCHANGED vars
  BY <1>1 DEF vars, settingVars, seedVars, uploadVars, logVars, mailVars, nonceVars,
              Settings!vars, Seeding!vars, Uploads!vars, Logs!vars, Mails!vars, Nonces!vars
<1>2. CASE SettingsNext
  BY <1>2 DEF SettingsNext
<1>3. CASE SeedingNext
  BY <1>3 DEF SeedingNext
<1>4. CASE UploadsNext
  BY <1>4 DEF UploadsNext
<1>5. CASE LogsNext
  BY <1>5 DEF LogsNext
<1>6. CASE MailsNext
  BY <1>6 DEF MailsNext
<1>7. CASE NoncesNext
  BY <1>7 DEF NoncesNext
<1> QED BY <1>1, <1>2, <1>3, <1>4, <1>5, <1>6, <1>7 DEF Next

LEMMA NextServices == ServicesInv /\ [Next]_vars => ServicesInv'
<1> SUFFICES ASSUME ServicesInv, [Next]_vars PROVE ServicesInv'
  OBVIOUS
<1>1. CASE part = "settings"
  BY <1>1, PartSteps, NextSettings DEF ServicesInv
<1>2. CASE part = "settings one by one"
  BY <1>2, PartSteps, NextSettings, NextSettingsAlone DEF ServicesInv
<1>3. CASE part \in {"seeding ids", "seeding settings"}
  BY <1>3, PartSteps, NextSeeding DEF ServicesInv
<1>4. CASE part = "uploads"
  BY <1>4, PartSteps, NextUploads DEF ServicesInv
<1>5. CASE part = "logs"
  BY <1>5, PartSteps, StepOfFiles DEF ServicesInv
<1>6. CASE part \in {"mails", "mail settings"}
  BY <1>6, PartSteps, NextMails DEF ServicesInv
<1>7. CASE part = "nonces"
  BY <1>7, PartSteps, NextNonces DEF ServicesInv
<1> QED BY <1>1, <1>2, <1>3, <1>4, <1>5, <1>6, <1>7 DEF ServicesInv

LEMMA ServicesInvariant == Spec => []ServicesInv
BY InitServices, NextServices, PTL DEF Spec

(* Rows, files, calls, mails, mints and the content of the log files keep   *)
(* their types, whatever calls, crashes and faults come between each other; *)
(* a mint with a nonce has its row.                                        *)
THEOREM ServicesTypes == Spec => []ServicesTypeOK
<1>1. ServicesInv => ServicesTypeOK
  BY LogsSound, MailsSoundness DEF ServicesInv, ServicesTypeOK, SettingsInv, SeedingInv, UploadsInv, NoncesInv
<1> QED BY <1>1, ServicesInvariant, PTL

(* Of overlapping settingSave calls only those are refused that found no    *)
(* row for a key at their start; rows are marked as media exactly if their *)
(* key takes an upload; and a save that succeeded without an overlap has   *)
(* stored its payload, but for uploads that it left out.                   *)
THEOREM SavesSound == Spec => []SavesAreSound
<1>1. ServicesInv => SavesAreSound
  BY SettingsSound DEF ServicesInv, SavesAreSound, SettingsAloneInv
<1> QED BY <1>1, ServicesInvariant, PTL

(* A file that saveFile or uploadFile has answered is there, whole and with *)
(* its smaller images; a smaller image the administrators' list names is    *)
(* missing only while an upload runs, after one that failed or for a file  *)
(* sent as no image; a user's list has a type for each file, none too large. *)
THEOREM UploadsWhole == Spec => []UploadsAreWhole
<1>1. ServicesInv => UploadsAreWhole
  BY UploadsSound DEF ServicesInv, UploadsAreWhole
<1> QED BY <1>1, ServicesInvariant, PTL

(* getSettingsGroup gives a mail, for each key that no settingSave has yet  *)
(* to write and whose last save ran alone to its end, what that save asked  *)
(* for; and whoever asked for a code when no mail was on its way has the    *)
(* stored code in the last mail.                                           *)
THEOREM MailsSound == Spec => MailsAreSound
<1>1. ServicesInv /\ [Next]_vars => [(part \in {"mails", "mail settings"}) => Mails!ConfigAsAsked]_vars
  <2> SUFFICES ASSUME ServicesInv, part \in {"mails", "mail settings"} PROVE Mails!ConfigAsAsked
    OBVIOUS
  <2> QED BY ConfigSound DEF ServicesInv
<1>2. ServicesInv => (part \in {"mails", "mail settings"} => Mails!LastMailHasTheCode)
  BY MailsSoundness DEF ServicesInv
<1> QED BY <1>1, <1>2, ServicesInvariant, PTL DEF Spec, MailsAreSound

(* Mints whose getLatestNonce did not overlap share no nonce but the 0 of   *)
(* an account without transactions, and until a mint with a nonce fails,   *)
(* none waits for a nonce that nobody will send.                           *)
THEOREM NoncesSound == Spec => []NoncesAreSound
<1>1. ServicesInv => NoncesAreSound
  BY NoncesSoundness DEF ServicesInv, NoncesAreSound
<1> QED BY <1>1, ServicesInvariant, PTL

(* However often the seeding runs and wherever it stops, the row that a key *)
(* has is left as staff have made it; every seeded setting is in the group  *)
(* that saves it, with uploads as media; and each token that a seeding has  *)
(* added is on its own blockchain as long as staff have not created,       *)
(* renamed or deleted one.                                                 *)
THEOREM SeedsSound == Spec => SeedingIsSound
<1>1. ServicesInv /\ [Next]_vars => [(part \in {"seeding ids", "seeding settings"}) => Seeding!StepKeepsRows]_vars
  <2> SUFFICES ASSUME ServicesInv, Next, part \in {"seeding ids", "seeding settings"}
               PROVE  Seeding!StepKeepsRows
    OBVIOUS
  <2>1. SeedingInv /\ [Seeding!Next]_(Seeding!vars)
    BY PartSteps DEF ServicesInv
  <2> QED BY <2>1, RowsKept
<1>2. ServicesInv => (part = "seeding settings" => Seeding!EveryKeyCanBeSaved /\ Seeding!MediaRowsAreUploads)
  BY SeedingSound DEF ServicesInv
<1>3. ServicesInv => (part = "seeding ids" => Seeding!TokensAreOnTheirChain)
  BY SeedingSound DEF ServicesInv
<1> QED BY <1>1, <1>2, <1>3, ServicesInvariant, PTL DEF Spec, SeedingIsSound

(* A view empties a log file only if the write of one of its entries was    *)
(* cut off, and never that of the deployment; with daily files each entry, *)
(* the logger's own errors included, is in the file of its day.            *)
THEOREM LogsKept == Spec => LogsAreKept
<1>1. ServicesInv /\ [Next]_vars => [part = "logs" => Logs!LossNeedsBrokenEntry]_vars
  <2> SUFFICES ASSUME ServicesInv, Next, part = "logs" PROVE Logs!LossNeedsBrokenEntry
    OBVIOUS
  <2>1. LogsInv /\ [Logs!Next]_(Logs!vars)
    BY PartSteps DEF ServicesInv
  <2> QED BY <2>1, LossSound
<1>2. ServicesInv => (part = "logs" => Logs!EntriesAreInTheirDay)
  BY LogsSound DEF ServicesInv
<1> QED BY <1>1, <1>2, ServicesInvariant, PTL DEF Spec, LogsAreKept
================================================================================
