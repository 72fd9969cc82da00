# A TLA+ model of the wallet-connect marketplace

The repository holds the back end of an NFT marketplace (NestJS, GraphQL, Prisma
on PostgreSQL; `src/src`, `src/prisma`) and its Solidity contracts
(`src/contract`). People log in by signing a text with their wallet, staff by a
password; both get JSON web tokens. Trades are made on chain by an exchange
contract that settles signed orders.

The modules here are translated from that code. Paths below start at the root of
the repository copy, `src/`.

## 1. The system

| component | state | operations | talks to |
|---|---|---|---|
| wallet login, `src/src/app/modules/auth/user.auth.service.ts` | tables `users`, `wallet_login_nonces` | generateLoginMessage, walletLogin, getOrGenerateAccount, getAccount, userVerifyMail, refreshToken | database (an await per statement), the wallet that signs, JwtHelper |
| tokens and guards, `src/src/libs/auth` | none in the process: the tokens themselves, the secrets, the clock; reads `users` and `staffs` | generateToken, refreshToken, JwtStrategy.validate, GqlAuthGuard, GqlGetUserGuard | called by both logins and by every guarded resolver |
| exchange contract, `src/contract/NFTexchange_v3.sol` | administrators (mapping, array, count), `paused`, its ETH and token balances | addAdmin, deleteAdmin, pauseContract, unPauseContract, buyNFT, sellNFT, exchangeNFTauction, withdrawETH, withdrawERC20Token | ERC721 and ERC20 contracts; the signers of orders |
| earlier exchanges, `NFTExchange_v1.sol`, `NFTexchange_v2.sol` | as above | as above, with other amounts | as above |
| NFT collection, `nft2.sol` | owners, balances, approvals, two enumerations, roles twice, a counter, a pause | mint, burn, approve, transferFrom, grantRole, revokeRole, renounceRole, pause, unpause | called by the exchange and by `NftService` |
| user profile, `src/src/app/modules/user/user.service.ts` | `users`, pictures on disk, social links, notification settings | updateProfile, sendVerificationMail, resendVerificationEmail, userNotificationSettingSave | files, mail, userVerifyMail |
| staff and roles, `src/src/app/modules/staff`, `guards/role-permission.guard.ts` | `staffs`, `roles` | login, forgotten and changed password, own profile, create, update and delete staff and roles, the list of staff | guards, mail, files |
| user administration, `staff/user` | `users.status` | updateUserStatus, the list of users | guards, wallet login |
| blockchains, `staff/blockchain` | `blockchains`, logos on disk | create, update, status, delete, lists | files; payment tokens refer to their rows |
| payment tokens, `staff/token` | `payment_tokens`, logos on disk | create, update, status, delete, lists, syncUsdRates | a price service, files |
| settings, `staff/setting` | `settings`, images on disk | one save for each of seven groups | files; the mailer reads a group |
| files, `src/src/app/filesystem` | the public disk | upload, adminUpload, resizeAndSave, deleteFile, both lists | |
| blockchain access, `src/src/app/core.services` | `tx_nonces` | getLatestNonce, mint, transferNft and queries | web3; nothing in `src/src` calls it |
| notifications and mail, `src/src/libs/notification`, `src/src/libs/mail` | none: the code is in the row, the configuration in `settings` | send, through a channel and a transport | settings, environment, mail server |
| logs, `src/src/libs/log`, `src/src/libs/logviewer` | files in `storage/logs` | log, warn, error; view, clean, delete | the log viewer's sessions |
| seeds, `src/prisma` | rows of `staffs`, `settings`, `blockchains`, `payment_tokens` | run before each start | |
| the rest: GraphQL plumbing, validators, cache, configuration | none that outlives a request | | |

What makes these parts hard:

* **Awaits.** A handler is a sequence of database statements, and Node runs other
  handlers at every await. Nothing runs in a database transaction. What a handler
  has read may be stale when it writes, and a handler that stops (an error of the
  database, a restart) leaves what it has written.
* **Work nobody waits for.** syncUsdRates, the mails and the validation of an
  administrator's upload are started and not awaited: they overlap with what
  follows, with each other, and may fail unseen.
* **A disk beside the database.** Pictures, logos and images are written before the
  row that names them and deleted before or after it; there is no transaction over both.
* **Accounts change under tokens.** A token names an account by provider and id and
  is never recorded; staff may suspend or delete the account at any time.
* **Signatures are given long before they are used.** An order is executed when
  somebody sends it, against the ownership, approvals, allowances and balances of
  that moment, and with two orders of two signers in an auction. Token transfers
  report failure by a result that the contract ignores.
* **Redundant state.** The exchange keeps its administrators three times, the
  collection its role members twice and its tokens in four places; the keys of
  settings are listed by hand in three files; totals are counted by queries of
  their own.

What makes each component correct:

* wallet login: a challenge yields at most one token, and only for a signature of
  its wallet; refused logins use up nothing; nobody but staff changes the status of
  an account; of the logins that race one is answered;
* tokens: a handler runs as an account only if the token is for it and it was active
  when the guard looked; a login ends when its tokens do;
* exchange: somebody always administers, and mapping, array and count agree; an NFT
  moves only with the consent of both sides; seller, artist and contract are paid
  what the orders say and the buyer pays no more; the contract never owes what it
  does not have;
* collection: both enumerations list exactly the tokens there are, whatever was
  transferred or burned; a number is never given twice; approvals end with the
  ownership they were given under; who holds a role is listed for it; nobody is
  appointed without an administrator;
* profile: a row never names a picture that is gone, no picture is left behind, and an
  address is marked as verified only by a code that was sent to it (the code breaks the
  last of these);
* staff: somebody remains; a reset code changes the password of its own row, once;
  what a deleted role does to the rights of those who had it;
* catalogue: one row for each chain, tokens refer to blockchains that exist, rows name
  logos that exist, rates are those that were fetched last, lists and totals agree;
* settings and seeds: a save that succeeds has stored its payload, every seeded row
  can be saved, and seeding again leaves the rows that are there as staff have changed them;
* files, mails, logs and nonces: a path that was answered is whole; a mail goes out with
  the settings that were saved, the last one with the code of the row; reading a log loses
  nothing; two mints do not share a nonce.

`PROJECT.json` lists the hazards with their lines. Smaller ones that it leaves out,
because no property of a model is about them: the language of a request is a global
variable (`functions.ts` 165), so messages made after an await may be in another one;
Moralis is one object for the whole process (`nft.services.ts` 48); the log viewer's
`session-serialize.passport.ts` 16 never calls `done` when its lookup fails.

## 2. The modules

| module | models | lines of code it stands for |
|---|---|---|
| `OneTimeChallenge` | what wallet login promises: issued, approved, taken, admitted | abstract |
| `WalletLogin` | wallet login and account creation, statement by statement | `user.auth.service.ts` 77-227, `staff-user.service.ts` 112-137 |
| `AccessTokens` | tokens, refresh, strategy and guards | `src/src/libs/auth`, `functions.ts` 513-531 |
| `UserProfile` | profile, picture and mail verification, statement by statement | `user.service.ts` 83-282, `user.auth.service.ts` 51-75, `filesystem.service.ts` 132-137 |
| `ExchangeAdmins` | administrators and pause | `NFTexchange_v3.sol` 67-75, 141-215 |
| `NFTexchange` | trades and withdrawals; EXTENDS `ExchangeAdmins` and composes it with an NFT contract, token contracts and a clock | `NFTexchange_v3.sol` 217-340 |
| `TokenLedger` | what a collection promises: tokens are made, moved and burned, each in one list | abstract |
| `CollectionRoles` | roles in their mapping and their enumerable set | `nft2.sol`, AccessControl, AccessControlEnumerable, EnumerableSet |
| `NFTCollection` | owners, approvals, both enumerations, pause; EXTENDS `CollectionRoles` | `nft2.sol`, ERC721, ERC721Enumerable, ZladyCollection |
| `StaffRoles` | staff, roles and the permission guard | `staff.service.ts` 216-274, `role.service.ts`, `role-permission.guard.ts` |
| `StaffPasswords` | login, reset codes and the writers of a password | `staff.auth.service.ts` 28-119, `staff.service.ts` 86-92, 100-132, 237-254, `password.service.ts` |
| `StaffProfile` | a staff member's own profile and avatar | `staff.service.ts` 36-98, `functions.ts` 259-285 |
| `ListPages` | the paginated lists of staff and of users | `staff.service.ts` 134-203, `staff-user.service.ts` 20-98, `number-cursor.ts` |
| `Catalogue` | rows and logos of blockchains and payment tokens, call by call | `blockchain.service.ts`, `token.service.ts` |
| `CatalogueLists` | their lists, totals and pairs, and the status updates | the same |
| `UsdRates` | syncUsdRates beside the rates staff enter | `token.service.ts` 281-291, 343-357, 408-467 |
| `Settings` | a save, key by key | `setting.service.ts` |
| `SettingKeys` | the keys of settings as inputs, image list and seeds have them | `setting/dto`, `settings.seeder.ts` |
| `Seeding` | the four steps of the seeding beside what staff do to the rows; EXTENDS `SettingKeys` | `src/prisma/seed.ts`, `src/prisma/seeds`, the writers of those tables |
| `Uploads` | uploads of users and administrators and both lists | `src/src/app/filesystem` |
| `Mails` | a mail with a code from the row to the transport | `src/src/libs/notification`, `src/src/libs/mail` |
| `LogFiles` | the log files, their writer and their viewer | `logger.service.ts`, `src/src/libs/logviewer` |
| `MintNonces` | getLatestNonce and the mints that use it | `transaction.service.ts`, `nft.services.ts` 68-91, `functions.ts` 362-385 |
| `MC*` | small instances for TLC | |
| `Authentication_proofs`, `NFTexchange_proofs`, `NFTCollection_proofs`, `UserProfile_proofs`, `StaffArea_proofs`, `Catalogue_proofs`, `MCCatalogue_proofs`, `Services_proofs` | theorems (section 4) | |

Definitions have the names of the functions they model. A definition whose comment
begins with "Variant" is not part of a specification: it is a form the function
could have had, with a plausible mistake, and shows that a property can fail.

Components that share no table and no file are modelled apart, since nothing one does
can be seen by the other; `PROJECT.json` has the lines of every definition. Where a table
is seen by two of them, the columns are divided: the status of a user is changed in
`WalletLogin` and read in `AccessTokens`; the mail settings that `Settings` saves are read
in `Mails`; `Catalogue` has the keys and the logo of a token, `UsdRates` its symbol and
rate, `CatalogueLists` its status and texts.

The MC modules explore such modules side by side. Their variable `part` says which one
moves; the variables of the others are `Off` (or stay as they were), so that the states of
one run are the union and not the product of the instances. The parameters of the parts are
constants of the MC module. A part called "... alone" or "one by one" has no overlapping
calls, for the properties that hold only then. The others leave out what another one has:
the overlapping "passwords" logins, which write nothing, "pages" at its start differences in
columns that its list does not look at, "seeding ids" no saves of settings, "seeding
settings" more than one edit and rearranged blockchains, "mails" more than one save of
settings, "mail settings" all mails but one that reads while saves overlap, the overlapping
"profile" usernames and roles that are refused, and in "rates" the prices stay. What is
proved of these parts without their bounds is in section 4.

### WalletLogin

`status` is `users.status`; an account that does not exist has status "none".
`challenge` and `live` are the table `wallet_login_nonces`: which wallet and code a
row id was created with, and whether the row is still there. `returned` and `signed`
are the texts the service returned and the wallets signed. A call of walletLogin is
three steps: `walletLogin` (findFirst, then the status check and the recovery of the
signer, which have no await between them), `deleteNonce` or `deleteNonceFails`, and
`generateToken`. `pc` and `found` keep a call in flight; `tokens` counts the tokens a
row has yielded. An account lookup is two steps, `lookupMisses` and `createUser`; a
lookup that finds its account reads only. `generateLoginMessage` is one step because
Prisma's create with connectOrCreate is one statement for the code; the status check
after it decides whether the text is returned, and the row stays in either case.
`loseCall` is an error of the database or a restart between two statements.

Codes are not unique: two rows of a wallet may have the same code, findFirst may
return either, and one signature serves both. The code's claim is therefore about
rows, and `OneTimeChallenge` lets one approval cover several challenges.

`CanSign` is what signatures guarantee: whoever presents a signature for a wallet
has it from its owner, while anybody can sign as somebody else. The address a client
sends must be spelled like the recovered one, so a login with another spelling is
refused and is a stuttering step.

The refinement mapping: a row is "new" until it is created, "open" while it is in
the table, "taken" once it was deleted and "admitted" after its token; a row that
yielded two tokens has a stage the abstract specification does not have.

### AccessTokens

`account` is the status of each row of `users` and `staffs`, which use the same ids.
`issued` are all tokens there are; each carries the time of the login it descends
from, which the real token does not have and which only the properties read. A
guarded request is `arrive` (passport-jwt verifies the bearer token), `validate`
(the account is read and the guard decides) and `answer`. `guard` is the provider
the resolver asks for and whether the guard is GqlGetUserGuard, which lets the
handler run without an account. checkUserStatus returns nothing for a status it does
not mention; the handler then runs without an account, and so does the model.

### UserProfile

`profile` has the columns of `users` that matter here, `disk` the pictures in the public
storage; `written`, `mails` and `confirmed` are histories. A call of updateProfile goes
through `checkUserUniqueEmail`, `profileImageUpload`, `saveProfile`, `deleteFile` and
`updateSocialLink`, each an await in the code. `seen` is the user the guard has read;
everything the handler compares or deletes comes from there and not from the row. Phone
and user name are checked and written like the address and the banner like the picture, so
one of each stands for all. Names of files are new UUIDs. What the disk does when a file to
delete is gone is left open: the call goes on or stops.

No call of updateProfile ends well. `updateSocialLink` uses `prisma_client.socialLinks`,
which the schema at this commit does not have, so line 185 throws when the row and the files
are already changed. The comparison of the addresses behind it is never made: the
flag keeps its value and no mail is sent. `sendVerificationMail` is therefore
reached from `resendVerificationEmail` only. Whoever calls `userVerifyMail` has a code out of some
mail; codes are not unique, and the search may find any user that has the code.

`VerifiedAddressWasConfirmed` is stated for moments when no call is in flight. The code
breaks it with one call (`UserProfile_verified`), without overlap and without a fault.

### ExchangeAdmins and NFTexchange

Solidity functions are atomic, so each is one action; a call that reverts is a
stuttering step. The conditions of an action are the `require`s of the function in
their order. Arithmetic is checked from Solidity 0.8 on: `MaxAdminCount` is the
largest value of the count.

`admins`, `allAdmins` and `adminCount` are the mapping, the array and the count.
`owner` and `approvedAll` are what ownerOf and isApprovedForAll return, `eth` and
`token` the balances and the allowances for the exchange, `now` is block.timestamp.
`receipt` tells how the last transaction of the exchange ended: it is what the
properties of a step need to know about it, and takes the place of the event and the
revert message. The two actions whose name ends in "Refused" are the reverts for want
of tokens; they exist because a property is about that message.

Orders are values: `SellOrders` and `BuyOrders` are those a call may present and
`Signed` those their seller or buyer has signed. ecrecover over the EIP-712 hash is
membership in `Signed`: the hash covers every field of the order. The nonce in an
order is never read by the contract and so distinguishes two orders at most.

A token contract is an ERC20 contract whose transferFrom returns false when balance
or allowance do not suffice; one that reverts instead only has fewer behaviours. NFTs
are of one contract. Accounts are externally owned: the contract calls no code of
theirs. `elsewhere` is what they do beside the exchange between two transactions.

### CollectionRoles and NFTCollection

`members` is the mapping of AccessControl, `roleMembers` the enumerable set with its array
and its places. `owners`, `balances`, `tokenApprovals` and `operatorApprovals` are the
mappings of ERC721; `lists` and `all` the two enumerations of ERC721Enumerable, each with
its array and the position kept for each token; `tokenIdTracker` is the counter and
`paused` the switch. A transfer is written as the contract writes it: the hook removes the
token from the list of its owner, at a position computed from a balance that is not yet
changed, by moving the last token into its place, and appends it to the next owner's list;
then approval, balances and owner are written. transferFrom, both safe transfers and the
burn ask the same question about the sender. Safe transfers call a receiving contract
after all changes: what that calls is the next step, and its refusal is a revert.

The refinement mapping to `TokenLedger`: `held` is what the list of each owner holds,
`listed` what the list of all holds, `made` the counter. That a token has at most one holder,
that a transfer moves one and leaves the others, and that numbers do not return, are then
properties of the abstract specification.

### StaffRoles, StaffPasswords, StaffProfile, ListPages

`roleId` and `role` are the columns; a call is admitted by `handleRequest`, the guard, on
the row and role it has read, and its statement is a step of its own. That staff without
a role pass every guard is in `handleRequest`; `deleteRole` leaves staff without one, which
is what `DeletingARoleOnlyWidens` says.

In `StaffPasswords` each call reads a row, hashes or compares, and writes. `latest` is the
code of the last mail to each and the only history. `updateStaff` and `updateStaffProfile`
store the text they were given (`StorePayload`). `InvalidPasswordIsTrue` is about the answer
of a login that brings this very text (run `StaffPasswords_login`).

`StaffProfile` has the search for the phone and for the email before the upload, the
update and the deletion of the old avatar, of the staff member as the guard has read it.
A search for an absent phone has no condition on it and finds any other row; a phone that
is given as null is not told from an absent one. Nobody searches for the username or the
role, which the payload may have too: the database refuses a taken username, an `unknown` role or
a null where the table has none, and it does so after the upload. `refused` collects the
avatars of such updates. A taken phone or email is refused before the upload, unless it was
taken in between (`TakesSearchedKey`).

`ListPages` walks through a list with a cursor. What Prisma does with `cursor`, `skip` and
`take` is external: rows from the cursor's on, in the order of the list as it is now, and
none when that row is gone. The search in the staff list asks for the text in every column
at once (`staff.service.ts` 150), that of users in any; both are as in the code.

### Catalogue, CatalogueLists, UsdRates

`rows` are both tables by id, `disk` the logos, `written` the names used so far. A call
goes through the places "validating", "checking", "uploading", "deleting" and "saving" in
the order of its handler: a token's address is looked up after the upload when it is
created and before it when it is updated. `seen` is the logo of the row as the handler has
read it; an update without a file writes it back. `save` refuses what the database
refuses: a second row with a unique key, and a token whose blockchain is gone. The slug
is mapped to a chain id in every save, but compared with those of others only by the
validator of createBlockchain and by the unique key.

In `CatalogueLists` a string is a sequence of letters with a lower case, because the lists
search for part of a name without regard to case while the totals compare whole names.
Nothing validates a status, so `Statuses` are any integers. `Given` is what a condition of the
code takes for given: not null, and not 0 either.

`UsdRates` has runs of syncUsdRates as they are started by each save: read the symbols,
fetch the prices, write one symbol after the other. The price service quotes the n-th price
as n, which makes stale rates visible.

### Settings, SettingKeys, Seeding

A save looks for the row of its group and key and then writes it; the unique key is the
key alone. `Settings` is checked for arbitrary inputs, `SettingKeys` has the 78 keys of the
repository as its three tables list them, and `Seeding` runs the four createMany statements
with skipDuplicates on them, again and again, with stops between them. Staff may do to the
rows whatever their services do: take and give up the name or mail of the first staff
member, save settings, create, rename and delete blockchains, add payment tokens, change
them, move them to the key of a seed and delete them; `MaxEdits` bounds how often. A row has
its name and its slug, each a unique key, and the origin of what it holds: "seeded" or
"saved". Ids of blockchains come from a sequence that statements which fail advance as
well, while payment tokens are seeded with fixed ids.

What is claimed of a seeding that runs again is what skipDuplicates gives: the row that a
key has is left as it is (`StepKeepsRows`). A row that staff have deleted, or that has
another name and slug by now, has the key no longer and comes back. That a seeded token is on
its own blockchain is claimed until staff rearrange the blockchains (`rearranged`): renaming
the first one is enough to break it.

### Uploads, Mails, LogFiles, MintNonces

`Uploads`: upload reads a stream to its end before it writes; adminUpload starts the same
validation and does not wait for it (`filesystem.service.ts` 142), so the rejection comes
at some later time, unhandled, and ends the process with all that is in flight. An image
has its full size first and a smaller one after.

`Mails`: the code is stored and the mail started and forgotten; it reads the settings at
some later time and is delivered or fails. Saves of the settings write key by key, may
overlap and may stop. `asked` is what the last save of each key has asked for, `unsure` the
keys whose last save began beside another one of that key or stopped. `ConfigAsAsked` says that any
other key has the value that was asked for in each mail read when nobody has yet to
write it: what mixes in a mail are keys of which a save is under way or was disturbed.
`overlapped` are those whose last code was asked for while a mail to them was on its way;
asking again when none is ends that.

`LogFiles`: an entry is one append, of which a full disk or a stop may leave a part; the
viewer parses a file as one list and empties it when that fails.

`MintNonces`: the count of the chain, the row, and the choice between them are separate
awaits. The node refuses a nonce that was mined, replaces none, and mines in the order of
nonces; other transactions of the account come from elsewhere. Reorganisations of the
chain are left out.

## 3. What is checked

| run | instance | shows |
|---|---|---|
| `Authentication` | logins: 2 wallets, 2 codes, 3 rows, 2 calls; tokens: 1 id of both kinds, 1 request, expiry 2, clock to 2 | `ChallengeRedeemedOnce`, `TokensWereSigned`, `LoginStepsAreJustified`, `ImplementsOneTimeChallenge`; `AdmittedAsActiveAccount`, `SessionsEnd` |
| `AccessTokens_expiry` | tokens as above | `StatusResetsAfterExpiry` fails |
| `UserProfile_safety` | overlapping: 1 user, 1 address, 3 pictures, 2 calls that may stop; alone: 2 users, 2 addresses, 1 code, 3 pictures | `PicturesAreKept` |
| `UserProfile_verified` | 1 user, 2 addresses, 1 code, 1 call, no faults | `VerifiedAddressWasConfirmed` fails |
| `NFTexchange_safety` | 3 accounts, 1 NFT, 1 token; 4 offers in ETH, clock to 2; 3 asks and 4 bids in a token, clock to 1; administrators alone, count up to 5 | `BothSidesConsented`, `SalesArePaid`, `FeesAreKept`; `RosterIsSound` |
| `NFTexchange_refusal` | the same | `BalanceRefusalIsTrue` fails |
| `NFTCollection` | 3 accounts, 3 tokens, 3 roles | `EnumerationsAreExact`, `ApprovalsAreLive`, `RightsComeFromAdmins`, `ImplementsTokenLedger` |
| `StaffArea` | 2 staff, 2 calls; 2 roles, 2 permissions; 2 passwords, 2 codes; 2 usernames, 1 phone, 2 emails, 3 files; lists of 3 ids, pages of 1, 1 change | `DeletingARoleOnlyWidens`, `SomebodyRemains`, `ResetCodesAreSound`, `AvatarsAreKept`, `WalksAreComplete` |
| `StaffPasswords_login` | 2 staff, 2 passwords, 2 codes, 1 call | `InvalidPasswordIsTrue` fails |
| `Catalogue` | 2 calls on 2 blockchains; 2 calls on 1 blockchain and 2 tokens; 1 call on 2 of each; lists of 2 blockchains and 1 token over 3 strings, statuses 0, 1 and 2; 2 runs of rates that overlap at one price; runs one by one at 2 prices | `ReferencesHold`, `LogosAreKept`, `ListsAreRight`, `RatesAreRight` |
| `Services` | settings: 2 saves of 1 group with 2 keys, saves of 2 groups one by one; seeding: 4 networks, 6 ids and 2 edits, and all keys with 1 edit; uploads: 2 calls, 2 names; logs: 2 entries; mails: 2 mails beside 1 save, and 1 that reads beside 2 overlapping saves; mints: 3, confirmed by 2 blocks, 1 foreign transaction | `SavesAreSound`, `SeedingIsSound`, `UploadsAreWhole`, `LogsAreKept`, `MailsAreSound`, `NoncesAreSound` |
| `Liveness` | 1 wallet, 1 code, 2 rows, 2 calls; 3 mints, 1 foreign transaction; 2 mails, 1 save | `VerifiedLoginIsAnswered`, `CallsEnd` |

What belongs together is checked under one name; its parts keep their own definitions:

| property | its parts |
|---|---|
| `LoginStepsAreJustified` | `OnlyVerifiedLoginConsumes`, `OnlyStaffChangeStatus` |
| `SessionsEnd` | `NothingOutlivesTTL`, `SessionsDoNotRevive` |
| `PicturesAreKept` | `PictureExists`; alone also `NoPictureIsLeftBehind` |
| `RosterIsSound` | `AdminTypeOK`, `SomeoneAdministers`, `AdminsAreListed`, `CountIsLength` |
| `SalesArePaid` | `SellerReceivesShare`, `RoyaltyIsPaid`, `BuyerPaysAtMostDue` |
| `EnumerationsAreExact` | `OwnerListsAreExact`, `SupplyListIsExact`, `RolesAreListed` |
| `RightsComeFromAdmins` | `NobodyIsAppointedWithoutAdmin`, `PauseOutlivesItsRoles` |
| `DeletingARoleOnlyWidens` | `DeletionOnlyWidens` |
| `ResetCodesAreSound` | `ResetTouchesItsOwn`; alone `LatestCodeIsStored`, `LatestCodeResets` |
| `AvatarsAreKept` | `AvatarExists`; alone `OnlyUnsearchedLeavesAvatars` |
| `WalksAreComplete` | `SteadyRowsAreShownOnce`, `TotalIsWhatTheWalkShows` |
| `ReferencesHold` | `OneRowPerChain`, `TokensHaveTheirChain` |
| `LogosAreKept` | `OwnCallBreaksLogo`; one by one `LogoMissingOnlyAfterFailedUpdate` |
| `ListsAreRight` | `BlockchainListsByStatus`, `PairIsOfOneChain`, `TokenCountFitsList`, `BlockchainCountFitsList` |
| `RatesAreRight` | `ManualRateIsKept`; one by one `RatesAreTheLastFetched` |
| `SavesAreSound` | `OnlyNewKeysCollide`, `MediaIsMarked`; alone `SavedIsStored` |
| `SeedingIsSound` | `StepKeepsRows`, `EveryKeyCanBeSaved`, `MediaRowsAreUploads`, `TokensAreOnTheirChain` |
| `UploadsAreWhole` | `AnsweredFilesAreWhole`, `AdminVariantsExist`, `UserListAnswers` |
| `LogsAreKept` | `LossNeedsBrokenEntry`, `EntriesAreInTheirDay` |
| `MailsAreSound` | `ConfigAsAsked`, `LastMailHasTheCode` |
| `NoncesAreSound` | `SharedNonceNeedsOverlap`, `NoGapWithoutFailure` |
| `CallsEnd` | `MintsEnd`, `MailsEnd` |

The type invariant of each module is checked too.

Why the bounds are enough:

* Login: a race needs two calls; two wallets and two codes with three rows have two
  rows with the same text, two texts of one wallet, and one of another. Calls share
  nothing but rows and accounts, and the theorems hold for any number.
* Tokens: requests do not share state with each other, so one is enough; it is used
  again after each answer. One id shared by both tables is the case in which the
  provider matters. An expiry of 2 and a clock to 2 have tokens that are dead, tokens
  that were refreshed before they died and tokens refreshed after the login they come
  from would have ended.
* Profiles: three pictures are one that is replaced and two that replace it at once; the
  pictures of different users never meet. With two users and two addresses there is one
  that both want, so that an update is refused before the upload; with one code
  userVerifyMail may find the wrong user.
* Exchange: one NFT that can be sold, resold and given back; orders that are not open
  yet, open, over, unsigned, and with parts that exceed the total; balances and
  allowances below, at and above what an order needs; bids below and above an ask and
  below the minimum, a bid that leaves the seller nothing of a total that is high enough
  for the ask, and one whose parts exceed its total. Two NFTs or tokens are independent of
  each other. Amounts are a few units because the code only adds, subtracts and compares
  them. Sales in ETH and in a
  token share no money, and administrators only meet trades in withdrawals and the
  pause, which both kinds of sales have. Five entries for three accounts have accounts
  that are listed twice and three times before they are deleted.
* Collection: three tokens are what it takes to remove the first, a middle and the last
  entry of a list; with three accounts there are an owner, a receiver and somebody
  approved. Calls on tokens read of the roles only who is minter or pauser, so the run
  changes roles before the first token and mints, moves and burns under the roles of the
  constructor; the theorems are about all orders.
* Staff: two calls overlap in every way two calls can, and a third could only be one of
  them again; two staff can delete each other; two equal codes, two equal emails, two equal
  passwords are among the values. A list of three rows on pages of one has a first page,
  a middle one and a last one, and a change at each of them.
* Catalogue: two calls on the same row, on rows with the same unique value, and on a row
  and the one it refers to. Three strings differ in case and in length. Of
  runs of rates that overlap only the symbols they write matter, so the price stays there;
  one by one, two prices are one that is stale and one that is new. Of statuses there are
  the two that have a meaning and one that has none.
* Services: two saves of a key without a row are the collision of the unique key; a save
  of two keys can stop between them. The seeding runs over all 78 keys at once because
  they do not interact; two edits are a row that is deleted or renamed and another that
  takes its place, and six ids are those of two seedings. One mail that reads while two
  saves overlap meets each order of their writes. Two entries have one that is whole
  before and after one that is cut off. Two mints share a nonce, the third is the next one
  after they have gone.

`MaxAdminCount` and `BLOCK_CONFIRMATION_TO_WAIT` stand for constants of the code. `MaxTime`,
`MaxTokens`, `MaxEdits`, `MaxChanges`, `MaxEntries`, `MaxSaves`, `MaxOthers`, `MaxPrice`,
`MaxId` and `Amounts` are bounds of the model; so are the sets of rows, requests, files,
orders and `Grants`.

Deadlock is checked in `Authentication`, `UserProfile_safety`, `NFTexchange_safety` and
`NFTCollection`: a user can always change the profile without a picture, somebody can
always ask for another message, approve an amount or set an approval, and staff can
change an account when all rows are used up. `StaffArea`, `Catalogue`, `Services` and `Liveness`
have parts that come to their end: ids and names of files are used up, every entry was
written, every mint has returned, and when two staff have deleted each other nobody is left to
call anything. These four switch the check off.

### Fairness

Only `Liveness` assumes any. For each call of a login, a mint or a mail it assumes weak fairness
of the step that resumes it (`Answer`, `Serve`, `Deliver`): Node's event loop resumes a
handler once what it awaits is back, whatever other handlers do. For mints it also
assumes that the chain makes blocks (`MineEmpty`, `MineMint`). No login is assumed to be
sent, no wallet to sign, no mint to be begun. Calls are not lost there: a call that is
lost never ends, in the code as in the model. `MintsEnd` is stated for mints that do not
overlap, since two that share a nonce may wait for a receipt that never comes.

### Where the code and its texts disagree

* The text a wallet signs ends with "Your authentication status will reset after
  ${JWT_TOKEN_EXPIRY}" (`coreconstants.ts` 63). refreshToken (`jwt.helper.ts` 58) gives
  a refresh token of the full length again, any number of times; what does hold is
  `SessionsDoNotRevive`. TLC finds the three steps: login, tick, refresh.
* sellNFT and exchangeNFTauction say "Buyer doesn't have enough Token." to a buyer who
  has exactly the total, because they compare with `>` (`NFTexchange_v3.sol` 273, 328).
* The verification mail says "Click this button to verify your email address"
  (`user.service.ts` 159), and updateProfile is to answer a new address with "User
  verification email send successfully. Please verify your email." (127). It writes the new
  address (112-118) and then throws in updateSocialLink (185), so the flag of the old address
  stays and the new one counts as verified without a mail.
* updateStaff stores the password of its payload as it is and answers "Staff updated
  successfully!" (`staff.service.ts` 243-249), as does updateStaffProfile (87-92). login
  compares with a hash and answers "Invalid password!" to that very password
  (`staff.auth.service.ts` 52); the run ends with this answer.

Seen while modelling, without a run of their own:

* a search for an absent phone has no condition on it and finds another row, so
  updateStaffProfile without a phone is refused as soon as there is a second staff
  member (`staff.service.ts` 38-47);
* a username is not searched for before the upload, so an update that asks for a taken
  one is refused and leaves its new avatar on the disk (`staff.service.ts` 69-92);
* an auction pays the seller's part and the fee of the buy order
  (`NFTexchange_v3.sol` 334): a bid whose total is high enough may leave the seller less than
  the sell order says, or nothing, and no part is compared with a total;
* a blockchain whose status is neither 0 nor 1 is in no list by status
  (`blockchain.service.ts` 181-200);
* staff without a role pass every permission guard, and deleting a role leaves its staff
  without one (`role-permission.guard.ts`, `role.service.ts` 72);
* adminUpload does not await the validation of the upload (`filesystem.service.ts` 142);
* the staff list asks for its search text in every column at once (`staff.service.ts` 150);
* the list of a user's files gives smaller images that upload never wrote, and paths
  without the `storage/` that upload answers (`filesystem.service.ts` 25-60, 78);
* the notification settings of users and payment_token_mappings are, like the social
  links, not in `schema.prisma`, so the calls that use them fail.

## 4. What is proved

Every invariant and every action property that a passing run checks is stated by a theorem,
except the two of `Liveness`. The theorems hold for every value of the constants that
meets the ASSUMEs of its module: which model values are different from which, that
bounds are natural numbers, that orders have the fields of their structs, that the three
networks of the seeds are among `Networks`, that 0 and 1 are among `Statuses`, that
`Alone` is one call. They are
about the specifications that the runs explore, part by part, with any number of accounts,
rows, calls, files, codes and mints.

For each component the argument is the same. The property is not inductive, because it
says nothing of the calls in flight; the invariant adds, for each place a handler can be at,
what its author relies on there: what it has read, what is still so, and what is its own. A
lemma says what each kind of step changes (`CallBegins`, `CallGoesOn`, `Moves`, `Ends`), so
that a step that only moves a call disturbs nothing; the theorem then has one step for each
action.

**Authentication_proofs.** `IInv` ties a call of walletLogin to its row: a row that was
not issued yet has yielded nothing; a row in the table has yielded no token; a call that
has verified holds a row of its wallet whose text is signed; a call that has deleted holds
a row that is no longer in the table, that yielded no token yet, and that no other such
call holds. `ChallengeRedeemedOnce` is not inductive without it: nothing in it says that two
calls cannot both be about to answer for one row. From the invariant follow `RedeemedOnce`,
`SignedBeforeToken`, `LoginStepsJustified` and, with each action mapped to an abstract step
or to a stutter, the refinement `LoginIsOneTimeChallenge`. For tokens, `TokensInv` says that
what a request has presented was issued and that no token dies later than one TTL after
now; `NoRevival` then needs no history: an account without a live token has nothing that a
refresh would accept (`SessionsAreOver`). `OnlyActiveAccounts` follows the guard's decision to the
actor it names. `SideBySide` gives both specifications from the composed one.

**NFTexchange_proofs.** For the administrators the invariant is `RosterIsSound`. An
account can be listed twice, and deleted once it leaves an entry for somebody who does
not administer; a later deletion is harmless because deleteAdmin demands that its account
administers, so that `AdminsAreListed` finds an entry to remove, which is what
`CountIsLength` rests on. `SomeoneAdministers` follows from the sender of a deletion, who
stays. For trades the invariant adds `TypeOK`, in which every balance and allowance is a
natural number. That it is kept is the heart: a transfer either is covered or does
nothing (`TransferKeepsType`), three of them in a row keep the type (`SettleKeepsType`), and a
payout is covered by what the contract has (`PayoutIsNat`). The payments rest on lemmas about
the three transfers of a sale in tokens, each of which may do nothing: if balance and
allowance cover their sum, all of them take place and each account gains the sum of its
shares (`SettlePaysAll`); the fee arrives if it and the seller's part are covered
(`SettlePaysFee`); nobody gains less than the first transfer that is sure to be covered, and the
buyer never loses more than the sum (`SettleBounds`). `ConsentOfBoth`, `SalesPaid` and
`FeesStay` go through the three kinds of exchange.
The contract compares no part of an order with its total, an auction takes the royalty of the sell
order and the other parts of the buy order, and nothing in the repository prepares
orders. So `SalesPaid` is about every pair of orders and says what this leaves: the seller
gets the part of the order that prices the exchange, which in an auction is the buyer's; the
artist gets the royalty; in ETH the buyer pays at most the total, in tokens at most the three
parts. The two promises to be paid need, in tokens, that the total the contract looks for
covers the part, or the parts, in question. Only `FeesStay` speaks of orders whose parts add up
(`AddsUp`), for the fee and for what leaves the contract with it.

**NFTCollection_proofs.** OpenZeppelin's enumerable set is an array and the place of each of
its members. `AddLists` and `RemoveLists` are its correctness: the array lists exactly the
members, once each, before and after, also when the member that is removed is the last
one, which is moved into its own place. `RolesInv` says so of every role and that the set is
the mapping of AccessControl. For tokens, `IInv` is `TypeOK`, `RolesAreListed`,
`OwnerListsAreExact`, `SupplyListIsExact` and `ApprovalsAreLive` together, and none of them is
inductive alone: a removal reads the position kept for the token, the balance that gives the
last position, and the token found there, so it is right only if owner, balance, list and
position agree already. That a place is free at the end of a list is a pigeonhole argument
(`RoomForMore`, `RoomInOwnerList`: a list holds no token twice, and there are no more than
were minted). `AddToOwner`, `RemoveFromOwner`, `AddToAll` and `RemoveFromAll` say what the four
functions of the hook do to one list; `MintStep`, `BurnStep` and `TransferStep` put them together,
a transfer being a removal followed by an addition, also when sender and receiver are the
same. `EnumerationsExact`, `ApprovalsLive` and `RightsFromAdmins` are what the run checks of it, and
`CollectionIsLedger` maps each call to a step of `TokenLedger` or to a stutter. These theorems
are about `Spec`, in which roles change at any time, while the run restricts that (section 3).

**UserProfile_proofs.** With overlaps, `IInv` is about whom a picture belongs to: a picture
that a call has seen was uploaded and is named by no row but its user's; one that waits for
the update of its row is on the disk and was seen by nobody; after the update the one that
was seen is named by no row. So whatever a call deletes, it deletes no picture that a row
names, and `PicturesExist` follows. One by one, `Progress` says how far the one call is and
what it has left on the disk; that an update finds its address free is part of it, since a
refused one would leave its picture. `PicturesKept` follows. Of verified addresses nothing
is proved: the claim is false (`UserProfile_verified`).

**StaffArea_proofs.** Roles: what a call writes into a role is a role, hence
`DeletionsWiden`; one by one, the call that deletes a staff member is that of another one
who is there (`SomebodyInv`), hence `SomebodyIsLeft`. Passwords: the row of a reset is that
of its email, and, one by one, each row has the code of the last mail unless the one call is
about to send it (`CodesInv`): `CodesAreSound`. Avatars as pictures above, with two
uniqueness searches and an update that the database may refuse: one by one it refuses only
what nobody has searched for, and then the avatar is in `refused`: `AvatarsKept`.
`AvatarsExist` is the part about overlapping calls for any payload, `ResetsStayWithTheirOwn`
that of passwords with logins. Lists: `WalkInv` says that, while the row the cursor stands
on stays as it is, the walk has shown exactly the rows that stay and do not come after it,
each once. That a page continues there rests on `OrderedListing`: a finite set with a strict
total order can be listed in that order, with `NodesInOrder` for the page. `ListPages`
therefore chooses the ordered one among the sequences of its rows and does not call SortSeq,
which the provers cannot see into. `WalksComplete` needs no bound on rows, page size or
changes, and `WalksOfAllLists` none on the rows a list begins with.

**Catalogue_proofs**, whose theorems take the assumptions on its constants as hypotheses
(`Constants`; `Sole` where calls come one by one), so that they can be cited for each of the
three instances of the run. `ChainsInv`: the chain_id of a row is always that of its slug,
no two slugs have one, and no two rows share a slug, because the validator's check is
repeated by the unique key (`OneChainEach`); a save of a token whose blockchain is gone is
refused, and a blockchain takes its tokens along (`ChainsOfTokens`). `FilesInv`: a file is
named by one row and the calls on it, or by nobody, so no call loses the logo of another row
(`OwnCallsBreak`). `SoleInv`: without overlaps a row names a missing file only after an
update that failed, or while one is between the deletion of the old logo and its save
(`LogosOneByOne`).

**MCCatalogue_proofs** carries these over to the composed specification and adds lists
and rates. `ListsRight` is about queries and needs only the types, finite tables, that a
lower-cased text contains itself and that ids are not 0; it holds for any numbers given as a
status. `RatesInv`: a run only writes symbols that a synchronised row has
had, hence a manual rate stays. `RatesAloneInv`: no symbol that still counts is missing from
what the run in flight has read, and what it has written shows its price (`RatesRight`).

**Services_proofs.** Settings: a key's row is in the group that has it as an input and a
call looks for keys of its payload, hence the collisions; one by one, what the call has
dealt with is stored (`SettingsAloneInv`): `SavesSound`. Uploads: a name belongs to the
upload that drew it, so nobody else writes its paths, and an answered file stays whole
(`AnsweredInv`); an image without its smaller form is one whose upload runs or has failed
(`DiskInv`): `UploadsWhole`. Mails: of a key that is not unsure at most one save has it yet
to write, with the value that was asked for, and once none has, the row has that value
(`SureInv`), so that a mail that reads then is configured with it; of somebody whose last
code was asked for when no mail was on its way only the mail with the stored code can be on
its way (`WaitersInv`): `MailsSound`, and, without the bounds that the run puts on what
overlaps, `MailsUnderAllSaves`. Logs: content only grows but for a view that empties, and
carries the day of its file (`LogsInv`): `LogsKept`. Seeding: that the three tables of keys
agree is proved from the tables (`InputsAreDisjoint`, `MediaAgree`); a token has a
blockchain, whoever added it; as long as staff have not rearranged them, the seeded
blockchains are at three ids in a row or not there at all, and tokens are there only if
those are the first three. That a step leaves the rows it finds needs that the ids a seeding
takes have no rows yet: `SeedsSound`, and, for all edits in any order and number,
`SeedsUnderAllEdits`. Nonces: `CoverInv` says that until a mint fails every nonce between
the chain's count and a row, or a value that was read from one, is on its way; `OneRowInv`
that without an overlap there is one row, no nonce is above it, and who has read it read
what it still has: `NoncesSound`, for any number of mints, of foreign transactions and any
first count.

Only model-checked, with the bounds of section 3: `VerifiedLoginIsAnswered`, `MintsEnd` and
`MailsEnd`, which rest on fairness and so on ENABLED, of which the provers know nothing, and
the four properties that fail. No module has a RECURSIVE operator, and nothing is proved
by induction over data: where a first or last element is needed (`FirstIndexFinds`,
`OrderedListing`) the proof takes a least element or counts.

## 5. What is not modelled, and the plan

Left out for good:

* the exchanges of version 1 and 2, which version 3 supersedes: the same trade with other
  amounts, and orders without a nonce;
* `nft.sol`, a smaller collection over the same ERC721, without enumerations, roles and
  burning; of `nft2.sol`, token URIs, string and signature helpers, which no step changes;
* GraphQL plumbing: scalars, interceptors, throttling, exception filters; they keep no
  state beyond a request, or, as the throttle, state of a library;
* the log viewer's sessions, kept by a library; wording and format of log entries;
* the cache of `src/src/libs/cache`, which nothing uses; templates; configuration, which is
  read at the start; helpers that format numbers, dates and texts;
* the queries of web3, Alchemy and Moralis in `nft.services.ts`, which read only;
* userNotificationSettingSave, getItemsTokens and getTokenListsPaginate, which use models
  that the schema does not have and so always fail.

What the models take from outside the repository: Prisma's statements are atomic and
its cursors as in section 2; PostgreSQL keeps unique keys and references; the
file system creates, overwrites and deletes whole files but for log entries; ethers and
bcrypt recover and compare correctly; a node keeps the rules of nonces, and the chain is
not reorganised; ERC20 contracts either move the amount or return false.

Plan, in order:

1. an abstract specification of the administrators as a set that is never empty, which
   `ExchangeAdmins` and through it `NFTexchange` implement, checked and proved;
2. login and tokens composed over one table of accounts, so that a suspension between the
   login and a request is one step of one table, with `AdmittedAsActiveAccount` proved for it;
3. a trade of `NFTexchange` over the owners and approvals of `NFTCollection`, with the
   proof that what the exchange assumes of ownerOf and isApprovedForAll the collection gives;
4. refinements for the enumerations of roles (a set of members) and for mails (who has
   the code that counts).
