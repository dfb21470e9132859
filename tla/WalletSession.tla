---------------------------- MODULE WalletSession ----------------------------
(***************************************************************************)
(* The wallet session of the web application (frontend                     *)
(* wallet/WalletConnectionProvider.tsx and WalletBalanceProvider.tsx):     *)
(* connecting, switching and disconnecting wallets, the session kept in    *)
(* localStorage, and the balance fetched for the active address.  A wallet *)
(* answers when its user gets to it, so calls overlap.  An address is a    *)
(* pair of its wallet and a number; the wallets kit (external) answers for *)
(* the wallet that was set when it was asked.  The list of installed       *)
(* wallets and the network are left out.                                   *)
(***************************************************************************)
EXTENDS Integers, FiniteSets

CONSTANTS
  WalletIds, DefaultWallet, NoAddress,
  AccountsPerWallet,
  MaxAsks,         \* bound: connect, switch and disconnect calls
  MaxFetches       \* bound: balance requests

VARIABLES
  walletStatus, activeAddress, selectedWallet,
  kitWallet,       \* StellarWalletsKit's wallet
  savedAddress, savedWallet,
  asks,            \* calls under way: [id, kind, wallet]
  askCount,
  lastAsked,       \* history: the wallet of the newest connect or switch
  outOfTurn,       \* history: the newest answer was for another wallet than lastAsked
  balanceOf,       \* the address whose balance is shown
  fetches,         \* balance requests under way: [id, address]
  fetchCount,
  outrun           \* history: the newest answered request failed, or was for an
                   \* address that is not active any more

connectionVars == <<walletStatus, activeAddress, selectedWallet, kitWallet, savedAddress,
                    savedWallet, asks, askCount, lastAsked, outOfTurn>>
balanceVars == <<balanceOf, fetches, fetchCount, outrun>>
walletVars == <<connectionVars, balanceVars>>

Addresses == WalletIds \X (1 .. AccountsPerWallet)
Owner(address) == address[1]

WalletInit ==
  /\ walletStatus = "idle" /\ activeAddress = NoAddress
  /\ selectedWallet = DefaultWallet /\ kitWallet = DefaultWallet
  /\ savedAddress = NoAddress /\ savedWallet = NoAddress
  /\ asks = {} /\ askCount = 0 /\ lastAsked = DefaultWallet /\ outOfTurn = FALSE
  /\ balanceOf = NoAddress /\ fetches = {} /\ fetchCount = 0 /\ outrun = FALSE

\* The effect on [activeAddress, fetchBalance]: a new address is fetched.
fetchOnChange(address) ==
  IF address \notin {activeAddress, NoAddress}
  THEN fetches \union {[id |-> fetchCount + 1, address |-> address]}
  ELSE fetches

\* Render with the given active address, and run the effects.
activate(address) ==
  /\ fetchCount < MaxFetches
  /\ activeAddress' = address
  /\ fetches' = fetchOnChange(address)
  /\ fetchCount' = IF fetches' = fetches THEN fetchCount ELSE fetchCount + 1
  /\ UNCHANGED <<balanceOf, outrun>>

asking(kind, wallet) ==
  /\ askCount < MaxAsks
  /\ askCount' = askCount + 1
  /\ asks' = asks \union {[id |-> askCount + 1, kind |-> kind, wallet |-> wallet]}

connect ==
  /\ asking("connect", selectedWallet)
  /\ kitWallet' = selectedWallet
  /\ lastAsked' = selectedWallet
  /\ walletStatus' = "connecting"
  /\ UNCHANGED <<activeAddress, selectedWallet, savedAddress, savedWallet, outOfTurn,
                 balanceVars>>

selected_before(wallet) == selectedWallet

\* setSelectedWalletId.
selected(wallet) == wallet

switchWallet(wallet) ==
  /\ asking("connect", wallet)
  /\ kitWallet' = wallet
  /\ selectedWallet' = selected(wallet)
  /\ lastAsked' = wallet
  /\ walletStatus' = "connecting"
  /\ UNCHANGED <<activeAddress, savedAddress, savedWallet, outOfTurn, balanceVars>>

disconnect ==
  /\ asking("disconnect", NoAddress)
  /\ UNCHANGED <<walletStatus, activeAddress, selectedWallet, kitWallet, savedAddress,
                 savedWallet, lastAsked, outOfTurn, balanceVars>>

\* The wallet gave an address and the network.
walletAnswers(a) ==
  /\ a.kind = "connect"
  /\ asks' = asks \ {a}
  /\ activate(<<a.wallet, 1>>)
  /\ walletStatus' = "connected"
  /\ savedAddress' = <<a.wallet, 1>> /\ savedWallet' = a.wallet
  /\ outOfTurn' = (a.wallet # lastAsked)
  /\ UNCHANGED <<selectedWallet, kitWallet, askCount, lastAsked>>

\* The user refused, or the wallet is not there: the old address stays.
walletRefuses(a) ==
  /\ a.kind = "connect"
  /\ asks' = asks \ {a}
  /\ walletStatus' = "error"
  /\ UNCHANGED <<activeAddress, selectedWallet, kitWallet, savedAddress, savedWallet, askCount,
                 lastAsked, outOfTurn, balanceVars>>

disconnected(a) ==
  /\ a.kind = "disconnect"
  /\ asks' = asks \ {a}
  /\ activate(NoAddress)
  /\ walletStatus' = "idle"
  /\ savedAddress' = NoAddress /\ savedWallet' = NoAddress
  /\ UNCHANGED <<selectedWallet, kitWallet, askCount, lastAsked, outOfTurn>>

\* Another account of the connected wallet.
switchAccount(address) ==
  /\ walletStatus = "connected" /\ address # activeAddress
  /\ Owner(address) = selectedWallet
  /\ activate(address)
  /\ savedAddress' = address
  /\ UNCHANGED <<walletStatus, selectedWallet, kitWallet, savedWallet, asks, askCount,
                 lastAsked, outOfTurn>>

\* The page is loaded again: what was under way is gone, and a saved session
\* is restored without asking the wallet.
reload ==
  LET restored == savedAddress # NoAddress /\ savedWallet # NoAddress
      wallet == IF restored THEN savedWallet ELSE DefaultWallet
  IN
  /\ askCount' = askCount + 1 /\ askCount < MaxAsks
  /\ asks' = {}
  /\ walletStatus' = IF restored THEN "connected" ELSE "idle"
  /\ activeAddress' = IF restored THEN savedAddress ELSE NoAddress
  /\ selectedWallet' = wallet /\ kitWallet' = wallet /\ lastAsked' = wallet
  /\ fetchCount < MaxFetches
  /\ fetchCount' = IF restored THEN fetchCount + 1 ELSE fetchCount
  /\ fetches' = IF restored THEN {[id |-> fetchCount + 1, address |-> savedAddress]} ELSE {}
  /\ balanceOf' = NoAddress /\ outrun' = FALSE
  /\ UNCHANGED <<savedAddress, savedWallet, outOfTurn>>

(***************************************************************************)
(* The balance                                                             *)
(***************************************************************************)
\* The interval, or refreshBalance; without an address it clears the balance.
fetchBalance ==
  /\ IF activeAddress = NoAddress
     THEN balanceOf' = NoAddress /\ UNCHANGED <<fetches, fetchCount>>
     ELSE /\ fetchCount < MaxFetches
          /\ fetchCount' = fetchCount + 1
          /\ fetches' = fetches \union {[id |-> fetchCount + 1, address |-> activeAddress]}
          /\ UNCHANGED balanceOf
  /\ UNCHANGED <<connectionVars, outrun>>

balanceAnswered(f) ==
  /\ fetches' = fetches \ {f}
  /\ balanceOf' = f.address
  /\ outrun' = (f.address # activeAddress)
  /\ UNCHANGED <<connectionVars, fetchCount>>

balanceFails(f) ==
  /\ fetches' = fetches \ {f}
  /\ outrun' = TRUE
  /\ UNCHANGED <<connectionVars, balanceOf, fetchCount>>

WalletNext ==
  \/ connect \/ disconnect \/ reload \/ fetchBalance
  \/ \E wallet \in WalletIds : switchWallet(wallet)
  \/ \E a \in asks : walletAnswers(a) \/ walletRefuses(a) \/ disconnected(a)
  \/ \E address \in Addresses : switchAccount(address)
  \/ \E f \in fetches : balanceAnswered(f) \/ balanceFails(f)

(***************************************************************************)
(* Properties.                                                             *)
(***************************************************************************)
\* A connected session names one wallet throughout: the active address, the
\* selected wallet, the wallet that would sign and the saved session agree,
\* unless the newest answer came from another wallet than the one asked last.
\* With no request under way, the balance shown is that of the active
\* address, unless the newest answer was an error or was for an address left
\* in the meantime.  (After a disconnect the old balance stays on the screen.)
SessionNamesOneWallet ==
  /\ walletStatus = "connected" /\ ~outOfTurn =>
       /\ Owner(activeAddress) = selectedWallet
       /\ kitWallet = selectedWallet
       /\ savedAddress = activeAddress /\ savedWallet = selectedWallet
  /\ activeAddress # NoAddress /\ fetches = {} /\ ~outrun => balanceOf = activeAddress
=============================================================================
