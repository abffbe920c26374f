--------------------------- MODULE MCConversation ---------------------------
(* Conversation with the values of each kind alike.  A chat goes between    *)
(* the forms of a reseller, between those of an admin for an account, or    *)
(* between two or three of those for a reseller and for the whole bot.      *)
EXTENDS Conversation, TLC

FormsTogether == {
    {"CreateUser", "RenewUser", "ToggleUserStatus", "Recharge"},
    {"AdminCreateMarzbanUser", "AdminRenewMarzbanUser", "AdminDisableMarzbanUser",
     "AdminEnableMarzbanUser", "AdminDeleteMarzbanUser"},
    {"EditReseller", "BalanceEdit"}, {"AddReseller", "SettingsEdit"}, {"EditReseller", "MaintenanceMode"},
    {"EditReseller", "AdminDeleteMarzbanUser"}, {"CreateUser", "MyUsers"},
    {"EditReseller", "LimitEdit"}, {"LimitEdit", "DisableReseller", "AdminResellerUsers"},
    {"DisableReseller", "TelegramAccountManagement"}}

Symmetry == Permutations(Tasks) \cup Permutations(Names) \cup Permutations(Volumes)
              \cup Permutations(Days)
===============================================================================
