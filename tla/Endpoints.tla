------------------------------ MODULE Endpoints ------------------------------
(***************************************************************************)
(* Who the server answers.  Every handler of a controller is guarded by    *)
(* JwtAuthGuard, RolesGuard and PermissionsGuard; a decorator of the       *)
(* handler overrides the controller's.  An endpoint goes here by the name  *)
(* of the front-end hook that calls it.  What a service refuses for the    *)
(* row it is asked about (another's expense, an administrator's account)   *)
(* is not here.                                                            *)
(***************************************************************************)
EXTENDS TLC, FiniteSets

\* common/permissions.ts: what an administrator may grant to staff.
PermissionKeys == {"products", "services", "purchases", "inventory", "suppliers",
                   "reports", "officePurchases", "users", "settings"}

Guard(admin, keys) == [admin |-> admin, keys |-> keys]

Signed == Guard(FALSE, {})
AdminOnly == Guard(TRUE, {})
Holders(keys) == Guard(FALSE, keys)

\* Mutant: every key is required.
HasPermissionAll(guard, who) == guard.keys = {} \/ who.admin \/ guard.keys \subseteq who.keys

\* RolesGuard: a handler that names roles wants one of them.
HasRole(guard, who) == guard.admin => who.admin

\* PermissionsGuard: administrators always pass, staff with one of the keys named.
HasPermission(guard, who) ==
    guard.keys = {} \/ who.admin \/ guard.keys \intersect who.keys # {}

\* The account as it is in the database when the request comes (jwt.strategy.ts).
Admits(guard, who) == HasRole(guard, who) /\ HasPermission(guard, who)

For(hooks, guard) == [h \in hooks |-> guard]

-----------------------------------------------------------------------------
CashEndpoints ==
    For({"useOpenCashSession", "useCashMovement", "useCloseCashSession", "useCashSessions",
         "useCurrentCashSession", "useSuggestedOpeningFloat", "useCashSessionSummary"}, Signed)
    @@ For({"useCashVariances"}, AdminOnly)

BankEndpoints == For({"useBankSummary", "useBankStatement", "useSetOpeningBalance",
    "useTransferToBank", "useTransferToTill", "useBankCorrection"}, AdminOnly)

HandEndpoints == For({"useHandSummary", "useHandStatement", "useSetHandOpeningBalance",
    "useBankHeldCash", "useReturnHeldCashToTill", "useHandCorrection"}, AdminOnly)

\* Members see the loans they owe; the rest is the administrator's.
LoanEndpoints ==
    For({"useLoans"}, Signed)
    @@ For({"useLoanSummary", "useIssueLoan", "useRepayLoan"}, AdminOnly)

ExpenseEndpoints ==
    For({"useCreateExpense", "useExpenses", "useExpensesDaily", "useUpdateExpense", "useDeleteExpense"}, Signed)
    @@ For({"useCreateOfficePurchase", "useOfficePurchases", "useOfficePurchasesOutstanding",
            "useOfficePurchase", "usePayOfficePurchase"}, Holders({"officePurchases"}))
    @@ For({"useCreateSalary", "useSalaries", "useSalarySummary", "useSalaryPayees",
            "useUpdateSalary"}, AdminOnly)

ExpenseCategoryEndpoints ==
    For({"useExpenseCategories"}, Signed)
    @@ For({"useCreateExpenseCategory", "useUpdateExpenseCategory", "useDeleteExpenseCategory"}, AdminOnly)

PurchaseEndpoints == For({"useCreatePurchase", "usePurchases", "usePurchasesDaily", "usePurchase",
    "useVoidPurchase"}, Holders({"purchases"}))

CustomerEndpoints == For({"useCreateCustomer", "useCustomers", "useCustomerAging", "useCustomer",
    "useUpdateCustomer", "useRecordCustomerPayment"}, Signed)

\* A purchase names its supplier, so who may purchase may read them.
SupplierEndpoints ==
    For({"useSuppliers", "useSupplier"}, Holders({"purchases", "suppliers"}))
    @@ For({"useCreateSupplier", "useSupplierSummary", "useUpdateSupplier",
            "useRecordSupplierPayment"}, Holders({"suppliers"}))

InventoryEndpoints ==
    For({"useMovements", "useRecordWastage"}, Signed)
    @@ For({"useValuation"}, AdminOnly)
    @@ For({"useOpeningStock", "useRecordOpeningStock", "useAdjustStock"}, Holders({"inventory"}))

ProductEndpoints ==
    For({"useProducts", "useLowStockProducts", "useProduct"}, Signed)
    @@ For({"useCreateProduct", "useUpdateProduct", "useAddVariant", "useUpdateVariant",
            "useDeactivateVariant", "useRemoveVariant", "useUploadProductImage", "useDeleteProduct",
            "useRemoveProduct"}, Holders({"products"}))

ServiceEndpoints ==
    For({"useServices", "useService"}, Signed)
    @@ For({"useCreateService", "useUpdateService", "useAddServiceVariant", "useUpdateServiceVariant",
            "useDeactivateServiceVariant", "useDeleteService", "useReactivateService",
            "useRemoveService"}, Holders({"services"}))

CategoryEndpoints ==
    For({"useCategories"}, Signed)
    @@ For({"useCreateCategory", "useUpdateCategory", "useDeleteCategory"}, Holders({"products"}))

UnitEndpoints ==
    For({"useUnits"}, Signed)
    @@ For({"useCreateUnit", "useUpdateUnit", "useDeleteUnit"}, Holders({"purchases"}))

\* The money position is under the controller's key and the handler's role.
ReportEndpoints ==
    For({"useSalesSeries", "useFinancialSummary", "useExpensesByCategory", "useStockLevels",
         "useReportLowStock", "useTopProducts", "useTopServices", "useProductProfitability",
         "useProductMovement", "useCashReport", "useWastageReport", "useWastageEntries",
         "useUserActivityReport"}, Holders({"reports"}))
    @@ For({"useMoneyPosition"}, Guard(TRUE, {"reports"}))

SalesEndpoints ==
    For({"useCreateSale", "useSales", "useSale", "useReturnSale"}, Signed)
    @@ For({"useVoidSale"}, AdminOnly)

UserEndpoints == For({"useCreateUser", "useUsers", "useUser", "useUpdateUser", "useToggleUserActive",
    "useDeleteUser", "useSetUserPassword"}, Holders({"users"}))

SettingsEndpoints ==
    For({"useAppSettings"}, Signed) @@ For({"useUpdateAppSettings"}, Holders({"settings"}))

BackupEndpoints == For({"useRunLocalBackup", "useBackupFiles", "useRestoreLocalBackup",
    "useRestoreBackup"}, Holders({"settings"}))

SystemEndpoints == For({"useStartupStatus", "useSetStartup"}, Holders({"settings"}))
UploadEndpoints == For({"useUploadImage"}, AdminOnly)
AuditEndpoints == For({"useAuditLogs"}, AdminOnly)

Endpoints ==
    CashEndpoints @@ BankEndpoints @@ HandEndpoints @@ LoanEndpoints @@ ExpenseEndpoints
    @@ ExpenseCategoryEndpoints @@ PurchaseEndpoints @@ CustomerEndpoints @@ SupplierEndpoints
    @@ InventoryEndpoints @@ ProductEndpoints @@ ServiceEndpoints @@ CategoryEndpoints
    @@ UnitEndpoints @@ ReportEndpoints @@ SalesEndpoints @@ UserEndpoints @@ SettingsEndpoints
    @@ BackupEndpoints @@ SystemEndpoints @@ UploadEndpoints @@ AuditEndpoints
=============================================================================
