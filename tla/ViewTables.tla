----------------------------- MODULE ViewTables -----------------------------
(***************************************************************************)
(* The hooks of the front end as tables.  A query hook has the key its     *)
(* answer is cached under (hooks/keys.ts; filters and identifiers do not   *)
(* matter here) and the tables of the books its endpoint reads.  A         *)
(* mutation hook has the tables its endpoint may change and the keys it    *)
(* invalidates when its answer comes.  The names of people, customers and  *)
(* suppliers shown beside the figures are left out, and so is the audit    *)
(* log, which nearly every mutation adds to and none invalidates.  The     *)
(* till's "sessions" are their rows (who opened, what was counted), "till" *)
(* is what was taken and paid in them, which only the open one's figures   *)
(* are worked out from.                                                    *)
(***************************************************************************)
EXTENDS SequencesExt

\* Tables of different names as one.
Joined(tables) == [x \in UNION {DOMAIN t : t \in tables} |-> (CHOOSE t \in tables : x \in DOMAIN t)[x]]

View(key, reads) == [key |-> key, reads |-> reads]

SalesViews == [
    useSales |-> View(<<"sales", "params">>, {"sales"}),
    useSale  |-> View(<<"sale", "id">>, {"sales"})]

CashViews == [
    useCashSessions          |-> View(<<"cash-sessions", "params">>, {"sessions"}),
    useCashVariances         |-> View(<<"cash-sessions", "variances">>, {"sessions"}),
    useCurrentCashSession    |-> View(<<"cash-session", "current">>, {"sessions", "till"}),
    useCashSessionSummary    |-> View(<<"cash-session", "id">>, {"sessions", "till"}),
    useSuggestedOpeningFloat |-> View(<<"cash-sessions", "opening-float">>, {"counts"})]

MoneyViews == [
    useBankSummary   |-> View(<<"bank", "summary">>, {"bank"}),
    useBankStatement |-> View(<<"bank", "statement">>, {"bank"}),
    useHandSummary   |-> View(<<"hand", "summary">>, {"hand"}),
    useHandStatement |-> View(<<"hand", "statement">>, {"hand"}),
    useLoans         |-> View(<<"loans", "params">>, {"loans"}),
    useLoanSummary   |-> View(<<"loans", "summary">>, {"loans"}),
    useMoneyPosition |-> View(<<"report", "money-position">>, {"till", "bank", "hand", "loans"})]

ExpenseViews == [
    useExpenses                   |-> View(<<"expenses", "params">>, {"expenses", "expenseCategories"}),
    useExpensesDaily              |-> View(<<"expenses", "daily">>, {"expenses"}),
    useOfficePurchases            |-> View(<<"office-purchases", "params">>, {"expenses", "expenseCategories"}),
    useOfficePurchase             |-> View(<<"office-purchase", "id">>, {"expenses", "expenseCategories"}),
    useOfficePurchasesOutstanding |-> View(<<"office-purchases", "outstanding">>, {"expenses"}),
    useSalaries                   |-> View(<<"salaries", "params">>, {"expenses", "expenseCategories"}),
    useSalarySummary              |-> View(<<"salaries", "summary">>, {"expenses"}),
    useSalaryPayees               |-> View(<<"salaries", "payees">>, {"expenses", "users"})]

PurchaseViews == [
    usePurchases      |-> View(<<"purchases", "params">>, {"purchases"}),
    usePurchasesDaily |-> View(<<"purchases", "daily">>, {"purchases"}),
    usePurchase       |-> View(<<"purchase", "id">>, {"purchases"})]

CustomerViews == [
    useCustomers     |-> View(<<"customers", "params">>, {"customers"}),
    useCustomer      |-> View(<<"customer", "id">>, {"customers", "sales"}),
    useCustomerAging |-> View(<<"customers", "aging">>, {"customers", "sales"})]

StockViews == [
    useMovements    |-> View(<<"inventory", "movements">>, {"stock"}),
    useValuation    |-> View(<<"inventory", "valuation">>, {"stock", "products"}),
    useOpeningStock |-> View(<<"inventory", "opening-stock">>, {"stock", "products"})]

ProductViews == [
    useProducts         |-> View(<<"products", "params">>, {"products", "stock", "categories"}),
    useProduct          |-> View(<<"product", "id">>, {"products", "stock", "categories"}),
    useLowStockProducts |-> View(<<"products", "low-stock">>, {"products", "stock"})]

CatalogViews == [
    useCategories      |-> View(<<"categories">>, {"categories", "products"}),
    useUnits           |-> View(<<"units">>, {"units"}),
    useServices        |-> View(<<"services", "params">>, {"services", "stock", "products"}),
    useService         |-> View(<<"service", "id">>, {"services", "stock", "products"}),
    useSuppliers       |-> View(<<"suppliers", "params">>, {"suppliers"}),
    useSupplierSummary |-> View(<<"suppliers", "summary">>, {"suppliers"}),
    useSupplier        |-> View(<<"supplier", "id">>, {"suppliers"})]

ReportViews == [
    useFinancialSummary   |-> View(<<"report", "financial-summary">>, {"sales", "expenses", "stock"}),
    useSalesSeries        |-> View(<<"report", "sales-series">>, {"sales", "expenses", "purchases", "stock"}),
    useExpensesByCategory |-> View(<<"report", "expenses-by-category">>, {"expenses", "expenseCategories"}),
    useStockLevels        |-> View(<<"report", "stock-levels">>, {"stock", "products"}),
    useReportLowStock     |-> View(<<"report", "low-stock">>, {"stock", "products"}),
    useTopProducts        |-> View(<<"report", "top-products">>, {"sales"}),
    useProductProfitability |-> View(<<"report", "profitability">>, {"sales", "products"}),
    useProductMovement    |-> View(<<"report", "product-movement">>, {"sales", "stock", "products"}),
    useTopServices        |-> View(<<"report", "top-services">>, {"sales", "services"}),
    useWastageReport      |-> View(<<"report", "wastage">>, {"stock"}),
    useWastageEntries     |-> View(<<"report", "wastage-entries">>, {"stock"}),
    useCashReport         |-> View(<<"report", "cash-sessions">>, {"sessions"}),
    useUserActivityReport |-> View(<<"report", "user-activity">>, {"sales", "users"})]

ExpenseCategoryViews == [
    useExpenseCategories |-> View(<<"expense-categories">>, {"expenseCategories", "expenses"})]

UserViews == [
    useUsers |-> View(<<"users", "params">>, {"users"}),
    useUser  |-> View(<<"user", "id">>, {"users"})]

SettingsViews == [useAppSettings |-> View(<<"app-settings">>, {"settings"})]
BackupViews == [useBackupFiles |-> View(<<"backup-files">>, {"files", "settings"})]

Views == Joined({SalesViews, CashViews, MoneyViews, ExpenseViews, PurchaseViews, CustomerViews,
                 StockViews, ProductViews, CatalogViews, ReportViews, ExpenseCategoryViews,
                 UserViews, SettingsViews, BackupViews})

\* The views fetched again every so often while they are on the screen.
Polled == {"useCurrentCashSession", "useCashSessionSummary"}

-----------------------------------------------------------------------------
Mutation(changes, busts) == [changes |-> changes, busts |-> busts]

SalesMutations == [
    useCreateSale |-> Mutation({"sales", "stock", "till", "customers"},
        {<<"sales">>, <<"products">>, <<"report">>, <<"cash-session">>, <<"customers">>}),
    useReturnSale |-> Mutation({"sales", "stock", "till", "customers"},
        {<<"sales">>, <<"sale", "id">>, <<"products">>, <<"customers">>, <<"cash-session">>}),
    useVoidSale |-> Mutation({"sales", "stock", "till", "customers"},
        {<<"sales">>, <<"sale", "id">>, <<"products">>})]

CashMutations == [
    useOpenCashSession |-> Mutation({"sessions", "till"}, {<<"cash-sessions">>, <<"cash-session", "current">>}),
    useCloseCashSession |-> Mutation({"sessions", "till", "counts", "bank", "hand"},
        {<<"cash-sessions">>, <<"cash-session", "id">>, <<"cash-session", "current">>}),
    useCashMovement |-> Mutation({"till"},
        {<<"cash-sessions">>, <<"cash-session", "id">>, <<"cash-session", "current">>})]

\* useMoneyMutation: "every mutation busts the lot".
MoneyMutation(changes) == Mutation(changes,
    {<<"bank">>, <<"hand">>, <<"loans">>, <<"loan">>, <<"cash-session">>, <<"report", "money-position">>})

MoneyMutations == [
    useSetOpeningBalance     |-> MoneyMutation({"bank"}),
    useTransferToBank        |-> MoneyMutation({"till", "bank"}),
    useTransferToTill        |-> MoneyMutation({"till", "bank"}),
    useBankCorrection        |-> MoneyMutation({"bank"}),
    useSetHandOpeningBalance |-> MoneyMutation({"hand"}),
    useBankHeldCash          |-> MoneyMutation({"hand", "bank"}),
    useReturnHeldCashToTill  |-> MoneyMutation({"hand", "till"}),
    useHandCorrection        |-> MoneyMutation({"hand"}),
    useIssueLoan             |-> MoneyMutation({"loans", "till", "bank", "hand"}),
    useRepayLoan             |-> MoneyMutation({"loans", "till", "bank", "hand"})]

\* An expense is paid from the till or from the cash held at the shop.
Spending(busts) == Mutation({"expenses", "till", "hand"}, busts)

\* Mutant: the Bank page is left alone.
ExpenseBustsTillOnly == {<<"expenses">>, <<"report">>, <<"cash-session">>}

ExpenseBusts == {<<"expenses">>, <<"report">>, <<"cash-session">>, <<"hand">>}

ExpenseMutations == [
    useCreateExpense        |-> Spending(ExpenseBusts),
    useUpdateExpense        |-> Spending(ExpenseBusts),
    useDeleteExpense        |-> Spending(ExpenseBusts \union {<<"office-purchases">>, <<"salaries">>}),
    useCreateOfficePurchase |-> Spending(ExpenseBusts \union {<<"office-purchases">>}),
    usePayOfficePurchase    |-> Spending({<<"office-purchases">>, <<"office-purchase", "id">>,
        <<"expenses">>, <<"cash-session">>, <<"hand">>, <<"report", "money-position">>})]

\* invalidateSalaryViews: "everything an expense refreshes, this does too".
SalaryMutations == [
    useCreateSalary |-> Spending(ExpenseBusts \union {<<"salaries">>}),
    useUpdateSalary |-> Spending(ExpenseBusts \union {<<"salaries">>})]

PurchaseMutations == [
    useVoidPurchase |-> Mutation({"purchases", "products", "stock", "suppliers", "till"},
        {<<"purchases">>, <<"purchase", "id">>, <<"products">>, <<"inventory">>, <<"suppliers">>,
         <<"cash">>, <<"report">>, <<"accounting">>}),
    useCreatePurchase |-> Mutation({"purchases", "products", "stock", "suppliers", "till"},
        {<<"purchases">>, <<"products">>, <<"inventory">>, <<"suppliers">>})]

CustomerMutations == [
    useCreateCustomer |-> Mutation({"customers"}, {<<"customers">>}),
    useUpdateCustomer |-> Mutation({"customers"}, {<<"customers">>, <<"customer", "id">>}),
    useRecordCustomerPayment |-> Mutation({"customers", "sales", "till"},
        {<<"customers">>, <<"customer", "id">>, <<"cash-session">>})]

\* invalidateStock: "anything derived from it is stale".
StockBusts == {<<"inventory">>, <<"products">>, <<"report">>, <<"accounting">>}

StockMutations == [
    useRecordOpeningStock |-> Mutation({"stock", "products"}, StockBusts),
    useAdjustStock        |-> Mutation({"stock"}, StockBusts),
    useRecordWastage      |-> Mutation({"stock"}, StockBusts)]

ProductMutations == [
    useCreateProduct      |-> Mutation({"products"}, {<<"products">>}),
    useRemoveProduct      |-> Mutation({"products"}, {<<"products">>}),
    useUploadProductImage |-> Mutation({"products"}, {}),
    useUpdateProduct      |-> Mutation({"products"}, {<<"products">>, <<"product", "id">>}),
    useAddVariant         |-> Mutation({"products"}, {<<"products">>, <<"product", "id">>}),
    useDeleteProduct      |-> Mutation({"products"}, {<<"products">>, <<"product", "id">>}),
    useUpdateVariant      |-> Mutation({"products"}, {<<"products">>, <<"product">>}),
    useDeactivateVariant  |-> Mutation({"products"}, {<<"products">>, <<"product">>}),
    useRemoveVariant      |-> Mutation({"products"}, {<<"products">>, <<"product">>})]

CategoryMutations == [
    useCreateCategory |-> Mutation({"categories"}, {<<"categories">>}),
    useUpdateCategory |-> Mutation({"categories"}, {<<"categories">>, <<"products">>}),
    useDeleteCategory |-> Mutation({"categories", "products"}, {<<"categories">>, <<"products">>})]

UnitMutations == [m \in {"useCreateUnit", "useUpdateUnit", "useDeleteUnit"} |->
                     Mutation({"units"}, {<<"units">>})]

ServiceMutations ==
    [m \in {"useCreateService", "useUpdateService", "useAddServiceVariant", "useUpdateServiceVariant",
            "useDeactivateServiceVariant", "useDeleteService", "useReactivateService",
            "useRemoveService"} |-> Mutation({"services"}, {<<"services">>})]

SupplierMutations == [
    useRecordSupplierPayment |-> Mutation({"suppliers", "till"},
        {<<"suppliers">>, <<"supplier", "id">>, <<"cash-session">>}),
    useCreateSupplier |-> Mutation({"suppliers"}, {<<"suppliers">>}),
    useUpdateSupplier |-> Mutation({"suppliers"}, {<<"suppliers">>, <<"supplier", "id">>})]

ExpenseCategoryMutations == [
    useCreateExpenseCategory |-> Mutation({"expenseCategories"}, {<<"expense-categories">>}),
    useUpdateExpenseCategory |-> Mutation({"expenseCategories"},
        {<<"expense-categories">>, <<"expenses">>, <<"report">>}),
    useDeleteExpenseCategory |-> Mutation({"expenseCategories"}, {<<"expense-categories">>})]

UserMutations == [
    useCreateUser       |-> Mutation({"users"}, {<<"users">>}),
    useUpdateUser       |-> Mutation({"users"}, {<<"users">>, <<"user", "id">>}),
    useToggleUserActive |-> Mutation({"users"}, {<<"users">>, <<"user", "id">>}),
    useDeleteUser       |-> Mutation({"users"}, {<<"users">>})]

SettingsMutations == [useUpdateAppSettings |-> Mutation({"settings"}, {<<"app-settings">>})]
BackupMutations == [useRunLocalBackup |-> Mutation({"settings", "files"}, {<<"app-settings">>})]

Mutations == Joined({SalesMutations, CashMutations, MoneyMutations, ExpenseMutations, SalaryMutations,
                     PurchaseMutations, CustomerMutations, StockMutations, ProductMutations,
                     CategoryMutations, UnitMutations, ServiceMutations, SupplierMutations,
                     ExpenseCategoryMutations, UserMutations, SettingsMutations, BackupMutations})

-----------------------------------------------------------------------------
\* View v shows some of these tables.
Shows(v, tables) == Views[v].reads \intersect tables # {}

\* Mutation m changes what view v shows.
Touches(m, v) == Shows(v, Mutations[m].changes)

\* Mutation m invalidates view v: a key it names begins the view's.
Busts(m, v) == \E key \in Mutations[m].busts : IsPrefix(key, Views[v].key)
=============================================================================
