-------------------------------- MODULE Pages --------------------------------
(***************************************************************************)
(* The pages of the front end as a table: who the router lets in           *)
(* (App.tsx), and the query hooks the page asks with, each with the        *)
(* condition under which it is enabled.  What the dialogs of a page ask    *)
(* for and send is in Forms.                                               *)
(***************************************************************************)
EXTENDS Forms

Page(route, asks) == [route |-> route, asks |-> asks]

\* Around every page: the layout, the side and top bars, the till's provider.
Layout == Ask({"useAppSettings", "useLowStockProducts", "useCurrentCashSession"}, Everyone)

DashboardPage == Page(Everyone,
    Ask({"useSales", "useLowStockProducts"}, Everyone)
    @@ Ask({"useCustomerAging"}, IsStaff)
    @@ Ask({"useExpenses", "useFinancialSummary", "useSalesSeries", "useExpensesByCategory"}, IsAdmin))

PosPage == Page(Everyone, Ask({"useProducts", "useServices", "useCustomers"}, Everyone))

SalesPage == Page(Everyone,
    Ask({"useSales"}, Everyone) @@ Ask({"useSalesSeries"}, Can("reports")))
SaleDetailPage == Page(Everyone, Ask({"useSale"}, Everyone))

ProductsPage == Page(Everyone, Ask({"useProducts", "useCategories"}, Everyone))
ProductDetailPage == Page(Everyone, Ask({"useProduct", "useMovements"}, Everyone))
ProductFormPage == Page(Can("products"), Ask({"useProduct", "useCategories"}, Everyone))

ServicesPage == Page(Everyone, Ask({"useServices"}, Everyone))
ServiceFormPage == Page(Can("services"), Ask({"useService", "useProducts"}, Everyone))

InventoryPage == Page(Everyone,
    Ask({"useLowStockProducts", "useStockLevels", "useProducts", "useMovements"}, Everyone))
OpeningStockPage == Page(Can("inventory"),
    Ask({"useOpeningStock", "useProducts", "useUnits"}, Everyone))

CustomersPage == Page(Everyone, Ask({"useCustomers", "useCustomerAging"}, Everyone))
CustomerDetailPage == Page(Everyone, Ask({"useCustomer"}, Everyone))

PurchasesPage == Page(Can("purchases"), Ask({"usePurchases", "usePurchasesDaily"}, Everyone))
CreatePurchasePage == Page(Can("purchases"),
    Ask({"useProducts", "useSuppliers", "useUnits"}, Everyone))
PurchaseDetailPage == Page(Can("purchases"), Ask({"usePurchase"}, Everyone))

SuppliersPage == Page(Can("suppliers"), Ask({"useSuppliers", "useSupplierSummary"}, Everyone))
SupplierDetailPage == Page(Can("suppliers"), Ask({"useSupplier"}, Everyone))

ExpensesPage == Page(Everyone,
    Ask({"useExpenses", "useExpenseCategories", "useExpensesDaily"}, Everyone))
SalariesPage == Page(IsAdmin, Ask({"useSalarySummary", "useSalaries"}, Everyone))
OfficePurchasesPage == Page(Can("officePurchases"),
    Ask({"useOfficePurchases", "useOfficePurchasesOutstanding"}, Everyone))
OfficePurchaseDetailPage == Page(Can("officePurchases"), Ask({"useOfficePurchase"}, Everyone))

CashPage == Page(Everyone,
    Ask({"useCurrentCashSession", "useCashSessions"}, Everyone) @@ Ask({"useCashVariances"}, IsAdmin))
BankPage == Page(IsAdmin, Ask({"useBankSummary", "useHandSummary", "useMoneyPosition",
    "useBankStatement", "useHandStatement"}, Everyone))
LoansPage == Page(Everyone, Ask({"useLoans"}, Everyone) @@ Ask({"useLoanSummary"}, IsAdmin))

ReportsPage == Page(Can("reports"),
    Ask({"useFinancialSummary", "useSalesSeries", "useExpensesByCategory", "useTopProducts",
         "useTopServices", "useStockLevels", "useReportLowStock", "useWastageReport",
         "useWastageEntries", "useCashReport", "useUserActivityReport", "useCustomerAging",
         "useSupplierSummary"}, Everyone))
ProfitPage == Page(Can("reports"), Ask({"useProductProfitability"}, Everyone))
MovementPage == Page(Can("reports"), Ask({"useProductMovement"}, Everyone))

UsersPage == Page(Can("users"), Ask({"useUsers"}, Everyone))
UserDetailPage == Page(Can("users"), Ask({"useUser"}, Everyone))
ActivityLogsPage == Page(IsAdmin, Ask({"useAuditLogs"}, Everyone))
SettingsPage == Page(Everyone, AsksNothing)

Pages == [
    DashboardPage |-> DashboardPage, PosPage |-> PosPage, SalesPage |-> SalesPage,
    SaleDetailPage |-> SaleDetailPage, ProductsPage |-> ProductsPage,
    ProductDetailPage |-> ProductDetailPage, ProductFormPage |-> ProductFormPage,
    ServicesPage |-> ServicesPage, ServiceFormPage |-> ServiceFormPage,
    InventoryPage |-> InventoryPage, OpeningStockPage |-> OpeningStockPage,
    CustomersPage |-> CustomersPage, CustomerDetailPage |-> CustomerDetailPage,
    PurchasesPage |-> PurchasesPage, CreatePurchasePage |-> CreatePurchasePage,
    PurchaseDetailPage |-> PurchaseDetailPage, SuppliersPage |-> SuppliersPage,
    SupplierDetailPage |-> SupplierDetailPage, ExpensesPage |-> ExpensesPage,
    SalariesPage |-> SalariesPage, OfficePurchasesPage |-> OfficePurchasesPage,
    OfficePurchaseDetailPage |-> OfficePurchaseDetailPage, CashPage |-> CashPage,
    BankPage |-> BankPage, LoansPage |-> LoansPage, ReportsPage |-> ReportsPage,
    ProfitPage |-> ProfitPage, MovementPage |-> MovementPage, UsersPage |-> UsersPage,
    UserDetailPage |-> UserDetailPage, ActivityLogsPage |-> ActivityLogsPage,
    SettingsPage |-> SettingsPage]

-----------------------------------------------------------------------------
FormsOn(page) == {f \in DOMAIN Forms : page \in Forms[f].on}

\* What is asked of the server when a page is opened by someone: nothing past a guard
\* that does not let in (a card says why instead).  A dialog's own queries run while it
\* is mounted, which is with its page; a section's, while it is offered.
AsksOf(page, who) ==
    {h \in DOMAIN Layout : Offered(Layout[h], who)}
    \union {h \in DOMAIN Pages[page].asks : Offered(Pages[page].route, who)
                                             /\ Offered(Pages[page].asks[h], who)}
    \union UNION {{h \in DOMAIN Forms[f].asks : Offered(Pages[page].route, who)
                                                /\ Offered(Forms[f].asks[h], who)} : f \in FormsOn(page)}

\* What can be sent from a page, by the forms offered.
SendsOf(page, who) ==
    UNION {Forms[f].sends : f \in {g \in FormsOn(page) : Offered(Pages[page].route, who)
                                                         /\ Offered(Forms[g].when, who)}}
=============================================================================
